------------------------------ MODULE Payments ------------------------------
(***************************************************************************)
(* The Lock and Release Payment protocol of the p2p-payment pallet: a      *)
(* seller creates a payment, a buyer deposits (the amount is locked on the *)
(* buyer's account), the buyer completes it (unlock, then transfer), the   *)
(* seller may cancel it.                                                   *)
(*                                                                         *)
(* A payment is stored under the hash of its initial content, and that     *)
(* content holds its order number: the order number stands for the hash.   *)
(* Name, description and images are left out: no code reads them.          *)
(***************************************************************************)
EXTENDS Balances, Sequences

CONSTANTS
    NoAccount,  \* payer: None
    MaxOrder,   \* the largest u128 order number
    MaxHistory  \* bound of the model: deposits per account

ASSUME PaymentsAssumption ==
    /\ NoAccount \notin Accounts
    /\ MaxOrder \in Nat
    /\ MaxHistory \in Nat

VARIABLES
    payments,        \* Payments: order number -> payment
    paymentsCounter, \* PaymentsCounter
    paymentsOwned,   \* PaymentsOwned: seller -> payments, oldest first
    payHistory       \* PayHistory: buyer -> deposited payments, oldest first

registerVars == <<payments, paymentsCounter, paymentsOwned, payHistory>>
paymentVars == <<balanceVars, registerVars>>

PaymentStatus ==
    {"WaitingForDeposit", "Deposited", "Completed", "Cancelled", "Disputed"}

Payment ==
    [amount : Amounts, payer : Accounts \cup {NoAccount}, payee : Accounts,
     status : PaymentStatus]

PaymentIds == 1 .. MaxOrder

PaymentsTypeOK ==
    /\ BalancesTypeOK
    /\ paymentsCounter \in 0 .. MaxOrder
    /\ payments \in [1 .. paymentsCounter -> Payment]
    /\ paymentsOwned \in [Accounts -> Seq(PaymentIds)]
    /\ payHistory \in [Accounts -> Seq(PaymentIds)]

PaymentsInit ==
    /\ BalancesInit
    /\ payments = [id \in {} |-> <<>>]
    /\ paymentsCounter = 0
    /\ paymentsOwned = [a \in Accounts |-> <<>>]
    /\ payHistory = [a \in Accounts |-> <<>>]

PaymentExists(id) == id \in DOMAIN payments

\* Slip: a cancelled payment is offered again.
SetStatusReoffering(id, status) ==
    [payments EXCEPT ![id].status =
        IF status = "Cancelled" THEN "WaitingForDeposit" ELSE status]

SetStatus(id, status) == [payments EXCEPT ![id].status = status]

\* Slip: the status stays once the payment is disputed.
TakenByDisputed(id, payer) ==
    [payments EXCEPT ![id].payer = payer,
                     ![id].status = IF @ = "Disputed" THEN @ ELSE "Deposited"]

TakenBy(id, payer) ==
    [payments EXCEPT ![id].status = "Deposited", ![id].payer = payer]

-----------------------------------------------------------------------------
(* The calls.  Each pays its fee first; what an early return refuses is    *)
(* DispatchError of Balances.                                              *)

\* Slip: the order number wraps.
CreatePaymentWrapping(payee, amount, payer) ==
    LET order == (paymentsCounter + 1) % (MaxOrder + 1)
        payment == [amount |-> amount, payer |-> payer, payee |-> payee,
                    status |-> "WaitingForDeposit"]
    IN  /\ CanPayFee(payee)
        /\ free' = AfterFee(payee)
        /\ paymentsOwned' = [paymentsOwned EXCEPT ![payee] = Append(@, order)]
        /\ payments' = [id \in 1 .. order |->
                            IF id = order THEN payment ELSE payments[id]]
        /\ paymentsCounter' = order
        /\ UNCHANGED <<locks, payHistory>>

\* Slip: the payment is listed for its payer.
CreatePaymentForPayer(payee, amount, payer) ==
    LET order == paymentsCounter + 1
        payment == [amount |-> amount, payer |-> payer, payee |-> payee,
                    status |-> "WaitingForDeposit"]
        owner == IF payer = NoAccount THEN payee ELSE payer
    IN  /\ CanPayFee(payee)
        /\ order <= MaxOrder
        /\ free' = AfterFee(payee)
        /\ paymentsOwned' = [paymentsOwned EXCEPT ![owner] = Append(@, order)]
        /\ payments' = [id \in 1 .. order |->
                            IF id = order THEN payment ELSE payments[id]]
        /\ paymentsCounter' = order
        /\ UNCHANGED <<locks, payHistory>>

\* checked_add: at MaxOrder the call fails with PaymentsCountOverflow.
CreatePayment(payee, amount, payer) ==
    LET order == paymentsCounter + 1
        payment == [amount |-> amount, payer |-> payer, payee |-> payee,
                    status |-> "WaitingForDeposit"]
    IN  /\ CanPayFee(payee)
        /\ order <= MaxOrder
        /\ free' = AfterFee(payee)
        /\ paymentsOwned' = [paymentsOwned EXCEPT ![payee] = Append(@, order)]
        /\ payments' = [id \in 1 .. order |->
                            IF id = order THEN payment ELSE payments[id]]
        /\ paymentsCounter' = order
        /\ UNCHANGED <<locks, payHistory>>

\* Anyone may deposit any payment, whatever its status and its payer.
DepositPayment(payer, id) ==
    /\ CanPayFee(payer)
    /\ PaymentExists(id)
    /\ Len(payHistory[payer]) < MaxHistory
    /\ AfterFee(payer)[payer] >= payments[id].amount
    /\ free' = AfterFee(payer)
    /\ locks' = SetLock(payer, "lockerid", payments[id].amount)
    /\ payments' = TakenBy(id, payer)
    /\ payHistory' = [payHistory EXCEPT ![payer] = Append(@, id)]
    /\ UNCHANGED <<paymentsCounter, paymentsOwned>>

\* The caller must be the recorded payer; when none is recorded, anyone is.
MayComplete(payer, id) == payments[id].payer \in {payer, NoAccount}

\* Slip: the payment is Completed before the transfer is tried.
CompletePaymentEarly(payer, id) ==
    LET payment == payments[id]
        paid == AfterFee(payer)
        unlocked == RemoveLock(payer, "lockerid")
    IN  /\ CanPayFee(payer)
        /\ PaymentExists(id)
        /\ MayComplete(payer, id)
        /\ locks' = unlocked
        /\ free' = IF CanTransfer(paid, unlocked, payer, payment.payee, payment.amount)
                   THEN Moved(paid, payer, payment.payee, payment.amount)
                   ELSE paid
        /\ payments' = SetStatus(id, "Completed")
        /\ UNCHANGED <<paymentsCounter, paymentsOwned, payHistory>>

\* The lock goes first, and stays gone when the transfer then fails: the call
\* is not #[transactional].
CompletePayment(payer, id) ==
    LET payment == payments[id]
        paid == AfterFee(payer)
        unlocked == RemoveLock(payer, "lockerid")
        transferable == CanTransfer(paid, unlocked, payer, payment.payee,
                                    payment.amount)
    IN  /\ CanPayFee(payer)
        /\ PaymentExists(id)
        /\ MayComplete(payer, id)
        /\ locks' = unlocked
        /\ \/ /\ transferable
              /\ free' = Moved(paid, payer, payment.payee, payment.amount)
              /\ payments' = SetStatus(id, "Completed")
           \/ /\ ~ transferable
              /\ free' = paid
              /\ UNCHANGED payments
        /\ UNCHANGED <<paymentsCounter, paymentsOwned, payHistory>>

\* Only a payment that is Deposited right now releases its payer's lock.
CancelPayment(sender, id) ==
    LET payment == payments[id]
        release == payment.status = "Deposited" /\ payment.payer # NoAccount
    IN  /\ CanPayFee(sender)
        /\ PaymentExists(id)
        /\ sender = payment.payee
        /\ free' = AfterFee(sender)
        /\ locks' = IF release THEN RemoveLock(payment.payer, "lockerid") ELSE locks
        /\ payments' = SetStatus(id, "Cancelled")
        /\ UNCHANGED <<paymentsCounter, paymentsOwned, payHistory>>

PaymentCalls ==
    \E a \in Accounts :
        \/ \E amount \in Amounts, payer \in Accounts \cup {NoAccount} :
              CreatePayment(a, amount, payer)
        \/ \E id \in PaymentIds :
              \/ DepositPayment(a, id)
              \/ CompletePayment(a, id)
              \/ CancelPayment(a, id)

PaymentsNext ==
    \/ PaymentCalls
    \/ BalancesNext /\ UNCHANGED registerVars

PaymentsSpec == PaymentsInit /\ [][PaymentsNext]_paymentVars

-----------------------------------------------------------------------------
(* Properties of the payment register.                                     *)

\* A seller's list holds the payments naming it as payee, all of them, each
\* once and in the order they were made: the page that lists a seller's
\* payments neither loses nor doubles one, whatever other calls interleave.
SellerListExact ==
    /\ \A a \in Accounts : \A i, j \in DOMAIN paymentsOwned[a] :
          i < j => paymentsOwned[a][i] < paymentsOwned[a][j]
    /\ \A a \in Accounts : \A i \in DOMAIN paymentsOwned[a] :
          /\ PaymentExists(paymentsOwned[a][i])
          /\ payments[paymentsOwned[a][i]].payee = a
    /\ \A id \in DOMAIN payments :
          \E i \in DOMAIN paymentsOwned[payments[id].payee] :
              paymentsOwned[payments[id].payee][i] = id

\* A payment that holds a deposit names a payer, and is in that payer's
\* history: the account a cancellation unlocks, a dispute involves and a
\* settlement charges is one that did sign a deposit of this payment.
DepositRecorded ==
    \A id \in DOMAIN payments :
        payments[id].status = "Deposited" =>
            /\ payments[id].payer \in Accounts
            /\ \E i \in DOMAIN payHistory[payments[id].payer] :
                  payHistory[payments[id].payer][i] = id

\* A payment in somebody's history has left WaitingForDeposit for good.
HistoryNotWaiting ==
    \A a \in Accounts : \A i \in DOMAIN payHistory[a] :
        /\ PaymentExists(payHistory[a][i])
        /\ payments[payHistory[a][i]].status # "WaitingForDeposit"

\* The register, the sellers' lists and the payers' histories tell one story.
PaymentRecords == SellerListExact /\ DepositRecorded /\ HistoryNotWaiting

\* Index i of a's history is a's most recent deposit of a positive amount.
LastDeposit(a, i) ==
    /\ i \in DOMAIN payHistory[a]
    /\ payments[payHistory[a][i]].amount > 0
    /\ \A j \in DOMAIN payHistory[a] :
          j > i => payments[payHistory[a][j]].amount = 0

\* What is locked on a buyer's account is exactly the amount of the buyer's
\* most recent (positive) deposit, never a sum or an older deposit: the code
\* gives every payment the same lock identifier.
LockIsLastDeposit ==
    \A a \in Accounts :
        locks[a]["lockerid"] > 0 =>
            \E i \in DOMAIN payHistory[a] :
                /\ LastDeposit(a, i)
                /\ locks[a]["lockerid"] = payments[payHistory[a][i]].amount

\* A step that makes a payment Completed moved its amount, in that step, from
\* its caller to the payment's payee and charged the caller the fee.  The
\* caller is the recorded payer when there is one.
CompletionStep ==
    \A id \in DOMAIN payments :
        payments'[id].status = "Completed" /\ payments[id].status # "Completed" =>
            \E a \in Accounts :
                /\ payments[id].payer \in {a, NoAccount}
                /\ free' = Moved(AfterFee(a), a, payments[id].payee,
                                 payments[id].amount)
                /\ free'[a] >= 0
                /\ locks'[a]["lockerid"] = 0

CompletionPays == [][CompletionStep]_paymentVars

\* No call edits what the parties agreed on, forgets a payment, or offers a
\* payment for deposit a second time.
TermsStep ==
    \A id \in DOMAIN payments :
        /\ id \in DOMAIN payments'
        /\ payments'[id].amount = payments[id].amount
        /\ payments'[id].payee = payments[id].payee
        /\ payments'[id].status = "WaitingForDeposit" =>
              payments'[id] = payments[id]

\* The recorded payer of a payment, whom a cancellation unlocks and a dispute
\* charges, changes in no step but a deposit, which enters the payment in the
\* new payer's history and leaves it Deposited.
PayerStep ==
    \A id \in DOMAIN payments :
        payments'[id].payer # payments[id].payer =>
            /\ payments'[id].status = "Deposited"
            /\ payments'[id].payer \in Accounts
            /\ Len(payHistory'[payments'[id].payer]) >
                  Len(payHistory[payments'[id].payer])

\* What a payment was agreed on, and who answers for it, changes by the steps
\* that are meant to change it only.
RecordsKept == [][TermsStep /\ PayerStep]_paymentVars

\* Refuted: a payment that is Deposited is covered by its payer's lock.
DepositHeld ==
    \A id \in DOMAIN payments :
        payments[id].status = "Deposited" =>
            locks[payments[id].payer]["lockerid"] >= payments[id].amount
=============================================================================
