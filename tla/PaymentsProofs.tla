--------------------------- MODULE PaymentsProofs ---------------------------
(***************************************************************************)
(* The payment protocol keeps its register consistent with the accounts.   *)
(* The invariant is the conjunction of three parts that each step carries  *)
(* over together: the accounts are sound, the register is consistent in    *)
(* itself (RegisterInv), and the locks are those of the last deposits.     *)
(*                                                                         *)
(* Every call but create and deposit changes the register only by moving   *)
(* one payment to a later status (SettledStatus), dispute_payment of the   *)
(* full pallet included: those cases share RegisterKept and LocksKept.     *)
(***************************************************************************)
EXTENDS Payments, BalancesProofs

RegisterTypeOK ==
    /\ paymentsCounter \in 0 .. MaxOrder
    /\ payments \in [1 .. paymentsCounter -> Payment]
    /\ paymentsOwned \in [Accounts -> Seq(PaymentIds)]
    /\ payHistory \in [Accounts -> Seq(PaymentIds)]

RegisterInv ==
    /\ RegisterTypeOK
    /\ SellerListExact
    /\ DepositRecorded
    /\ HistoryNotWaiting

PaymentsInv ==
    /\ Sound(free, locks)
    /\ RegisterInv
    /\ LockIsLastDeposit

SettledStatus == {"Completed", "Cancelled", "Disputed"}

\* The parts a reader knows by name.
LEMMA PaymentsInvParts ==
  ASSUME PaymentsInv
  PROVE  PaymentsTypeOK /\ NoDust /\ LocksBacked /\ SellerListExact
           /\ DepositRecorded /\ HistoryNotWaiting /\ LockIsLastDeposit
  BY DEF PaymentsInv, Sound, RegisterInv, RegisterTypeOK, PaymentsTypeOK,
         BalancesTypeOK, NoDust, LocksBacked

-----------------------------------------------------------------------------
\* Moving one payment to a settled status, its terms and payer untouched.
SettlesOne(id, status) ==
    /\ payments' = SetStatus(id, status)
    /\ UNCHANGED <<paymentsCounter, paymentsOwned, payHistory>>

\* Setting the status of one payment as completing, cancelling and disputing do
\* leaves its parties and its amount, and every other payment, as they were.
LEMMA SettledPayments ==
  ASSUME RegisterTypeOK, NEW id \in DOMAIN payments, NEW status \in SettledStatus,
         SettlesOne(id, status)
  PROVE  /\ DOMAIN payments' = DOMAIN payments
         /\ payments' \in [1 .. paymentsCounter -> Payment]
         /\ payments'[id].status = status
         /\ \A i \in DOMAIN payments :
               /\ payments'[i].amount = payments[i].amount
               /\ payments'[i].payee = payments[i].payee
               /\ payments'[i].payer = payments[i].payer
               /\ i # id => payments'[i] = payments[i]
  <1>1. payments \in [1 .. paymentsCounter -> Payment] BY DEF RegisterTypeOK
  <1>2. payments' = [payments EXCEPT ![id].status = status] BY DEF SettlesOne, SetStatus
  <1> DEFINE p == payments[id]
             r == [p EXCEPT !.status = status]
  <1>3. /\ r \in Payment /\ r.status = status
        /\ r.amount = p.amount /\ r.payee = p.payee /\ r.payer = p.payer
    BY <1>1 DEF Payment, PaymentStatus, SettledStatus
  <1>4. payments' = [payments EXCEPT ![id] = r] BY <1>2
  <1> HIDE DEF r
  <1>5. payments'[id] = r /\ DOMAIN payments' = DOMAIN payments BY <1>1, <1>4
  <1>6. \A i \in DOMAIN payments : i # id => payments'[i] = payments[i] BY <1>1, <1>4
  <1> QED BY <1>1, <1>3, <1>4, <1>5, <1>6

\* Setting a payment's status to anything but Deposited or WaitingForDeposit, as
\* completing, cancelling and disputing do, preserves the register's invariants.
LEMMA RegisterKept ==
  ASSUME RegisterInv, NEW id \in DOMAIN payments, NEW status \in SettledStatus,
         SettlesOne(id, status)
  PROVE  RegisterInv'
  <1>1. RegisterTypeOK BY DEF RegisterInv
  <1>2. /\ DOMAIN payments' = DOMAIN payments
        /\ payments' \in [1 .. paymentsCounter -> Payment]
        /\ payments'[id].status \notin {"WaitingForDeposit", "Deposited"}
        /\ \A i \in DOMAIN payments :
              /\ payments'[i].payee = payments[i].payee
              /\ payments'[i].payer = payments[i].payer
              /\ i # id => payments'[i] = payments[i]
    BY <1>1, SettledPayments DEF SettledStatus
  <1>3. /\ paymentsCounter' = paymentsCounter
        /\ paymentsOwned' = paymentsOwned /\ payHistory' = payHistory
    BY DEF SettlesOne
  <1>4. RegisterTypeOK' BY <1>1, <1>2, <1>3 DEF RegisterTypeOK
  <1>5. SellerListExact'
    BY <1>1, <1>2, <1>3 DEF RegisterInv, SellerListExact, PaymentExists
  <1>6. DepositRecorded'
    BY <1>2, <1>3 DEF RegisterInv, DepositRecorded
  <1>7. HistoryNotWaiting'
    BY <1>2, <1>3 DEF RegisterInv, HistoryNotWaiting, PaymentExists
  <1> QED BY <1>4, <1>5, <1>6, <1>7 DEF RegisterInv

\* Locks that stay or go, under a register whose histories and terms stay.
LEMMA LocksKept ==
  ASSUME RegisterInv, LockIsLastDeposit, payHistory' = payHistory,
         \A i \in DOMAIN payments : payments'[i].amount = payments[i].amount,
         \A a \in Accounts : \/ locks'[a]["lockerid"] = 0
                             \/ locks'[a]["lockerid"] = locks[a]["lockerid"]
  PROVE  LockIsLastDeposit'
  <1> SUFFICES ASSUME NEW a \in Accounts, locks'[a]["lockerid"] > 0
               PROVE  (\E i \in DOMAIN payHistory[a] :
                          /\ LastDeposit(a, i)
                          /\ locks[a]["lockerid"] = payments[payHistory[a][i]].amount)'
    BY DEF LockIsLastDeposit
  <1>1. locks'[a]["lockerid"] = locks[a]["lockerid"]
    OBVIOUS
  <1>2. PICK i \in DOMAIN payHistory[a] :
           /\ LastDeposit(a, i)
           /\ locks[a]["lockerid"] = payments[payHistory[a][i]].amount
    BY <1>1 DEF LockIsLastDeposit
  <1>3. \A j \in DOMAIN payHistory[a] :
           payments'[payHistory[a][j]].amount = payments[payHistory[a][j]].amount
    BY DEF RegisterInv, HistoryNotWaiting, PaymentExists
  <1>4. LastDeposit(a, i)'
    BY <1>2, <1>3 DEF LastDeposit
  <1> QED BY <1>1, <1>2, <1>3, <1>4

-----------------------------------------------------------------------------
(* The calls.                                                              *)

\* A new payment is nobody's deposit and is filed last, under a new number.
LEMMA CreateKeeps ==
  ASSUME PaymentsInv, NEW a \in Accounts, NEW amount \in Amounts,
         NEW payer \in Accounts \cup {NoAccount}, CreatePayment(a, amount, payer)
  PROVE  PaymentsInv'
  <1> DEFINE order == paymentsCounter + 1
             payment == [amount |-> amount, payer |-> payer, payee |-> a,
                         status |-> "WaitingForDeposit"]
  <1>1. RegisterTypeOK /\ Sound(free, locks)
    BY DEF PaymentsInv, RegisterInv
  <1>2. /\ order \in 1 .. MaxOrder /\ paymentsCounter' = order
        /\ DOMAIN payments = 1 .. (order - 1) /\ order \notin DOMAIN payments
        /\ payment \in Payment
    BY <1>1, PaymentsAssumption
    DEF RegisterTypeOK, CreatePayment, Payment, PaymentStatus
  <1>3. /\ DOMAIN payments' = 1 .. order
        /\ payments'[order] = payment
        /\ \A id \in DOMAIN payments : payments'[id] = payments[id]
    BY <1>1, <1>2 DEF CreatePayment, RegisterTypeOK
  <1>4. /\ free' = AfterFee(a) /\ locks' = locks /\ payHistory' = payHistory
        /\ CanPayFee(a)
        /\ paymentsOwned' = [paymentsOwned EXCEPT ![a] = Append(@, order)]
        /\ payments' = [id \in 1 .. order |->
                             IF id = order THEN payment ELSE payments[id]]
    BY DEF CreatePayment
  <1>5. Sound(free', locks')
    BY <1>1, <1>4, FeeSound
  <1>6. RegisterTypeOK'
    <2>1. payments' \in [1 .. paymentsCounter' -> Payment]
      BY <1>1, <1>2, <1>4 DEF RegisterTypeOK
    <2>2. paymentsOwned' \in [Accounts -> Seq(PaymentIds)]
      BY <1>1, <1>2, <1>4 DEF RegisterTypeOK, PaymentIds
    <2> QED BY <1>1, <1>2, <1>4, <2>1, <2>2 DEF RegisterTypeOK
  <1>7. SellerListExact'
    <2>1. \A b \in Accounts \ {a} : paymentsOwned'[b] = paymentsOwned[b]
      BY <1>1, <1>4 DEF RegisterTypeOK
    <2>2. /\ DOMAIN paymentsOwned'[a] = 1 .. Len(paymentsOwned[a]) + 1
          /\ DOMAIN paymentsOwned[a] = 1 .. Len(paymentsOwned[a])
          /\ Len(paymentsOwned[a]) \in Nat
          /\ paymentsOwned'[a][Len(paymentsOwned[a]) + 1] = order
          /\ \A i \in DOMAIN paymentsOwned[a] :
                paymentsOwned'[a][i] = paymentsOwned[a][i]
      BY <1>1, <1>4 DEF RegisterTypeOK
    <2>3. SellerListExact BY DEF PaymentsInv, RegisterInv
    <2>4. \A b \in Accounts : \A i \in DOMAIN paymentsOwned[b] :
             paymentsOwned[b][i] \in 1 .. (order - 1)
      BY <1>2, <2>3 DEF SellerListExact, PaymentExists
    <2>5. \A b \in Accounts : \A i, j \in DOMAIN paymentsOwned'[b] :
             i < j => paymentsOwned'[b][i] < paymentsOwned'[b][j]
      <3> SUFFICES ASSUME NEW b \in Accounts, NEW i \in DOMAIN paymentsOwned'[b],
                          NEW j \in DOMAIN paymentsOwned'[b], i < j
                   PROVE  paymentsOwned'[b][i] < paymentsOwned'[b][j]
        OBVIOUS
      <3>1. CASE b # a BY <2>1, <2>3, <3>1 DEF SellerListExact
      <3>2. CASE b = a /\ j \in DOMAIN paymentsOwned[a]
        BY <2>2, <2>3, <3>2, SMTT(30) DEF SellerListExact
      <3>3. CASE b = a /\ j \notin DOMAIN paymentsOwned[a]
        <4>1. i \in DOMAIN paymentsOwned[a] /\ paymentsOwned'[a][j] = order
          BY <2>2, <3>3
        <4>2. paymentsOwned'[a][i] \in 1 .. (order - 1)
          BY <2>2, <2>4, <4>1
        <4> QED BY <1>2, <3>3, <4>1, <4>2
      <3> QED BY <3>1, <3>2, <3>3
    <2>6. \A b \in Accounts : \A i \in DOMAIN paymentsOwned'[b] :
             /\ paymentsOwned'[b][i] \in DOMAIN payments'
             /\ payments'[paymentsOwned'[b][i]].payee = b
      <3> SUFFICES ASSUME NEW b \in Accounts, NEW i \in DOMAIN paymentsOwned'[b]
                   PROVE  /\ paymentsOwned'[b][i] \in DOMAIN payments'
                          /\ payments'[paymentsOwned'[b][i]].payee = b
        OBVIOUS
      <3>1. CASE b = a /\ i \notin DOMAIN paymentsOwned[a]
        BY <1>2, <1>3, <2>2, <3>1, SMTT(30)
      <3>2. CASE b # a \/ i \in DOMAIN paymentsOwned[a]
        <4>1. i \in DOMAIN paymentsOwned[b] /\ paymentsOwned'[b][i] = paymentsOwned[b][i]
          BY <2>1, <2>2, <3>2
        <4>2. /\ paymentsOwned[b][i] \in DOMAIN payments
              /\ payments[paymentsOwned[b][i]].payee = b
          BY <2>3, <4>1 DEF SellerListExact, PaymentExists
        <4>3. DOMAIN payments \subseteq DOMAIN payments'
          BY <1>2, <1>3
        <4> QED BY <1>3, <4>1, <4>2, <4>3
      <3> QED BY <3>1, <3>2
    <2>7. \A id \in DOMAIN payments' :
             \E i \in DOMAIN paymentsOwned'[payments'[id].payee] :
                 paymentsOwned'[payments'[id].payee][i] = id
      <3> SUFFICES ASSUME NEW id \in DOMAIN payments'
                   PROVE  \E i \in DOMAIN paymentsOwned'[payments'[id].payee] :
                              paymentsOwned'[payments'[id].payee][i] = id
        OBVIOUS
      <3>1. CASE id = order
        BY <1>3, <2>2, <3>1
      <3>2. CASE id # order
        <4>1. id \in DOMAIN payments /\ payments'[id] = payments[id]
          BY <1>2, <1>3, <3>2
        <4>2. PICK i \in DOMAIN paymentsOwned[payments[id].payee] :
                 paymentsOwned[payments[id].payee][i] = id
          BY <2>3, <4>1 DEF SellerListExact
        <4>3. payments[id].payee \in Accounts
          BY <1>1, <4>1 DEF RegisterTypeOK, Payment
        <4>4. CASE payments[id].payee = a
          <5>1. i \in DOMAIN paymentsOwned'[a] /\ paymentsOwned'[a][i] = id
            BY <2>2, <4>2, <4>4
          <5> QED BY <4>1, <4>4, <5>1
        <4>5. CASE payments[id].payee # a
          BY <2>1, <4>1, <4>2, <4>3, <4>5
        <4> QED BY <4>4, <4>5
      <3> QED BY <3>1, <3>2
    <2> QED BY <2>5, <2>6, <2>7 DEF SellerListExact, PaymentExists
  <1>8. DepositRecorded'
    <2>1. \A id \in DOMAIN payments' : payments'[id].status = "Deposited" =>
             id \in DOMAIN payments /\ payments'[id] = payments[id]
      BY <1>2, <1>3
    <2> QED BY <1>4, <2>1 DEF PaymentsInv, RegisterInv, DepositRecorded
  <1>9. HistoryNotWaiting'
    BY <1>2, <1>3, <1>4 DEF PaymentsInv, RegisterInv, HistoryNotWaiting, PaymentExists
  <1>10. LockIsLastDeposit'
    BY <1>3, <1>4, LocksKept DEF PaymentsInv
  <1> QED BY <1>5, <1>6, <1>7, <1>8, <1>9, <1>10 DEF PaymentsInv, RegisterInv

\* A deposit is recorded in its payer's history as it is locked.
LEMMA DepositKeeps ==
  ASSUME PaymentsInv, NEW a \in Accounts, NEW id \in PaymentIds,
         DepositPayment(a, id)
  PROVE  PaymentsInv'
  <1> DEFINE paid == AfterFee(a)
             amount == payments[id].amount
             n == Len(payHistory[a])
  <1>1. RegisterTypeOK /\ Sound(free, locks)
    BY DEF PaymentsInv, RegisterInv
  <1>2. /\ CanPayFee(a) /\ id \in DOMAIN payments /\ paid[a] >= amount
        /\ free' = paid /\ locks' = SetLock(a, "lockerid", amount)
        /\ payments' = [payments EXCEPT ![id].status = "Deposited", ![id].payer = a]
        /\ payHistory' = [payHistory EXCEPT ![a] = Append(@, id)]
        /\ paymentsCounter' = paymentsCounter /\ paymentsOwned' = paymentsOwned
    BY DEF DepositPayment, TakenBy, PaymentExists
  <1>3. amount \in Balance
    BY <1>1, <1>2, BalancesAssumption DEF RegisterTypeOK, Payment, Balance
  <1>4. /\ DOMAIN payments' = DOMAIN payments
        /\ payments' \in [1 .. paymentsCounter -> Payment]
        /\ payments'[id].status = "Deposited" /\ payments'[id].payer = a
        /\ \A i \in DOMAIN payments :
              /\ payments'[i].amount = payments[i].amount
              /\ payments'[i].payee = payments[i].payee
              /\ i # id => payments'[i] = payments[i]
    BY <1>1, <1>2 DEF RegisterTypeOK, Payment, PaymentStatus
  <1>5. /\ n \in Nat /\ DOMAIN payHistory[a] = 1 .. n
        /\ DOMAIN payHistory'[a] = 1 .. n + 1
        /\ payHistory'[a][n + 1] = id
        /\ \A i \in DOMAIN payHistory[a] : payHistory'[a][i] = payHistory[a][i]
        /\ \A b \in Accounts \ {a} : payHistory'[b] = payHistory[b]
        /\ payHistory' \in [Accounts -> Seq(PaymentIds)]
    BY <1>1, <1>2 DEF RegisterTypeOK
  <1> HIDE DEF n, amount
  <1>6. Sound(free', locks')
    <2>1. Sound(paid, locks) BY <1>1, <1>2, FeeSound
    <2> QED BY <1>2, <1>3, <2>1, SetLockSound DEF LockIds
  <1>7. RegisterTypeOK'
    BY <1>1, <1>2, <1>4, <1>5 DEF RegisterTypeOK
  <1>8. SellerListExact'
    <2>1. paymentsOwned' = paymentsOwned /\ SellerListExact
      BY <1>2 DEF PaymentsInv, RegisterInv
    <2> QED BY <1>4, <2>1 DEF SellerListExact, PaymentExists
  <1>9. DepositRecorded'
    <2> SUFFICES ASSUME NEW i \in DOMAIN payments, payments'[i].status = "Deposited"
                 PROVE  /\ payments'[i].payer \in Accounts
                        /\ \E j \in DOMAIN payHistory'[payments'[i].payer] :
                              payHistory'[payments'[i].payer][j] = i
      BY <1>4 DEF DepositRecorded
    <2>1. CASE i = id
      <3>1. n + 1 \in DOMAIN payHistory'[a] /\ payHistory'[a][n + 1] = id
        BY <1>5
      <3> QED BY <1>4, <2>1, <3>1
    <2>2. CASE i # id
      <3>1. payments'[i] = payments[i] BY <1>4, <2>2
      <3>2. /\ payments[i].payer \in Accounts
            /\ \E j \in DOMAIN payHistory[payments[i].payer] :
                  payHistory[payments[i].payer][j] = i
        BY <3>1 DEF PaymentsInv, RegisterInv, DepositRecorded
      <3>3. CASE payments[i].payer = a
        <4>1. PICK j \in 1 .. n : payHistory[a][j] = i
          BY <1>5, <3>2, <3>3
        <4>2. j \in DOMAIN payHistory'[a] /\ payHistory'[a][j] = i
          BY <1>5, <4>1
        <4> QED BY <3>1, <3>3, <4>2
      <3>4. CASE payments[i].payer # a
        BY <1>5, <3>1, <3>2, <3>4
      <3> QED BY <3>3, <3>4
    <2> QED BY <2>1, <2>2
  <1>10. \A b \in Accounts : \A i \in DOMAIN payHistory[b] :
            payHistory[b][i] \in DOMAIN payments
    BY DEF PaymentsInv, RegisterInv, HistoryNotWaiting, PaymentExists
  <1>11. HistoryNotWaiting'
    <2> SUFFICES ASSUME NEW b \in Accounts, NEW i \in DOMAIN payHistory'[b]
                 PROVE  /\ payHistory'[b][i] \in DOMAIN payments'
                        /\ payments'[payHistory'[b][i]].status # "WaitingForDeposit"
      BY DEF HistoryNotWaiting, PaymentExists
    <2>1. \/ payHistory'[b][i] = id
          \/ i \in DOMAIN payHistory[b] /\ payHistory'[b][i] = payHistory[b][i]
      <3>1. CASE b = a
        <4>1. i = n + 1 \/ i \in DOMAIN payHistory[a] BY <1>5, <3>1
        <4> QED BY <1>5, <3>1, <4>1
      <3>2. CASE b # a BY <1>5, <3>2
      <3> QED BY <3>1, <3>2
    <2>2. CASE payHistory'[b][i] = id
      BY <1>2, <1>4, <2>2
    <2>3. CASE i \in DOMAIN payHistory[b] /\ payHistory'[b][i] = payHistory[b][i]
      <3>1. payments[payHistory[b][i]].status # "WaitingForDeposit"
        BY <2>3 DEF PaymentsInv, RegisterInv, HistoryNotWaiting
      <3> QED BY <1>4, <1>10, <2>3, <3>1
    <2> QED BY <2>1, <2>2, <2>3
  <1>12. LockIsLastDeposit'
    <2> SUFFICES ASSUME NEW b \in Accounts, locks'[b]["lockerid"] > 0
                 PROVE  \E i \in DOMAIN payHistory'[b] :
                           /\ LastDeposit(b, i)'
                           /\ locks'[b]["lockerid"] = payments'[payHistory'[b][i]].amount
      BY DEF LockIsLastDeposit
    <2>1. CASE b = a /\ amount # 0
      <3>1. amount > 0 BY <1>3, <2>1, BalancesAssumption DEF Balance
      <3>2. locks'[a]["lockerid"] = amount
        BY <1>1, <1>2, <2>1 DEF SetLock, Sound, LockIds
      <3>3. PICK k \in DOMAIN payHistory'[a] :
               payHistory'[a][k] = id /\ \A j \in DOMAIN payHistory'[a] : ~ (j > k)
        BY <1>5
      <3>4. payments'[payHistory'[a][k]].amount = amount
        BY <1>2, <1>4, <3>3 DEF amount
      <3>5. LastDeposit(a, k)'
        BY <3>1, <3>3, <3>4 DEF LastDeposit
      <3> QED BY <2>1, <3>2, <3>4, <3>5
    <2>2. CASE b # a \/ amount = 0
      <3>1. locks'[b]["lockerid"] = locks[b]["lockerid"]
        BY <1>1, <1>2, <2>2 DEF SetLock, Sound, LockIds
      <3>2. PICK i \in DOMAIN payHistory[b] :
               /\ LastDeposit(b, i)
               /\ locks[b]["lockerid"] = payments[payHistory[b][i]].amount
        BY <3>1 DEF PaymentsInv, LockIsLastDeposit
      <3>3. \A j \in DOMAIN payHistory[b] :
               /\ j \in DOMAIN payHistory'[b]
               /\ payHistory'[b][j] = payHistory[b][j]
               /\ payments'[payHistory'[b][j]].amount = payments[payHistory[b][j]].amount
        <4>1. \A j \in DOMAIN payHistory[b] :
                 j \in DOMAIN payHistory'[b] /\ payHistory'[b][j] = payHistory[b][j]
          BY <1>5, SMTT(30)
        <4> QED BY <1>4, <1>10, <4>1
      <3>4. \A j \in DOMAIN payHistory'[b] :
               j \in DOMAIN payHistory[b] \/ payments'[payHistory'[b][j]].amount = 0
        <4>1. CASE b = a
          <5>1. amount = 0 BY <2>2, <4>1
          <5> QED BY <1>2, <1>4, <1>5, <4>1, <5>1 DEF amount
        <4>2. CASE b # a BY <1>5, <4>2
        <4> QED BY <4>1, <4>2
      <3>5. LastDeposit(b, i)'
        BY <3>2, <3>3, <3>4 DEF LastDeposit
      <3> QED BY <3>1, <3>2, <3>3, <3>5
    <2> QED BY <2>1, <2>2
  <1> QED BY <1>6, <1>7, <1>8, <1>9, <1>11, <1>12 DEF PaymentsInv, RegisterInv

\* Whether or not the transfer goes through, the accounts stay sound and the
\* payment is either settled or as it was.
LEMMA CompleteKeeps ==
  ASSUME PaymentsInv, NEW a \in Accounts, NEW id \in PaymentIds,
         CompletePayment(a, id)
  PROVE  PaymentsInv'
  <1> DEFINE paid == AfterFee(a)
             unlocked == RemoveLock(a, "lockerid")
             payee == payments[id].payee
             amount == payments[id].amount
  <1>1. RegisterTypeOK /\ Sound(free, locks) /\ RegisterInv /\ LockIsLastDeposit
    BY DEF PaymentsInv, RegisterInv
  <1>2. CanPayFee(a) /\ id \in DOMAIN payments /\ locks' = unlocked
    BY DEF CompletePayment, PaymentExists
  <1>3. payee \in Accounts /\ amount \in Balance
    BY <1>1, <1>2, BalancesAssumption DEF RegisterTypeOK, Payment, Balance
  <1>4. Sound(paid, unlocked)
    <2>1. Sound(paid, locks) BY <1>1, <1>2, FeeSound
    <2> QED BY <2>1, RemoveLockSound DEF LockIds
  <1>5. \A b \in Accounts : \/ locks'[b]["lockerid"] = 0
                            \/ locks'[b]["lockerid"] = locks[b]["lockerid"]
    BY <1>1, <1>2 DEF RemoveLock, Sound, LockIds
  <1>6. CASE /\ CanTransfer(paid, unlocked, a, payee, amount)
             /\ free' = Moved(paid, a, payee, amount)
             /\ payments' = SetStatus(id, "Completed")
    <2>1. Sound(free', locks') BY <1>2, <1>3, <1>4, <1>6, MovedSound
    <2>2. SettlesOne(id, "Completed") BY <1>6 DEF SettlesOne, CompletePayment
    <2>3. RegisterInv' BY <1>1, <1>2, <2>2, RegisterKept DEF SettledStatus
    <2>4. LockIsLastDeposit'
      <3>1. \A i \in DOMAIN payments : payments'[i].amount = payments[i].amount
        BY <1>1, <1>2, <2>2, SettledPayments DEF SettledStatus
      <3> QED BY <1>1, <1>5, <2>2, <3>1, LocksKept DEF SettlesOne
    <2> QED BY <2>1, <2>3, <2>4 DEF PaymentsInv
  <1>7. CASE free' = paid /\ payments' = payments
    <2>1. Sound(free', locks') BY <1>2, <1>4, <1>7
    <2>2. /\ paymentsCounter' = paymentsCounter /\ paymentsOwned' = paymentsOwned
          /\ payHistory' = payHistory
      BY DEF CompletePayment
    <2>3. RegisterInv'
      BY <1>1, <1>7, <2>2 DEF RegisterInv, RegisterTypeOK, SellerListExact,
         DepositRecorded, HistoryNotWaiting, PaymentExists
    <2>4. LockIsLastDeposit' BY <1>1, <1>5, <1>7, <2>2, LocksKept
    <2> QED BY <2>1, <2>3, <2>4 DEF PaymentsInv
  <1> QED BY <1>6, <1>7 DEF CompletePayment

\* A cancellation releases at most the lock of the payment's payer.
LEMMA CancelKeeps ==
  ASSUME PaymentsInv, NEW a \in Accounts, NEW id \in PaymentIds,
         CancelPayment(a, id)
  PROVE  PaymentsInv'
  <1> DEFINE payer == payments[id].payer
  <1>1. RegisterTypeOK /\ Sound(free, locks) /\ RegisterInv /\ LockIsLastDeposit
    BY DEF PaymentsInv, RegisterInv
  <1>2. /\ CanPayFee(a) /\ id \in DOMAIN payments /\ free' = AfterFee(a)
        /\ \/ locks' = locks
           \/ payer # NoAccount /\ locks' = RemoveLock(payer, "lockerid")
        /\ SettlesOne(id, "Cancelled")
    BY DEF CancelPayment, PaymentExists, SettlesOne
  <1>3. payer \in Accounts \cup {NoAccount}
    BY <1>1, <1>2 DEF RegisterTypeOK, Payment
  <1>4. Sound(AfterFee(a), locks) BY <1>1, <1>2, FeeSound
  <1>5. Sound(free', locks')
    BY <1>2, <1>3, <1>4, RemoveLockSound DEF LockIds
  <1>6. RegisterInv' BY <1>1, <1>2, RegisterKept DEF SettledStatus
  <1>7. LockIsLastDeposit'
    <2>1. \A i \in DOMAIN payments : payments'[i].amount = payments[i].amount
      BY <1>1, <1>2, SettledPayments DEF SettledStatus
    <2>2. \A b \in Accounts : \/ locks'[b]["lockerid"] = 0
                              \/ locks'[b]["lockerid"] = locks[b]["lockerid"]
      BY <1>1, <1>2, <1>3 DEF RemoveLock, Sound, LockIds
    <2> QED BY <1>1, <1>2, <2>1, <2>2, LocksKept DEF SettlesOne
  <1> QED BY <1>5, <1>6, <1>7 DEF PaymentsInv

\* Every payment call carries the invariant over.
LEMMA PaymentCallsKeep ==
  ASSUME PaymentsInv, PaymentCalls
  PROVE  PaymentsInv'
  BY CreateKeeps, DepositKeeps, CompleteKeeps, CancelKeeps DEF PaymentCalls

\* So does everything that leaves the register and the deposit locks alone.
LEMMA RegisterUnchangedKeeps ==
  ASSUME PaymentsInv, UNCHANGED registerVars, Sound(free', locks'),
         \A b \in Accounts : locks'[b]["lockerid"] = locks[b]["lockerid"]
  PROVE  PaymentsInv'
  <1>1. /\ payments' = payments /\ paymentsCounter' = paymentsCounter
        /\ paymentsOwned' = paymentsOwned /\ payHistory' = payHistory
    BY DEF registerVars
  <1>2. RegisterInv'
    BY <1>1 DEF PaymentsInv, RegisterInv, RegisterTypeOK, SellerListExact,
       DepositRecorded, HistoryNotWaiting, PaymentExists
  <1>3. LockIsLastDeposit' BY <1>1, LocksKept DEF PaymentsInv
  <1> QED BY <1>2, <1>3 DEF PaymentsInv

\* A fee, a wallet transfer and a faucet call leave every lock as it was.
LEMMA BalancesNextLocks == BalancesNext => locks' = locks
  BY DEF BalancesNext, DispatchError, Faucet, WalletTransfer

\* The empty register satisfies the invariant.
LEMMA PaymentsInitInv == PaymentsInit => PaymentsInv
  <1> SUFFICES ASSUME PaymentsInit PROVE PaymentsInv
    OBVIOUS
  <1>1. Sound(free, locks) BY InitSound DEF PaymentsInit
  <1>2. RegisterTypeOK
    <2>3. <<>> \in Seq(PaymentIds)
      OBVIOUS
    <2>2. paymentsCounter = 0 /\ payments = [id \in {} |-> <<>>] /\ 1 .. 0 = {}
      BY DEF PaymentsInit
    <2>4. /\ paymentsOwned \in [Accounts -> Seq(PaymentIds)]
          /\ payHistory \in [Accounts -> Seq(PaymentIds)]
      BY <2>3 DEF PaymentsInit
    <2> QED BY <2>2, <2>4, PaymentsAssumption DEF RegisterTypeOK
  <1>3. RegisterInv
    BY <1>2 DEF PaymentsInit, RegisterInv, SellerListExact, DepositRecorded,
       HistoryNotWaiting
  <1>4. LockIsLastDeposit
    BY DEF PaymentsInit, BalancesInit, LockIsLastDeposit, LockIds
  <1> QED BY <1>1, <1>3, <1>4 DEF PaymentsInv

\* Every step of the protocol carries the invariant over.
LEMMA PaymentsNextKeeps ==
  PaymentsInv /\ [PaymentsNext]_paymentVars => PaymentsInv'
  <1> SUFFICES ASSUME PaymentsInv, [PaymentsNext]_paymentVars
               PROVE  PaymentsInv'
    OBVIOUS
  <1>1. CASE PaymentCalls BY <1>1, PaymentCallsKeep
  <1>2. CASE BalancesNext /\ UNCHANGED registerVars
    <2>1. Sound(free', locks') BY <1>2, BalancesNextSound DEF PaymentsInv
    <2> QED BY <1>2, <2>1, BalancesNextLocks, RegisterUnchangedKeeps
  <1>3. CASE UNCHANGED paymentVars
    <2>1. free' = free /\ locks' = locks /\ UNCHANGED registerVars
      BY <1>3 DEF paymentVars, balanceVars
    <2> QED BY <2>1, RegisterUnchangedKeeps DEF PaymentsInv
  <1> QED BY <1>1, <1>2, <1>3 DEF PaymentsNext

LEMMA PaymentsKept == PaymentsSpec => []PaymentsInv
  <1> QED BY PaymentsInitInv, PaymentsNextKeeps, PTL DEF PaymentsSpec

\* For every number of accounts, amounts, fee and bound, what the pallet
\* stores about payments and accounts has the types its storage declares.
THEOREM PaymentsTyped == PaymentsSpec => []PaymentsTypeOK
  <1>1. PaymentsInv => PaymentsTypeOK BY PaymentsInvParts
  <1> QED BY <1>1, PaymentsKept, PTL

\* The call that settles a payment checks neither its status nor the payer's
\* other deposits, and yet no account is left with dust or with a lock that
\* its balance does not cover (lib.rs:301-322).
THEOREM PaymentsSolvent == PaymentsSpec => [](NoDust /\ LocksBacked)
  <1>1. PaymentsInv => NoDust /\ LocksBacked BY PaymentsInvParts
  <1> QED BY <1>1, PaymentsKept, PTL

\* Sellers' lists name each payment once, under its payee, and every payer
\* has the payment in its history, however often it is deposited again
\* (lib.rs:233-292).
THEOREM PaymentsRecorded == PaymentsSpec => []PaymentRecords
  <1>1. PaymentsInv => PaymentRecords BY PaymentsInvParts DEF PaymentRecords
  <1> QED BY <1>1, PaymentsKept, PTL

\* Deposits of one account share one lock: it is that of the last positive
\* deposit, or none (lib.rs:269-292).
THEOREM LockOfLastDeposit == PaymentsSpec => []LockIsLastDeposit
  <1>1. PaymentsInv => LockIsLastDeposit BY PaymentsInvParts
  <1> QED BY <1>1, PaymentsKept, PTL

-----------------------------------------------------------------------------
(* What a step may do to a payment.                                        *)

\* A new payment leaves the stored ones as they were.
LEMMA CreateSteps ==
  ASSUME PaymentsInv, NEW a \in Accounts, NEW amount \in Amounts,
         NEW payer \in Accounts \cup {NoAccount}, CreatePayment(a, amount, payer)
  PROVE  TermsStep /\ PayerStep /\ CompletionStep
  <1>1. /\ DOMAIN payments = 1 .. paymentsCounter /\ paymentsCounter \in Nat
        /\ DOMAIN payments' = 1 .. paymentsCounter + 1
        /\ \A id \in DOMAIN payments' :
              id # paymentsCounter + 1 => payments'[id] = payments[id]
    BY DEF PaymentsInv, RegisterInv, RegisterTypeOK, CreatePayment
  <1>2. \A id \in DOMAIN payments :
           id \in DOMAIN payments' /\ payments'[id] = payments[id]
    BY <1>1
  <1> QED BY <1>2 DEF TermsStep, PayerStep, CompletionStep

\* A deposit keeps the terms and enters the new payer's history.
LEMMA DepositSteps ==
  ASSUME PaymentsInv, NEW a \in Accounts, NEW id \in PaymentIds,
         DepositPayment(a, id)
  PROVE  TermsStep /\ PayerStep /\ CompletionStep
  <1>1. RegisterTypeOK BY DEF PaymentsInv, RegisterInv
  <1>2. /\ id \in DOMAIN payments
        /\ payments' = [payments EXCEPT ![id].status = "Deposited", ![id].payer = a]
        /\ payHistory' = [payHistory EXCEPT ![a] = Append(@, id)]
    BY DEF DepositPayment, TakenBy, PaymentExists
  <1>3. /\ DOMAIN payments' = DOMAIN payments
        /\ payments'[id].status = "Deposited" /\ payments'[id].payer = a
        /\ \A i \in DOMAIN payments :
              /\ payments'[i].amount = payments[i].amount
              /\ payments'[i].payee = payments[i].payee
              /\ i # id => payments'[i] = payments[i]
    BY <1>1, <1>2 DEF RegisterTypeOK, Payment, PaymentStatus
  <1>4. Len(payHistory'[a]) > Len(payHistory[a])
    BY <1>1, <1>2 DEF RegisterTypeOK
  <1>5. TermsStep
    BY <1>3 DEF TermsStep
  <1>6. PayerStep
    BY <1>3, <1>4 DEF PayerStep
  <1>7. CompletionStep
    BY <1>3 DEF CompletionStep
  <1> QED BY <1>5, <1>6, <1>7

\* A completion that succeeds pays; one that fails leaves the payment alone.
LEMMA CompleteSteps ==
  ASSUME PaymentsInv, NEW a \in Accounts, NEW id \in PaymentIds,
         CompletePayment(a, id)
  PROVE  TermsStep /\ PayerStep /\ CompletionStep
  <1>1. RegisterTypeOK /\ Sound(free, locks) BY DEF PaymentsInv, RegisterInv
  <1>2. id \in DOMAIN payments /\ payments[id].payer \in {a, NoAccount}
        /\ locks' = RemoveLock(a, "lockerid")
    BY DEF CompletePayment, PaymentExists, MayComplete
  <1>3. CASE /\ free' = Moved(AfterFee(a), a, payments[id].payee, payments[id].amount)
             /\ payments' = SetStatus(id, "Completed")
    <2>1. SettlesOne(id, "Completed") BY <1>3 DEF SettlesOne, CompletePayment
    <2>2. /\ DOMAIN payments' = DOMAIN payments
          /\ payments'[id].status = "Completed"
          /\ \A i \in DOMAIN payments :
                /\ payments'[i].amount = payments[i].amount
                /\ payments'[i].payee = payments[i].payee
                /\ payments'[i].payer = payments[i].payer
                /\ i # id => payments'[i] = payments[i]
      BY <1>1, <1>2, <2>1, SettledPayments DEF SettledStatus
    <2>3. free'[a] >= 0
      BY CompleteKeeps DEF PaymentsInv, Sound, Balance
    <2>4. locks'[a]["lockerid"] = 0
      BY <1>1, <1>2 DEF RemoveLock, Sound, LockIds
    <2>5. TermsStep /\ PayerStep BY <2>2 DEF TermsStep, PayerStep
    <2>6. CompletionStep
      BY <1>2, <1>3, <2>2, <2>3, <2>4 DEF CompletionStep
    <2> QED BY <2>5, <2>6
  <1>4. CASE payments' = payments
    BY <1>4 DEF TermsStep, PayerStep, CompletionStep
  <1> QED BY <1>3, <1>4 DEF CompletePayment

\* A cancellation changes a status.
LEMMA CancelSteps ==
  ASSUME PaymentsInv, NEW a \in Accounts, NEW id \in PaymentIds,
         CancelPayment(a, id)
  PROVE  TermsStep /\ PayerStep /\ CompletionStep
  <1>1. RegisterTypeOK /\ id \in DOMAIN payments /\ SettlesOne(id, "Cancelled")
    BY DEF PaymentsInv, RegisterInv, CancelPayment, PaymentExists, SettlesOne
  <1>2. /\ DOMAIN payments' = DOMAIN payments
        /\ payments'[id].status = "Cancelled"
        /\ \A i \in DOMAIN payments :
              /\ payments'[i].amount = payments[i].amount
              /\ payments'[i].payee = payments[i].payee
              /\ payments'[i].payer = payments[i].payer
              /\ i # id => payments'[i] = payments[i]
    BY <1>1, SettledPayments DEF SettledStatus
  <1> QED BY <1>2 DEF TermsStep, PayerStep, CompletionStep

LEMMA PaymentsSteps == PaymentsSpec => RecordsKept /\ CompletionPays
  <1>1. PaymentsInv /\ [PaymentsNext]_paymentVars =>
           /\ [TermsStep /\ PayerStep]_paymentVars
           /\ [CompletionStep]_paymentVars
    <2> SUFFICES ASSUME PaymentsInv, PaymentsNext
                 PROVE  TermsStep /\ PayerStep /\ CompletionStep
      OBVIOUS
    <2>1. CASE PaymentCalls
      BY <2>1, CreateSteps, DepositSteps, CompleteSteps, CancelSteps DEF PaymentCalls
    <2>2. CASE BalancesNext /\ UNCHANGED registerVars
      <3>1. payments' = payments BY <2>2 DEF registerVars
      <3> QED BY <3>1 DEF TermsStep, PayerStep, CompletionStep
    <2> QED BY <2>1, <2>2 DEF PaymentsNext
  <1> QED BY <1>1, PaymentsInitInv, PaymentsNextKeeps, PTL
          DEF PaymentsSpec, RecordsKept, CompletionPays

\* No step edits the terms of a payment, offers it twice, or changes its payer
\* without a deposit of the new one (lib.rs:233-292).
THEOREM PaymentsKeepTerms == PaymentsSpec => RecordsKept
  <1> QED BY PaymentsSteps

\* A payment becomes Completed in the step that brings its whole amount from
\* the caller to the payee and takes the caller's lock off (lib.rs:301-322).
THEOREM PaymentsPay == PaymentsSpec => CompletionPays
  <1> QED BY PaymentsSteps

-----------------------------------------------------------------------------
(* The supply.                                                             *)

\* A call burns its fee and, when it completes a payment, moves its amount.
LEMMA PaymentCallsSupply ==
  ASSUME PaymentsInv, PaymentCalls
  PROVE  SupplyStep
  <1>1. RegisterTypeOK /\ Sound(free, locks) BY DEF PaymentsInv, RegisterInv
  <1>2. ASSUME NEW a \in Accounts, NEW amount \in Amounts,
               NEW payer \in Accounts \cup {NoAccount}, CreatePayment(a, amount, payer)
        PROVE  SupplyStep
    BY <1>1, <1>2, CallSupply DEF CreatePayment
  <1>3. ASSUME NEW a \in Accounts, NEW id \in PaymentIds,
               DepositPayment(a, id) \/ CancelPayment(a, id)
        PROVE  SupplyStep
    <2>1. free' = AfterFee(a) BY <1>3 DEF DepositPayment, CancelPayment
    <2> QED BY <1>1, <2>1, CallSupply
  <1>4. ASSUME NEW a \in Accounts, NEW id \in PaymentIds, CompletePayment(a, id)
        PROVE  SupplyStep
    <2>1. \/ free' = AfterFee(a)
          \/ free' = Moved(AfterFee(a), a, payments[id].payee, payments[id].amount)
      BY <1>4 DEF CompletePayment
    <2>2. payments[id].payee \in Accounts /\ payments[id].amount \in Balance
      BY <1>1, <1>4, BalancesAssumption
      DEF CompletePayment, PaymentExists, RegisterTypeOK, Payment, Balance
    <2> QED BY <1>1, <2>1, <2>2, CallSupply
  <1> QED BY <1>2, <1>3, <1>4 DEF PaymentCalls

\* Tokens come from the faucet alone and go as fees and as the dust of a reaped
\* sender alone: no order of deposits, failed completions and cancellations
\* mints or loses an amount (lib.rs:233-347).
THEOREM PaymentsKeepSupply == PaymentsSpec => SupplyAccounted
  <1>1. PaymentsInv /\ [PaymentsNext]_paymentVars => [SupplyStep]_balanceVars
    <2> SUFFICES ASSUME PaymentsInv, [PaymentsNext]_paymentVars
                 PROVE  [SupplyStep]_balanceVars
      OBVIOUS
    <2>1. CASE PaymentCalls BY <2>1, PaymentCallsSupply
    <2>2. CASE BalancesNext BY <2>2, BalancesNextSupply DEF PaymentsInv
    <2>3. CASE UNCHANGED paymentVars BY <2>3 DEF paymentVars
    <2> QED BY <2>1, <2>2, <2>3 DEF PaymentsNext
  <1> QED BY <1>1, PaymentsInitInv, PaymentsNextKeeps, PTL
          DEF PaymentsSpec, SupplyAccounted
=============================================================================
