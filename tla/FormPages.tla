----------------------------- MODULE FormPages -----------------------------
(* The forms on their pages, over the chain: which of them a page offers   *)
(* for the payment and the dispute it shows, the account it signs with,    *)
(* and what the chain does with a transaction (the calls of the pallet,    *)
(* abstracted to what a page can see: P2pPayment.tla has them in full).    *)
(*                                                                         *)
(* The node announces a change of storage when the block is imported,      *)
(* before the block is final; the socket keeps that order (notices). The   *)
(* page of one payment selects the payer of the payment it receives and    *)
(* looks up the pair to sign with; the other pages sign with the pair of   *)
(* the account selected in the bar, which every render looks up.           *)
EXTENDS Forms

CONSTANTS
    Keyring,        \* accounts whose pair the keyring has
    FirstAccount,   \* keyring.getPairs()[0]
    NoAccount,      \* no payer
    Payee,          \* the seller of the payment
    Resolver,       \* the resolver drawn for its dispute
    NoRecord,       \* nothing received yet
    Views           \* what a behaviour follows: the forms of a page, how the
                    \* chain starts, so many images, presses, steps of the
                    \* user and calls of other users

ASSUME FormPagesAssumption ==
    /\ Keyring \subseteq Accounts /\ FirstAccount \in Keyring
    /\ Payee \in Accounts /\ Resolver \in Accounts
    /\ NoAccount \notin Accounts
    /\ \A v \in Views : v.forms \subseteq Forms /\ v.images \in Nat /\ v.presses \in Nat
                       /\ v.moves \in Nat /\ v.foreign \in Nat
                       /\ v.payer \in Accounts \cup {NoAccount}

VARIABLES
    view,           \* the view followed
    moves,          \* steps of the user so far
    chain,          \* the payment and its dispute as stored
    shown,          \* payment, dispute: component state of the page
    notices,        \* values and final blocks the page will be told of
    account,        \* selectedAccount of the page, or of App
    pair,           \* accountPair, the pair it signs with
    effects,        \* how often a form's transactions took effect
    foreign         \* calls of other users so far

pageVars == <<shown, account, pair>>
vars == <<formVars, view, moves, chain, pageVars, notices, effects, foreign>>

Move == moves < view.moves /\ moves' = moves + 1

PaymentPageForms == {"depositPayment", "completePayment", "disputePayment"}
OnPaymentPage == view.forms \cap PaymentPageForms # {}

(* Which forms a page offers for what it shows: the table of the owner's   *)
(* payments, the page of one payment, the detail of a dispute.             *)
Offered(f) ==
    CASE f = "cancelPayment" -> shown # NoRecord /\ shown.status \notin {"Completed", "Cancelled"}
      [] f = "disputeOwned" -> shown # NoRecord /\ shown.status = "Deposited"
      [] f = "depositPayment" -> shown # NoRecord /\ shown.status = "WaitingForDeposit"
      [] f \in {"completePayment", "disputePayment"} -> shown # NoRecord /\ shown.status = "Deposited"
      [] f = "submitProof" -> /\ shown # NoRecord /\ shown.dispute = "Processing"
                              /\ account \in {shown.payer, Payee, Resolver}
      [] f = "solveDispute" -> /\ shown # NoRecord /\ shown.dispute = "Processing"
                               /\ account = Resolver
      [] OTHER -> TRUE

Init ==
    /\ FormsInit
    /\ view \in Views
    /\ moves = 0
    /\ chain = [status |-> view.status, payer |-> view.payer, dispute |-> view.dispute]
    /\ shown = NoRecord
    /\ notices = <<[kind |-> "storage", value |-> chain]>>
    /\ account \in IF OnPaymentPage THEN {FirstAccount} ELSE Keyring
    /\ pair = account
    /\ effects = [f \in Forms |-> 0]
    /\ foreign = 0

\* Slip: the pair is looked up once, when the page is mounted.
PairOfMount(a) == pair

\* Slip: the address is used without a look into the keyring.
PairOfAny(a) == a

(* The effect of accountPair: an account that is not in the keyring leaves *)
(* the pair as it was.                                                     *)
PairOf(a) == IF a \in Keyring THEN a ELSE pair

(* "Pay with": a menu of the keyring's accounts, disabled with a payer; or *)
(* the selector in the bar, which a dialog covers. Each detail of a dispute*)
(* is a dialog itself.                                                     *)
Select(a) ==
    /\ ~Covered /\ a \in Keyring \ {account}
    /\ IF OnPaymentPage THEN shown # NoRecord /\ shown.payer = NoAccount
       ELSE "submitProof" \notin view.forms
    /\ account' = a
    /\ pair' = PairOf(a)
    /\ Move
    /\ UNCHANGED <<formVars, view, chain, shown, notices, effects, foreign>>

(* The payment arrives: its payer, if any, becomes the account selected.   *)
ShowStorage(value) ==
    /\ shown' = value
    /\ account' = IF OnPaymentPage /\ value.payer # NoAccount THEN value.payer ELSE account
    /\ pair' = IF OnPaymentPage THEN PairOf(account') ELSE pair

Deliver ==
    LET n == Head(notices)
    IN  /\ notices # <<>>
        /\ notices' = Tail(notices)
        /\ \/ n.kind = "storage" /\ ShowStorage(n.value) /\ UNCHANGED formVars
           \/ n.kind = "final" /\ Finalize(n.value) /\ UNCHANGED pageVars
        /\ UNCHANGED <<view, moves, chain, effects, foreign>>

(* What the call of form f, signed by a, makes of the record. The balance, *)
(* the fee and the draw of a resolver may make any call fail.              *)
Accepts(f, a) ==
    CASE f = "cancelPayment" -> a = Payee
      [] f = "completePayment" -> a = chain.payer
      [] f \in {"disputePayment", "disputeOwned"} -> chain.payer # NoAccount /\ a \in {chain.payer, Payee}
      [] f = "solveDispute" -> a = Resolver
      [] OTHER -> TRUE

Changed(f, a) ==
    CASE f = "cancelPayment" -> [chain EXCEPT !.status = "Cancelled"]
      [] f = "depositPayment" -> [chain EXCEPT !.status = "Deposited", !.payer = a]
      [] f = "completePayment" -> [chain EXCEPT !.status = "Completed"]
      [] f \in {"disputePayment", "disputeOwned"} ->
           [chain EXCEPT !.status = "Disputed", !.dispute = "Processing"]
      [] f = "solveDispute" -> [chain EXCEPT !.dispute = "Resolved"]
      [] OTHER -> chain

Announce(value) == [kind |-> "storage", value |-> value]

InBlock(t) ==
    LET f == txs[t].form
    IN  /\ Include(t)
        /\ \/ /\ Accepts(f, txs[t].from)
              /\ chain' = Changed(f, txs[t].from)
              /\ effects' = [effects EXCEPT ![f] = @ + 1]
              /\ notices' = IF chain' = chain THEN notices ELSE Append(notices, Announce(chain'))
           \/ UNCHANGED <<chain, effects, notices>>
        /\ UNCHANGED <<view, moves, pageVars, foreign>>

(* The block is final.                                                     *)
Final(t) ==
    /\ InPhase(t, "included")
    /\ \A i \in DOMAIN notices : notices[i] # [kind |-> "final", value |-> t]
    /\ notices' = Append(notices, [kind |-> "final", value |-> t])
    /\ UNCHANGED <<formVars, view, moves, chain, pageVars, effects, foreign>>

(* Another user, on a page of its own, does what that page offers.         *)
Foreign(f, a) ==
    /\ foreign < view.foreign /\ Accepts(f, a)
    /\ \/ f = "depositPayment" /\ chain.status = "WaitingForDeposit"
       \/ f \in {"completePayment", "disputePayment"} /\ chain.status = "Deposited"
       \/ f = "cancelPayment" /\ chain.status \notin {"Completed", "Cancelled"}
       \/ f = "solveDispute" /\ chain.dispute = "Processing"
    /\ chain' = Changed(f, a)
    /\ notices' = Append(notices, Announce(chain'))
    /\ foreign' = foreign + 1
    /\ UNCHANGED <<formVars, view, moves, pageVars, effects>>

Elsewhere == UNCHANGED <<view, chain, pageVars, notices, effects, foreign>>
Stay == Elsewhere /\ UNCHANGED moves

UserStep ==
    /\ Move
    /\ \E f \in view.forms :
        \/ Offered(f) /\ Open(f) /\ Elsewhere
        \/ Close(f) /\ Elsewhere
        \/ Type(f) /\ Elsewhere
        \/ Len(uploads) < view.images /\ ChooseImage(f) /\ Elsewhere
        \/ /\ Row[f].dialog \/ Offered(f)
           /\ Len(txs) < view.presses
           /\ Press(f, pair, account)
           /\ Elsewhere

UploadStep ==
    \E u \in DOMAIN uploads :
        \/ (\E key \in Keys : ReadImage(u, key)) /\ Stay
        \/ StoreImage(u) /\ Stay
        \/ ImageUploaded(u) /\ Stay

TxStep ==
    \E t \in DOMAIN txs :
        \/ GetFromAcct(t) /\ Stay
        \/ Throw(t) /\ Stay
        \/ Sign(t) /\ Stay
        \/ Refuse(t) /\ Stay
        \/ Drop(t) /\ Stay
        \/ InBlock(t)
        \/ Final(t)

Next ==
    \/ UserStep
    \/ UploadStep
    \/ TxStep
    \/ Deliver
    \/ \E a \in Accounts : Select(a)
    \/ \E f \in Forms, a \in Accounts : Foreign(f, a)

(* The extension answers for its source, a pair of the keyring signs, the  *)
(* network includes, finalizes or drops, the event loop runs. The user of  *)
(* an extension may leave its window open for ever.                        *)
Fairness ==
    /\ \A t \in 1..MaxTxs :
         /\ WF_vars((GetFromAcct(t) \/ Throw(t)) /\ Stay)
         /\ WF_vars(InPhase(t, "signing") /\ ~Injected(t) /\ (Sign(t) \/ Refuse(t)) /\ Stay)
         /\ WF_vars((Drop(t) /\ Stay) \/ InBlock(t))
         /\ WF_vars(Final(t))
    /\ WF_vars(Deliver)

Spec == Init /\ [][Next]_vars /\ Fairness

(***************************************************************************)
(* Properties.                                                             *)
(***************************************************************************)

Phases == {"account", "thrown", "signing", "refused", "sent", "dropped", "included", "finalized"}
Pending == {"account", "signing", "sent", "included"}
Images == Keys \cup {NoUrl, NoImage}

FormPagesTypeOK ==
    /\ \A f \in Forms :
         /\ open[f] \in BOOLEAN /\ busy[f] \in BOOLEAN /\ loading[f] \in BOOLEAN
         /\ mounts[f] \in 0..MaxMounts /\ typed[f] \in 0..MaxTyped
         /\ draft[f] \in [text : 0..MaxTyped, image : Images]
    /\ \A t \in DOMAIN txs : txs[t].phase \in Phases /\ txs[t].from \in Keyring
    /\ store \subseteq Keys
    /\ account \in Accounts /\ pair \in Keyring
    /\ Len(notices) <= 1 + view.foreign + 2 * MaxTxs

(* A form is busy exactly while one transaction its instance started is    *)
(* still to be answered, or for good: when it was dropped, or when it threw*)
(* in a handler whose outer catch does not reset the flag. No instance has *)
(* two transactions on their way, and a payment is never being released and*)
(* disputed at once (PaymentForm.js:44-82, ProcessPayment.js:84-183).      *)
OwnTxs(f, phases) ==
    {t \in DOMAIN txs : txs[t].form = f /\ Alive(f, txs[t].mount) /\ txs[t].phase \in phases}

Stuck(f) ==
    \/ OwnTxs(f, {"dropped"}) # {}
    \/ ~Row[f].resets /\ OwnTxs(f, {"thrown"}) # {}

BusyIsPending ==
    /\ \A f \in view.forms :
         /\ (Row[f].own => open[f]) => (busy[f] <=> OwnTxs(f, Pending) # {} \/ Stuck(f))
         /\ Cardinality(OwnTxs(f, Pending)) <= 1
    /\ ~(busy["completePayment"] /\ busy["disputePayment"])

(* Whatever is pressed, refused, finalized and pressed again, and whatever *)
(* other users do meanwhile, a page deposits at most once, and releases or *)
(* disputes at most once more than it deposited: it learns of the effect   *)
(* before the button is enabled again, while the chain would pay a second  *)
(* time. Its own deposit can land after somebody else's was released, and  *)
(* is then offered for release again                                       *)
(* (ProcessPayment.js:70-72, 95-99, 293-329).                              *)
SettledOnce ==
    /\ effects["depositPayment"] <= 1
    /\ effects["completePayment"] + effects["disputePayment"] <= 1 + effects["depositPayment"]

(* A deposit or a release that takes effect was signed by the account the  *)
(* page showed when the button was pressed, if the keyring has that account*)
(* (ProcessPayment.js:50-64, 276-290). With a payer that is not the user's *)
(* the page signs with another pair than it shows, which the chain refuses *)
(* unless a deposit of that pair overtakes the release.                    *)
SignedAsShown ==
    [][\A f \in {"depositPayment", "completePayment"} : effects'[f] # effects[f] =>
          \E t \in DOMAIN txs : /\ txs[t].form = f /\ txs'[t].phase # txs[t].phase
                                /\ txs[t].shown \in Keyring => txs[t].from = txs[t].shown]_vars

(* The url a form holds is that of an object already stored                *)
(* (ImagesUploader.js:19-37, handler.js:44-67).                            *)
ImagesStored == \A f \in Forms : draft[f].image \in Keys => draft[f].image \in store

(* What was typed last is in the form, unless an upload chosen before it   *)
(* was given to the form, or a transaction of the page cleared it          *)
(* (PaymentForm.js:37-42, DisputeDetail.js:120-125).                       *)
TypingKept ==
    \A f \in view.forms : draft[f].text # typed[f] =>
        \/ \E u \in DOMAIN uploads :
              /\ uploads[u].form = f /\ uploads[u].phase = "given" /\ uploads[u].text # typed[f]
        \/ \E t \in DOMAIN txs : txs[t].phase = "finalized" /\ f \in Row[txs[t].form].clears

(* After a button is pressed its form gets idle again or is closed, unless *)
(* the user leaves the extension's window open or the form is stuck        *)
(* (CancelPaymentConfirmation.js:24-53 and the like).                      *)
AwaitsUser(t) == InPhase(t, "signing") /\ Injected(t)

IdleAgain(t) ==
    /\ t \in DOMAIN txs
    /\ ~busy[txs[t].form] \/ ~Alive(txs[t].form, txs[t].mount) \/ AwaitsUser(t) \/ Stuck(txs[t].form)

PressEnds == \A t \in 1..MaxTxs : InPhase(t, "account") ~> IdleAgain(t)
=============================================================================
