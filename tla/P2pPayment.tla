----------------------------- MODULE P2pPayment -----------------------------
(***************************************************************************)
(* The p2p-payment pallet: the payment protocol and the resolver network   *)
(* over the same accounts, and the disputes that join them.  A dispute     *)
(* draws an active resolver, keeps a copy of it, marks the payment and is  *)
(* indexed for its parties; the resolver settles it by unlocking the       *)
(* payer's deposit and, unless the payer wins, transferring the amount.    *)
(*                                                                         *)
(* A dispute is stored under the hash of its initial content, so that      *)
(* content, without the payment's payee, is its identifier here: the same  *)
(* dispute issued twice is stored under the same hash.                     *)
(***************************************************************************)
EXTENDS Payments, Resolvers

CONSTANTS
    Reasons,     \* what an issuer writes: reason, description and images
    MaxDisputes, \* bound of the model: disputes assigned to a resolver
    MaxProofs    \* bound of the model: proofs of a dispute

ASSUME P2pPaymentAssumption == MaxDisputes \in Nat /\ MaxProofs \in Nat

VARIABLES
    disputes,         \* Disputes: identifier -> dispute
    involvedDisputes, \* InvolvedDisputes: payer or payee -> identifiers
    assignedDisputes  \* AssignedDisputes: resolver -> identifiers

disputeVars == <<disputes, involvedDisputes, assignedDisputes>>
vars == <<balanceVars, registerVars, networkVars, disputeVars>>

DisputeId ==
    [payment : PaymentIds, reason : Reasons, issuer : Accounts,
     payer : Accounts, resolver : Resolver]

Dispute ==   \* proofs: who provided each; nothing sets Escalated
    [proofs : Seq(Accounts), status : {"Processing", "Resolved"}]

TypeOK ==
    /\ PaymentsTypeOK
    /\ ResolversTypeOK
    /\ DOMAIN disputes \subseteq DisputeId
    /\ disputes \in [DOMAIN disputes -> Dispute]
    /\ involvedDisputes \in [Accounts -> Seq(DisputeId)]
    /\ assignedDisputes \in [Accounts -> Seq(DisputeId)]

Init ==
    /\ PaymentsInit
    /\ ResolversInit
    /\ disputes = [d \in {} |-> <<>>]
    /\ involvedDisputes = [a \in Accounts |-> <<>>]
    /\ assignedDisputes = [a \in Accounts |-> <<>>]

Payee(d) == payments[d.payment].payee

SetDispute(d, dispute) ==
    [x \in DOMAIN disputes \cup {d} |-> IF x = d THEN dispute ELSE disputes[x]]

\* Slip: the list is replaced.
FiledAlone(index, a, d) == [index EXCEPT ![a] = <<d>>]

\* One entry more in a's list; a payee who is the payer gets two.
Filed(index, a, d) == [index EXCEPT ![a] = Append(@, d)]

-----------------------------------------------------------------------------
(* The calls.                                                              *)

\* Slip: a payment nobody pays may be disputed.
DisputePaymentUnpaid(sender, id, reason, byte) ==
    LET payment == payments[id]
        d == [payment |-> id, reason |-> reason, issuer |-> sender,
              payer |-> payment.payer, resolver |-> Draw(byte)]
    IN  /\ CanPayFee(sender)
        /\ PaymentExists(id)
        /\ sender \in {payment.payee, payment.payer}
        /\ CanDraw
        /\ Len(assignedDisputes[d.resolver.account]) < MaxDisputes
        /\ free' = AfterFee(sender)
        /\ disputes' = SetDispute(d, [proofs |-> <<sender>>, status |-> "Processing"])
        /\ assignedDisputes' = Filed(assignedDisputes, d.resolver.account, d)
        /\ involvedDisputes' =
               Filed(Filed(involvedDisputes, payment.payee, d), payment.payer, d)
        /\ payments' = SetStatus(id, "Disputed")
        /\ UNCHANGED <<locks, paymentsCounter, paymentsOwned, payHistory, networkVars>>

\* unwrap() of a missing payer and the draw from an empty list panic: such an
\* extrinsic leaves no trace, not even its fee.  There is no look at the
\* payment's status.
DisputePayment(sender, id, reason, byte) ==
    LET payment == payments[id]
        d == [payment |-> id, reason |-> reason, issuer |-> sender,
              payer |-> payment.payer, resolver |-> Draw(byte)]
    IN  /\ CanPayFee(sender)
        /\ PaymentExists(id)
        /\ payment.payer # NoAccount
        /\ sender \in {payment.payee, payment.payer}
        /\ CanDraw
        /\ Len(assignedDisputes[d.resolver.account]) < MaxDisputes
        /\ free' = AfterFee(sender)
        /\ disputes' = SetDispute(d, [proofs |-> <<sender>>, status |-> "Processing"])
        /\ assignedDisputes' = Filed(assignedDisputes, d.resolver.account, d)
        /\ involvedDisputes' =
               Filed(Filed(involvedDisputes, payment.payee, d), payment.payer, d)
        /\ payments' = SetStatus(id, "Disputed")
        /\ UNCHANGED <<locks, paymentsCounter, paymentsOwned, payHistory, networkVars>>

\* Anyone may add a proof to any dispute, a resolved one included.
SubmitProof(provider, d) ==
    /\ CanPayFee(provider)
    /\ d \in DOMAIN disputes
    /\ Len(disputes[d].proofs) < MaxProofs
    /\ free' = AfterFee(provider)
    /\ disputes' = [disputes EXCEPT ![d].proofs = Append(@, provider)]
    /\ UNCHANGED <<locks, registerVars, networkVars, involvedDisputes, assignedDisputes>>

\* Slip: the resolver is charged, not the payer.
SolveDisputeCharged(sender, d, winner) ==
    LET paid == AfterFee(sender)
        unlocked == RemoveLock(d.payer, "lockerid")
        amount == payments[d.payment].amount
        moves == winner # d.payer
                 /\ CanTransfer(paid, unlocked, sender, Payee(d), amount)
    IN  /\ CanPayFee(sender)
        /\ d \in DOMAIN disputes
        /\ sender = d.resolver.account
        /\ PaymentExists(d.payment)
        /\ locks' = unlocked
        /\ free' = IF moves THEN Moved(paid, sender, Payee(d), amount) ELSE paid
        /\ disputes' = [disputes EXCEPT ![d].status = "Resolved"]
        /\ UNCHANGED <<registerVars, networkVars, involvedDisputes, assignedDisputes>>

\* The settlement; the lock stays removed when the transfer then fails.
\* Neither the dispute's status nor the payment's is looked at, and the
\* payment's is not changed.
SolveDispute(sender, d, winner) ==
    LET paid == AfterFee(sender)
        unlocked == RemoveLock(d.payer, "lockerid")
        amount == payments[d.payment].amount
        transferable == CanTransfer(paid, unlocked, d.payer, Payee(d), amount)
        resolved == [disputes EXCEPT ![d].status = "Resolved"]
    IN  /\ CanPayFee(sender)
        /\ d \in DOMAIN disputes
        /\ sender = d.resolver.account
        /\ PaymentExists(d.payment)
        /\ locks' = unlocked
        /\ \/ /\ winner = d.payer
              /\ free' = paid
              /\ disputes' = resolved
           \/ /\ winner # d.payer
              /\ transferable
              /\ free' = Moved(paid, d.payer, Payee(d), amount)
              /\ disputes' = resolved
           \/ /\ winner # d.payer
              /\ ~ transferable
              /\ free' = paid
              /\ UNCHANGED disputes
        /\ UNCHANGED <<registerVars, networkVars, involvedDisputes, assignedDisputes>>

DisputeCalls ==
    \E a \in Accounts :
        \/ \E id \in PaymentIds, reason \in Reasons, byte \in 0 .. RandomBytes - 1 :
              DisputePayment(a, id, reason, byte)
        \/ \E d \in DOMAIN disputes :
              \/ SubmitProof(a, d)
              \/ \E winner \in Accounts : SolveDispute(a, d, winner)

Next ==
    \/ PaymentCalls /\ UNCHANGED <<networkVars, disputeVars>>
    \/ ResolverCalls /\ UNCHANGED <<registerVars, disputeVars>>
    \/ DisputeCalls
    \/ BalancesNext /\ UNCHANGED <<registerVars, networkVars, disputeVars>>

Spec == Init /\ [][Next]_vars

-----------------------------------------------------------------------------
(* Properties of the pallet as a whole.                                    *)

\* Every dispute is where its parties and its resolver look for it, and those
\* lists name nothing but stored disputes of that account.
DisputesIndexed ==
    /\ \A d \in DOMAIN disputes :
          /\ d \in Range(assignedDisputes[d.resolver.account])
          /\ d \in Range(involvedDisputes[d.payer])
          /\ d \in Range(involvedDisputes[Payee(d)])
    /\ \A a \in Accounts :
          /\ \A d \in Range(assignedDisputes[a]) :
                d \in DOMAIN disputes /\ d.resolver.account = a
          /\ \A d \in Range(involvedDisputes[a]) :
                d \in DOMAIN disputes /\ a \in {d.payer, Payee(d)}

\* The resolver a dispute was handed to was Active then, is so still, and what
\* the dispute remembers of it is what it was: no stake it has now is less.
ResolverQualified ==
    \A d \in DOMAIN disputes :
        LET a == d.resolver.account
        IN  /\ d.resolver.staked >= ResolverActiveRequiredAmount
            /\ a \in ActiveResolvers
            /\ resolvers[a].staked >= d.resolver.staked

\* A dispute is about an existing payment, was issued by one of its parties,
\* and its first proof is the issuer's.
DisputeBetweenParties ==
    \A d \in DOMAIN disputes :
        /\ PaymentExists(d.payment)
        /\ d.issuer \in {d.payer, Payee(d)}
        /\ disputes[d].proofs # <<>> /\ Head(disputes[d].proofs) = d.issuer

\* A dispute is handed to a qualified resolver, between the right parties.
DisputeSound == ResolverQualified /\ DisputeBetweenParties

\* A payment that says it is Disputed still has the payer that a dispute
\* about it is against: a later deposit by another account, which makes that
\* account the payer, takes the payment out of Disputed.
PayerInvolved ==
    \A id \in DOMAIN payments :
        payments[id].status = "Disputed" =>
            /\ payments[id].payer \in Accounts
            /\ \E d \in DOMAIN disputes :
                  d.payment = id /\ d.payer = payments[id].payer

\* A step that resolves a dispute settles it: the payer's deposit is unlocked
\* and either the payer keeps the amount or all of it reaches the payee.
ResolutionStep ==
    \A d \in DOMAIN disputes :
        disputes[d].status = "Processing" /\ disputes'[d].status = "Resolved" =>
            LET paid == AfterFee(d.resolver.account)
            IN  /\ locks'[d.payer]["lockerid"] = 0
                /\ \/ free' = paid
                   \/ free' = Moved(paid, d.payer, Payee(d),
                                    payments[d.payment].amount)

ResolutionSettles == [][ResolutionStep]_vars

\* Refuted: a cancelled payment is never disputed.
NoDisputeAfterCancel ==
    [][\A id \in DOMAIN payments :
          payments[id].status = "Cancelled" =>
              payments'[id].status # "Disputed"]_vars

\* Refuted: a cancellation unlocks what the payer has locked.
CancelUnlocks ==
    [][\A id \in DOMAIN payments :
          /\ payments[id].status # "Cancelled"
          /\ payments'[id].status = "Cancelled"
          /\ payments[id].payer # NoAccount
          => locks'[payments[id].payer]["lockerid"] = 0]_vars
=============================================================================
