-------------------------- MODULE P2pPaymentProofs --------------------------
(***************************************************************************)
(* The pallet as a whole.  Its invariant is that of the payments, that of  *)
(* the resolver network, and DisputeInv: the disputes are typed, indexed,  *)
(* between parties of an existing payment, and with a qualified resolver.  *)
(*                                                                         *)
(* A payment or resolver call touches a dispute only through the payment   *)
(* and the resolver it names: PaymentsEvolve and NetworkEvolves say what   *)
(* such a call may do to those, and DisputesKept that it is harmless.      *)
(***************************************************************************)
EXTENDS P2pPayment, PaymentsProofs, ResolversProofs

DisputesTypeOK ==
    /\ DOMAIN disputes \subseteq DisputeId
    /\ disputes \in [DOMAIN disputes -> Dispute]
    /\ involvedDisputes \in [Accounts -> Seq(DisputeId)]
    /\ assignedDisputes \in [Accounts -> Seq(DisputeId)]

DisputeInv ==
    /\ DisputesTypeOK
    /\ DisputesIndexed
    /\ ResolverQualified
    /\ DisputeBetweenParties
    /\ PayerInvolved

Inv == PaymentsInv /\ NetworkInv /\ DisputeInv

PaymentsEvolve ==
    /\ \A id \in DOMAIN payments :
          /\ id \in DOMAIN payments'
          /\ payments'[id].payee = payments[id].payee
          /\ payments'[id].amount = payments[id].amount
    /\ \A id \in DOMAIN payments' :
          payments'[id].status = "Disputed" =>
              id \in DOMAIN payments /\ payments'[id] = payments[id]

NetworkEvolves ==
    \A a \in DOMAIN resolvers :
        /\ a \in DOMAIN resolvers'
        /\ resolvers'[a].staked >= resolvers[a].staked
        /\ resolvers[a].status = "Active" => resolvers'[a].status = "Active"

-----------------------------------------------------------------------------
\* A payment call never disputes a payment and leaves its terms alone.
LEMMA PaymentCallsEvolve ==
  ASSUME PaymentsInv, PaymentCalls
  PROVE  PaymentsEvolve
  <1>1. RegisterTypeOK BY DEF PaymentsInv, RegisterInv
  <1>2. ASSUME NEW a \in Accounts, NEW amount \in Amounts,
               NEW payer \in Accounts \cup {NoAccount}, CreatePayment(a, amount, payer)
        PROVE  PaymentsEvolve
    <2>1. payments' = [id \in 1 .. paymentsCounter + 1 |->
             IF id = paymentsCounter + 1
             THEN [amount |-> amount, payer |-> payer, payee |-> a,
                   status |-> "WaitingForDeposit"]
             ELSE payments[id]]
      BY <1>2 DEF CreatePayment
    <2>2. paymentsCounter \in Nat /\ DOMAIN payments = 1 .. paymentsCounter
      BY <1>1, PaymentsAssumption DEF RegisterTypeOK
    <2> QED BY <2>1, <2>2 DEF PaymentsEvolve
  <1>3. ASSUME NEW a \in Accounts, NEW id \in PaymentIds, DepositPayment(a, id)
        PROVE  PaymentsEvolve
    BY <1>1, <1>3
    DEF DepositPayment, TakenBy, PaymentExists, PaymentsEvolve, RegisterTypeOK, Payment
  <1>4. ASSUME NEW id \in DOMAIN payments, NEW status \in {"Completed", "Cancelled"},
               payments' = SetStatus(id, status)
        PROVE  PaymentsEvolve
    BY <1>1, <1>4 DEF SetStatus, PaymentsEvolve, RegisterTypeOK, Payment
  <1>5. ASSUME payments' = payments
        PROVE  PaymentsEvolve
    BY <1>5 DEF PaymentsEvolve
  <1>6. ASSUME NEW a \in Accounts, NEW id \in PaymentIds, CompletePayment(a, id)
        PROVE  PaymentsEvolve
    BY <1>4, <1>5, <1>6 DEF CompletePayment, PaymentExists
  <1>7. ASSUME NEW a \in Accounts, NEW id \in PaymentIds, CancelPayment(a, id)
        PROVE  PaymentsEvolve
    BY <1>4, <1>7 DEF CancelPayment, PaymentExists
  <1> QED BY <1>2, <1>3, <1>6, <1>7 DEF PaymentCalls

\* A payment call touches no lock but lockerid.
LEMMA PaymentCallsLocks ==
  ASSUME PaymentsInv, PaymentCalls
  PROVE  \A b \in Accounts : locks'[b]["resolver"] = locks[b]["resolver"]
  <1>1. RegisterTypeOK /\ locks \in [Accounts -> [LockIds -> Balance]]
    BY DEF PaymentsInv, RegisterInv, Sound
  <1>2. ASSUME NEW a \in Accounts, NEW amount,
               \/ locks' = locks
               \/ locks' = SetLock(a, "lockerid", amount)
               \/ locks' = RemoveLock(a, "lockerid")
        PROVE  \A b \in Accounts : locks'[b]["resolver"] = locks[b]["resolver"]
    BY <1>1, <1>2 DEF SetLock, RemoveLock, LockIds
  <1>3. ASSUME NEW a \in Accounts, NEW id \in PaymentIds, CancelPayment(a, id)
        PROVE  \A b \in Accounts : locks'[b]["resolver"] = locks[b]["resolver"]
    <2>1. id \in DOMAIN payments /\ payments[id].payer \in Accounts \cup {NoAccount}
      BY <1>1, <1>3 DEF CancelPayment, PaymentExists, RegisterTypeOK, Payment
    <2> QED BY <1>2, <1>3, <2>1 DEF CancelPayment
  <1>4. ASSUME NEW a \in Accounts, NEW id \in PaymentIds,
               DepositPayment(a, id) \/ CompletePayment(a, id)
        PROVE  \A b \in Accounts : locks'[b]["resolver"] = locks[b]["resolver"]
    BY <1>2, <1>4 DEF DepositPayment, TakenBy, CompletePayment
  <1>5. ASSUME NEW a \in Accounts, NEW amount \in Amounts,
               NEW payer \in Accounts \cup {NoAccount}, CreatePayment(a, amount, payer)
        PROVE  \A b \in Accounts : locks'[b]["resolver"] = locks[b]["resolver"]
    BY <1>5 DEF CreatePayment
  <1> QED BY <1>3, <1>4, <1>5 DEF PaymentCalls

\* A resolver call only adds to the network and touches no deposit lock.
LEMMA ResolverCallsEvolve ==
  ASSUME ResolversInv, ResolverCalls
  PROVE  /\ NetworkEvolves
         /\ \A b \in Accounts : locks'[b]["lockerid"] = locks[b]["lockerid"]
  <1>1. /\ NetworkTypeOK /\ RegistryExact
        /\ locks \in [Accounts -> [LockIds -> Balance]]
    BY DEF ResolversInv, NetworkInv, Sound
  <1>2. \A a \in DOMAIN resolvers :
           resolvers[a] \in Resolver /\ resolvers[a].staked \in Nat
    BY <1>1 DEF NetworkTypeOK, Resolver
  <1>3. ASSUME NEW a \in Accounts, ApplyToBeResolver(a)
        PROVE  /\ NetworkEvolves
               /\ \A b \in Accounts : locks'[b]["lockerid"] = locks[b]["lockerid"]
    <2>1. /\ a \notin DOMAIN resolvers
          /\ \A x \in DOMAIN resolvers :
                x \in DOMAIN resolvers' /\ resolvers'[x] = resolvers[x]
      BY <1>3 DEF ApplyToBeResolver, IsResolver, SetResolver
    <2>2. NetworkEvolves BY <1>2, <2>1 DEF NetworkEvolves
    <2>3. \A b \in Accounts : locks'[b]["lockerid"] = locks[b]["lockerid"]
      BY <1>1, <1>3 DEF ApplyToBeResolver, SetLock, LockIds
    <2> QED BY <2>2, <2>3
  <1>4. ASSUME NEW sender \in Accounts, NEW a \in Accounts, NEW amount \in Amounts,
               StakeToResolver(sender, a, amount)
        PROVE  /\ NetworkEvolves
               /\ \A b \in Accounts : locks'[b]["lockerid"] = locks[b]["lockerid"]
    <2> DEFINE r == Delegated(resolvers[a], sender, amount)
    <2>1. /\ a \in DOMAIN resolvers /\ resolvers' = SetResolver(r.account, r)
          /\ locks' = SetLock(sender, "delegate", amount)
      BY <1>4 DEF StakeToResolver, Listed, IsResolver
    <2>2. amount \in Balance /\ amount \in Nat
      BY BalancesAssumption DEF Balance
    <2>3. resolvers[a].account = a BY <1>1, <2>1 DEF RegistryExact
    <2>4. /\ r.account = a /\ r.staked = resolvers[a].staked + amount
          /\ resolvers[a].status = "Active" => r.status = "Active"
      BY <1>2, <2>1, <2>2, <2>3, DelegatedResolver
    <2> HIDE DEF r
    <2>5. /\ a \in DOMAIN resolvers' /\ resolvers'[a] = r
          /\ \A x \in DOMAIN resolvers :
                x # a => x \in DOMAIN resolvers' /\ resolvers'[x] = resolvers[x]
      BY <2>1, <2>4 DEF SetResolver
    <2>6. NetworkEvolves BY <1>2, <2>1, <2>2, <2>4, <2>5 DEF NetworkEvolves
    <2>7. \A b \in Accounts : locks'[b]["lockerid"] = locks[b]["lockerid"]
      BY <1>1, <2>1 DEF SetLock, LockIds
    <2> QED BY <2>6, <2>7
  <1>5. ASSUME NEW a \in Accounts, UnstakeFromResolver(a)
        PROVE  /\ NetworkEvolves
               /\ \A b \in Accounts : locks'[b]["lockerid"] = locks[b]["lockerid"]
    BY <1>2, <1>5 DEF UnstakeFromResolver, networkVars, NetworkEvolves
  <1> QED BY <1>3, <1>4, <1>5 DEF ResolverCalls

\* Such evolutions leave every dispute in order.
LEMMA DisputesKept ==
  ASSUME NetworkInv, NetworkInv', DisputeInv, PaymentsEvolve, NetworkEvolves, UNCHANGED disputeVars
  PROVE  DisputeInv'
  <1>1. /\ disputes' = disputes /\ involvedDisputes' = involvedDisputes
        /\ assignedDisputes' = assignedDisputes
    BY DEF disputeVars
  <1>2. \A d \in DOMAIN disputes : d.payment \in DOMAIN payments /\ Payee(d)' = Payee(d)
    BY DEF DisputeInv, DisputeBetweenParties, PaymentExists, PaymentsEvolve, Payee
  <1>3. DisputesTypeOK' BY <1>1 DEF DisputeInv, DisputesTypeOK
  <1>4. DisputesIndexed'
    <2>1. DisputesIndexed BY DEF DisputeInv
    <2>2. \A d \in DOMAIN disputes' :
             /\ d \in Range(assignedDisputes'[d.resolver.account])
             /\ d \in Range(involvedDisputes'[d.payer])
             /\ d \in Range(involvedDisputes'[Payee(d)'])
      BY <1>1, <1>2, <2>1 DEF DisputesIndexed
    <2>3. \A a \in Accounts :
             /\ \A d \in Range(assignedDisputes'[a]) :
                   d \in DOMAIN disputes' /\ d.resolver.account = a
             /\ \A d \in Range(involvedDisputes'[a]) :
                   d \in DOMAIN disputes' /\ a \in {d.payer, Payee(d)'}
      BY <1>1, <1>2, <2>1 DEF DisputesIndexed
    <2> QED BY <2>2, <2>3 DEF DisputesIndexed
  <1>5. ResolverQualified'
    <2> SUFFICES ASSUME NEW d \in DOMAIN disputes
                 PROVE  /\ d.resolver.staked >= ResolverActiveRequiredAmount
                        /\ d.resolver.account \in ActiveResolvers'
                        /\ resolvers'[d.resolver.account].staked >= d.resolver.staked
      BY <1>1 DEF ResolverQualified
    <2>1. /\ d.resolver.staked >= ResolverActiveRequiredAmount
          /\ d.resolver.account \in ActiveResolvers
          /\ resolvers[d.resolver.account].staked >= d.resolver.staked
      BY DEF DisputeInv, ResolverQualified
    <2>2. /\ d.resolver.account \in DOMAIN resolvers'
          /\ resolvers'[d.resolver.account].status = "Active"
          /\ resolvers'[d.resolver.account].staked
                >= resolvers[d.resolver.account].staked
      BY <2>1 DEF NetworkEvolves, ActiveResolvers
    <2>3. d.resolver \in Resolver /\ d.resolver.staked \in Nat
      BY DEF DisputeInv, DisputesTypeOK, DisputeId, Resolver
    <2>4. /\ resolvers[d.resolver.account].staked \in Nat
          /\ resolvers'[d.resolver.account].staked \in Nat
      BY <2>1, <2>2 DEF NetworkInv, NetworkTypeOK, Resolver, ActiveResolvers
    <2>5. resolvers'[d.resolver.account].staked >= d.resolver.staked
      BY <2>1, <2>2, <2>3, <2>4
    <2> QED BY <2>1, <2>2, <2>5 DEF ActiveResolvers
  <1>6. DisputeBetweenParties'
    BY <1>1, <1>2 DEF DisputeInv, DisputeBetweenParties, PaymentExists, PaymentsEvolve
  <1>7. PayerInvolved'
    BY <1>1 DEF DisputeInv, PayerInvolved, PaymentsEvolve
  <1> QED BY <1>3, <1>4, <1>5, <1>6, <1>7 DEF DisputeInv

-----------------------------------------------------------------------------
(* The calls on disputes.                                                  *)

\* Storing a dispute, new or again.
LEMMA SetDisputeType ==
  ASSUME DisputesTypeOK, NEW d \in DisputeId, NEW dispute \in Dispute,
         disputes' = SetDispute(d, dispute)
  PROVE  /\ DOMAIN disputes' = DOMAIN disputes \cup {d}
         /\ DOMAIN disputes' \subseteq DisputeId
         /\ disputes' \in [DOMAIN disputes' -> Dispute]
         /\ disputes'[d] = dispute
         /\ \A x \in DOMAIN disputes : x # d => disputes'[x] = disputes[x]
  BY DEF DisputesTypeOK, SetDispute

\* Filing a dispute under one account.
FiledAs(g, f, a, d) ==
    /\ g \in [Accounts -> Seq(DisputeId)]
    /\ \A b \in Accounts :
          Range(g[b]) = IF b = a THEN Range(f[b]) \cup {d} ELSE Range(f[b])

LEMMA FiledRange ==
  ASSUME NEW f \in [Accounts -> Seq(DisputeId)], NEW a \in Accounts,
         NEW d \in DisputeId
  PROVE  FiledAs(Filed(f, a, d), f, a, d)
  <1>1. Append(f[a], d) \in Seq(DisputeId)
    OBVIOUS
  <1>2. Range(Append(f[a], d)) = Range(f[a]) \cup {d}
    BY RangeAppend
  <1> QED BY <1>1, <1>2 DEF Filed, FiledAs

\* A dispute goes to an Active resolver and is filed under it and both parties.
LEMMA DisputeKeeps ==
  ASSUME Inv, NEW a \in Accounts, NEW id \in PaymentIds, NEW reason \in Reasons,
         NEW byte \in 0 .. RandomBytes - 1, DisputePayment(a, id, reason, byte)
  PROVE  Inv'
  <1>1. /\ PaymentsInv /\ RegisterInv /\ RegisterTypeOK /\ NetworkInv /\ DisputeInv
        /\ DisputesTypeOK /\ Sound(free, locks) /\ LockIsLastDeposit
    BY DEF Inv, PaymentsInv, RegisterInv, DisputeInv
  <1>2. /\ id \in DOMAIN payments /\ payments[id].payer # NoAccount /\ CanDraw
    BY DEF DisputePayment, PaymentExists
  <1>3. PICK payer \in Accounts, payee \in Accounts :
           payer = payments[id].payer /\ payee = payments[id].payee
    BY <1>1, <1>2 DEF RegisterTypeOK, Payment
  <1>4. /\ Draw(byte).account \in ActiveResolvers
        /\ Draw(byte) = resolvers[Draw(byte).account]
        /\ Draw(byte) \in Resolver
    BY <1>1, <1>2, DrawIsActive
  <1>5. PICK d \in DisputeId :
           d = [payment |-> id, reason |-> reason, issuer |-> a,
                payer |-> payer, resolver |-> Draw(byte)]
    BY <1>4 DEF DisputeId
  <1>6. PICK dispute \in Dispute : dispute = [proofs |-> <<a>>, status |-> "Processing"]
    <2>1. <<a>> \in Seq(Accounts) OBVIOUS
    <2> QED BY <2>1 DEF Dispute
  <1>7. /\ d.payment = id /\ d.issuer = a /\ d.payer = payer
        /\ d.resolver = Draw(byte)
        /\ dispute.proofs # <<>> /\ Head(dispute.proofs) = a
    <2>1. <<a>> # <<>> /\ Head(<<a>>) = a OBVIOUS
    <2> QED BY <1>5, <1>6, <2>1
  <1>8a. /\ CanPayFee(a) /\ a \in {payee, payer}
        /\ free' = AfterFee(a) /\ locks' = locks
        /\ disputes' = SetDispute(d, dispute)
        /\ assignedDisputes' = Filed(assignedDisputes, d.resolver.account, d)
        /\ involvedDisputes' = Filed(Filed(involvedDisputes, payee, d), payer, d)
        /\ SettlesOne(id, "Disputed")
        /\ UNCHANGED networkVars
    BY <1>3, <1>5, <1>6 DEF DisputePayment, SettlesOne
  <1>8. Sound(free', locks') BY <1>1, <1>8a, FeeSound
  <1>9. /\ DOMAIN payments' = DOMAIN payments
        /\ payments'[id].status = "Disputed"
        /\ \A i \in DOMAIN payments :
              /\ payments'[i].amount = payments[i].amount
              /\ payments'[i].payee = payments[i].payee
              /\ payments'[i].payer = payments[i].payer
              /\ i # id => payments'[i] = payments[i]
    BY <1>1, <1>2, <1>8a, SettledPayments DEF SettledStatus
  <1>10. PaymentsInv'
    <2>1. RegisterInv' BY <1>1, <1>2, <1>8a, RegisterKept DEF SettledStatus
    <2>2. LockIsLastDeposit' BY <1>1, <1>8a, <1>9, LocksKept DEF SettlesOne
    <2> QED BY <1>8, <2>1, <2>2 DEF PaymentsInv
  <1>11. NetworkInv'
    BY <1>1, <1>8a, <1>8, NetworkUnchangedKeeps DEF ResolversInv
  <1>12. DisputeInv'
    <2>1. /\ DOMAIN disputes' = DOMAIN disputes \cup {d}
          /\ DOMAIN disputes' \subseteq DisputeId
          /\ disputes' \in [DOMAIN disputes' -> Dispute]
          /\ disputes'[d] = dispute
          /\ \A x \in DOMAIN disputes : x # d => disputes'[x] = disputes[x]
      BY <1>1, <1>8a, SetDisputeType
    <2>2. d.resolver.account \in Accounts
      BY <1>1, <1>4, <1>7 DEF Resolver
    <2>3. /\ assignedDisputes' \in [Accounts -> Seq(DisputeId)]
          /\ \A b \in Accounts : Range(assignedDisputes'[b]) =
                IF b = d.resolver.account THEN Range(assignedDisputes[b]) \cup {d}
                ELSE Range(assignedDisputes[b])
      <3>1. assignedDisputes \in [Accounts -> Seq(DisputeId)]
        BY <1>1 DEF DisputesTypeOK
      <3>2. PICK q \in Accounts : q = d.resolver.account BY <2>2
      <3> DEFINE g == Filed(assignedDisputes, q, d)
      <3>3. FiledAs(g, assignedDisputes, q, d) BY <3>1, FiledRange
      <3>4. assignedDisputes' = g BY <1>8a, <3>2
      <3> HIDE DEF g
      <3> QED BY <3>2, <3>3, <3>4 DEF FiledAs
    <2>4. /\ involvedDisputes' \in [Accounts -> Seq(DisputeId)]
          /\ \A b \in Accounts : Range(involvedDisputes'[b]) =
                IF b \in {payee, payer}
                THEN Range(involvedDisputes[b]) \cup {d}
                ELSE Range(involvedDisputes[b])
      <3> DEFINE f == Filed(involvedDisputes, payee, d)
      <3>1. involvedDisputes \in [Accounts -> Seq(DisputeId)]
        BY <1>1 DEF DisputesTypeOK
      <3>2. FiledAs(f, involvedDisputes, payee, d) BY <3>1, FiledRange
      <3>3. involvedDisputes' = Filed(f, payer, d)
        BY <1>8a
      <3> HIDE DEF f
      <3> DEFINE g == Filed(f, payer, d)
      <3>4. FiledAs(g, f, payer, d)
        <4>1. f \in [Accounts -> Seq(DisputeId)] BY <3>2 DEF FiledAs
        <4> QED BY <4>1, FiledRange
      <3>5. involvedDisputes' = g BY <3>3
      <3> HIDE DEF g
      <3> QED BY <3>2, <3>4, <3>5 DEF FiledAs
    <2>5. \A x \in DOMAIN disputes : x.payment \in DOMAIN payments /\ Payee(x)' = Payee(x)
      BY <1>1, <1>9 DEF DisputeInv, DisputeBetweenParties, PaymentExists, Payee
    <2>6. Payee(d) = payee /\ Payee(d)' = payee
      BY <1>2, <1>3, <1>7, <1>9 DEF Payee
    <2>7. resolvers' = resolvers BY <1>8a DEF networkVars
    <2>8. DisputesTypeOK'
      BY <2>1, <2>3, <2>4 DEF DisputesTypeOK
    <2>9. DisputesIndexed'
      <3>1. DisputesIndexed BY <1>1 DEF DisputeInv
      <3>2. \A x \in DOMAIN disputes :
               /\ x.resolver.account \in Accounts /\ x.payer \in Accounts
               /\ Payee(x) \in Accounts
        BY <1>1, <2>5 DEF DisputesTypeOK, DisputeId, Resolver, Payee, RegisterTypeOK, Payment
      <3>3. ASSUME NEW x \in DOMAIN disputes
            PROVE  /\ x \in Range(assignedDisputes'[x.resolver.account])
                   /\ x \in Range(involvedDisputes'[x.payer])
                   /\ x \in Range(involvedDisputes'[Payee(x)'])
        <4>1. /\ x \in Range(assignedDisputes[x.resolver.account])
              /\ x \in Range(involvedDisputes[x.payer])
              /\ x \in Range(involvedDisputes[Payee(x)])
          BY <3>1 DEF DisputesIndexed
        <4>2. x \in Range(assignedDisputes'[x.resolver.account])
          BY <2>3, <3>2, <4>1
        <4>3. /\ x \in Range(involvedDisputes'[x.payer])
              /\ x \in Range(involvedDisputes'[Payee(x)])
          BY <2>4, <3>2, <4>1
        <4> QED BY <2>5, <4>2, <4>3
      <3>4. /\ d \in Range(assignedDisputes'[d.resolver.account])
            /\ d \in Range(involvedDisputes'[d.payer])
            /\ d \in Range(involvedDisputes'[Payee(d)'])
        BY <1>3, <1>7, <2>2, <2>3, <2>4, <2>6
      <3>5. ASSUME NEW b \in Accounts, NEW x \in Range(assignedDisputes'[b])
            PROVE  x \in DOMAIN disputes' /\ x.resolver.account = b
        <4>1. CASE x \in Range(assignedDisputes[b])
          BY <2>1, <3>1, <4>1 DEF DisputesIndexed
        <4>2. CASE x \notin Range(assignedDisputes[b])
          BY <2>1, <2>3, <3>5, <4>2
        <4> QED BY <4>1, <4>2
      <3>6. ASSUME NEW b \in Accounts, NEW x \in Range(involvedDisputes'[b])
            PROVE  x \in DOMAIN disputes' /\ b \in {x.payer, Payee(x)'}
        <4>1. CASE x \in Range(involvedDisputes[b])
          BY <2>1, <2>5, <3>1, <4>1 DEF DisputesIndexed
        <4>2. CASE x \notin Range(involvedDisputes[b])
          BY <1>7, <2>1, <2>4, <2>6, <3>6, <4>2, SMTT(30)
        <4> QED BY <4>1, <4>2
      <3> QED BY <2>1, <3>3, <3>4, <3>5, <3>6 DEF DisputesIndexed
    <2>10. ResolverQualified'
      <3>1. ASSUME NEW x \in DOMAIN disputes
            PROVE  /\ x.resolver.staked >= ResolverActiveRequiredAmount
                   /\ x.resolver.account \in ActiveResolvers
                   /\ resolvers[x.resolver.account].staked >= x.resolver.staked
        BY <1>1 DEF DisputeInv, ResolverQualified
      <3>2. /\ d.resolver.account \in ActiveResolvers
            /\ d.resolver = resolvers[d.resolver.account]
            /\ d.resolver.staked \in Nat
        BY <1>4, <1>7 DEF Resolver
      <3>3. d.resolver.staked >= ResolverActiveRequiredAmount
        BY <1>1, <2>2, <3>2 DEF NetworkInv, ActiveAgrees, ActiveResolvers, IsResolver
      <3>4. ActiveResolvers' = ActiveResolvers BY <2>7 DEF ActiveResolvers
      <3>5. resolvers[d.resolver.account].staked >= d.resolver.staked
        BY <3>2
      <3> QED BY <2>1, <2>7, <3>1, <3>2, <3>3, <3>4, <3>5 DEF ResolverQualified
    <2>11. DisputeBetweenParties'
      <3>1. ASSUME NEW x \in DOMAIN disputes, x # d
            PROVE  /\ x.payment \in DOMAIN payments'
                   /\ x.issuer \in {x.payer, Payee(x)'}
                   /\ disputes'[x].proofs # <<>> /\ Head(disputes'[x].proofs) = x.issuer
        BY <1>1, <1>9, <2>1, <2>5, <3>1
        DEF DisputeInv, DisputeBetweenParties, PaymentExists
      <3>2. d.payment \in DOMAIN payments' /\ d.issuer \in {d.payer, Payee(d)'}
        BY <1>2, <1>7, <1>8a, <1>9, <2>6
      <3>3. disputes'[d].proofs # <<>> /\ Head(disputes'[d].proofs) = d.issuer
        BY <1>7, <2>1
      <3> QED BY <2>1, <3>1, <3>2, <3>3 DEF DisputeBetweenParties, PaymentExists
    <2>12. PayerInvolved'
      BY <1>1, <1>3, <1>7, <1>9, <2>1 DEF DisputeInv, PayerInvolved
    <2> QED BY <2>8, <2>9, <2>10, <2>11, <2>12 DEF DisputeInv
  <1> QED BY <1>10, <1>11, <1>12 DEF Inv

\* A proof is added after those that are there.
LEMMA SubmitKeeps ==
  ASSUME Inv, NEW a \in Accounts, NEW d \in DOMAIN disputes, SubmitProof(a, d)
  PROVE  Inv'
  <1>1. /\ PaymentsInv /\ RegisterInv /\ NetworkInv /\ DisputeInv
        /\ DisputesTypeOK /\ Sound(free, locks)
    BY DEF Inv, PaymentsInv, DisputeInv
  <1>2. /\ CanPayFee(a) /\ free' = AfterFee(a) /\ locks' = locks
        /\ disputes' = [disputes EXCEPT ![d].proofs = Append(@, a)]
        /\ involvedDisputes' = involvedDisputes /\ assignedDisputes' = assignedDisputes
        /\ UNCHANGED registerVars /\ UNCHANGED networkVars
    BY DEF SubmitProof
  <1>3. Sound(free', locks') BY <1>1, <1>2, FeeSound
  <1>4. PaymentsInv' BY <1>1, <1>2, <1>3, RegisterUnchangedKeeps
  <1>5. NetworkInv' BY <1>1, <1>2, <1>3, NetworkUnchangedKeeps DEF ResolversInv
  <1>6. payments' = payments /\ resolvers' = resolvers
    BY <1>2 DEF registerVars, networkVars
  <1>7. /\ disputes[d] \in Dispute /\ disputes[d].proofs \in Seq(Accounts)
        /\ disputes[d].proofs # <<>> /\ Head(disputes[d].proofs) = d.issuer
    BY <1>1 DEF DisputesTypeOK, Dispute, DisputeInv, DisputeBetweenParties
  <1>8. /\ Append(disputes[d].proofs, a) \in Seq(Accounts)
        /\ Append(disputes[d].proofs, a) # <<>>
        /\ Head(Append(disputes[d].proofs, a)) = d.issuer
    BY <1>7
  <1>9. /\ DOMAIN disputes' = DOMAIN disputes
        /\ disputes' \in [DOMAIN disputes -> Dispute]
        /\ disputes'[d].proofs = Append(disputes[d].proofs, a)
        /\ \A x \in DOMAIN disputes : x # d => disputes'[x] = disputes[x]
    <2> DEFINE proofs == Append(disputes[d].proofs, a)
    <2>1. disputes \in [DOMAIN disputes -> Dispute] BY <1>1 DEF DisputesTypeOK
    <2>2. proofs \in Seq(Accounts) BY <1>8
    <2>3. disputes' = [disputes EXCEPT ![d].proofs = proofs] BY <1>2
    <2> HIDE DEF proofs
    <2>4. /\ DOMAIN disputes' = DOMAIN disputes
          /\ disputes' \in [DOMAIN disputes -> Dispute]
          /\ disputes'[d].proofs = proofs
          /\ \A x \in DOMAIN disputes : x # d => disputes'[x] = disputes[x]
      BY <1>7, <2>1, <2>2, <2>3 DEF Dispute
    <2> QED BY <2>4 DEF proofs
  <1>10. DisputesTypeOK' BY <1>1, <1>2, <1>9 DEF DisputesTypeOK
  <1>11. DisputesIndexed'
    BY <1>1, <1>2, <1>6, <1>9 DEF DisputeInv, DisputesIndexed, Payee
  <1>12. ResolverQualified'
    BY <1>1, <1>6, <1>9 DEF DisputeInv, ResolverQualified, ActiveResolvers
  <1>13. DisputeBetweenParties'
    <2> SUFFICES ASSUME NEW x \in DOMAIN disputes
                 PROVE  /\ x.payment \in DOMAIN payments
                        /\ x.issuer \in {x.payer, Payee(x)}
                        /\ disputes'[x].proofs # <<>>
                        /\ Head(disputes'[x].proofs) = x.issuer
      BY <1>6, <1>9 DEF DisputeBetweenParties, PaymentExists, Payee
    <2>1. /\ x.payment \in DOMAIN payments
          /\ x.issuer \in {x.payer, Payee(x)}
          /\ disputes[x].proofs # <<>>
          /\ Head(disputes[x].proofs) = x.issuer
      BY <1>1 DEF DisputeInv, DisputeBetweenParties, PaymentExists
    <2>2. CASE x = d BY <1>8, <1>9, <2>1, <2>2
    <2>3. CASE x # d BY <1>9, <2>1, <2>3
    <2> QED BY <2>2, <2>3
  <1>14. PayerInvolved'
    BY <1>1, <1>6, <1>9 DEF DisputeInv, PayerInvolved
  <1> QED BY <1>4, <1>5, <1>10, <1>11, <1>12, <1>13, <1>14 DEF Inv, DisputeInv

\* A settlement unlocks the payer and, at most, moves tokens that no lock
\* holds; whichever branch is taken the dispute itself stays in order.
LEMMA SolveKeeps ==
  ASSUME Inv, NEW a \in Accounts, NEW d \in DOMAIN disputes,
         NEW winner \in Accounts, SolveDispute(a, d, winner)
  PROVE  Inv'
  <1> DEFINE paid == AfterFee(a)
             unlocked == RemoveLock(d.payer, "lockerid")
             amount == payments[d.payment].amount
  <1>1. /\ PaymentsInv /\ RegisterInv /\ RegisterTypeOK /\ NetworkInv /\ DisputeInv
        /\ DisputesTypeOK /\ Sound(free, locks)
    BY DEF Inv, PaymentsInv, RegisterInv, DisputeInv
  <1>2. /\ CanPayFee(a) /\ d.payment \in DOMAIN payments /\ locks' = unlocked
        /\ \/ free' = paid
           \/ /\ CanTransfer(paid, unlocked, d.payer, Payee(d), amount)
              /\ free' = Moved(paid, d.payer, Payee(d), amount)
        /\ \/ disputes' = [disputes EXCEPT ![d].status = "Resolved"]
           \/ disputes' = disputes
        /\ involvedDisputes' = involvedDisputes /\ assignedDisputes' = assignedDisputes
        /\ UNCHANGED registerVars /\ UNCHANGED networkVars
    BY DEF SolveDispute, PaymentExists
  <1>3. d.payer \in Accounts /\ Payee(d) \in Accounts /\ amount \in Balance
    BY <1>1, <1>2, BalancesAssumption
    DEF DisputesTypeOK, DisputeId, RegisterTypeOK, Payment, Payee, Balance
  <1>4. Sound(paid, unlocked)
    <2>1. Sound(paid, locks) BY <1>1, <1>2, FeeSound
    <2> QED BY <1>3, <2>1, RemoveLockSound DEF LockIds
  <1>5. Sound(free', locks')
    BY <1>2, <1>3, <1>4, MovedSound
  <1>6. \A b \in Accounts :
           /\ \/ locks'[b]["lockerid"] = 0
              \/ locks'[b]["lockerid"] = locks[b]["lockerid"]
           /\ locks'[b]["resolver"] = locks[b]["resolver"]
    BY <1>1, <1>2, <1>3 DEF RemoveLock, Sound, LockIds
  <1>7. /\ payments' = payments /\ resolvers' = resolvers
        /\ paymentsCounter' = paymentsCounter /\ paymentsOwned' = paymentsOwned
        /\ payHistory' = payHistory
    BY <1>2 DEF registerVars, networkVars
  <1>8. PaymentsInv'
    <2>1. RegisterInv'
      BY <1>1, <1>7 DEF RegisterInv, RegisterTypeOK, SellerListExact,
         DepositRecorded, HistoryNotWaiting, PaymentExists
    <2>2. LockIsLastDeposit' BY <1>1, <1>6, <1>7, LocksKept DEF PaymentsInv
    <2> QED BY <1>5, <2>1, <2>2 DEF PaymentsInv
  <1>9. NetworkInv'
    BY <1>1, <1>2, <1>5, <1>6, NetworkUnchangedKeeps DEF ResolversInv
  <1>10. /\ DOMAIN disputes' = DOMAIN disputes
         /\ disputes' \in [DOMAIN disputes -> Dispute]
         /\ \A x \in DOMAIN disputes : disputes'[x].proofs = disputes[x].proofs
    <2>1. disputes \in [DOMAIN disputes -> Dispute] /\ disputes[d] \in Dispute
      BY <1>1 DEF DisputesTypeOK
    <2>2. CASE disputes' = disputes BY <2>1, <2>2
    <2>3. CASE disputes' = [disputes EXCEPT ![d].status = "Resolved"]
      BY <2>1, <2>3 DEF Dispute
    <2> QED BY <1>2, <2>2, <2>3
  <1>11. DisputesTypeOK' BY <1>1, <1>2, <1>10 DEF DisputesTypeOK
  <1>12. DisputesIndexed'
    BY <1>1, <1>2, <1>7, <1>10 DEF DisputeInv, DisputesIndexed, Payee
  <1>13. ResolverQualified'
    BY <1>1, <1>7, <1>10 DEF DisputeInv, ResolverQualified, ActiveResolvers
  <1>14. DisputeBetweenParties'
    BY <1>1, <1>7, <1>10
    DEF DisputeInv, DisputeBetweenParties, PaymentExists, Payee
  <1>15. PayerInvolved'
    BY <1>1, <1>7, <1>10 DEF DisputeInv, PayerInvolved
  <1> QED BY <1>8, <1>9, <1>11, <1>12, <1>13, <1>14, <1>15 DEF Inv, DisputeInv

-----------------------------------------------------------------------------
(* The pallet.                                                             *)

\* The pallet's empty storage satisfies the invariant.
LEMMA InitInv == Init => Inv
  <1> SUFFICES ASSUME Init PROVE Inv
    OBVIOUS
  <1>1. PaymentsInv /\ NetworkInv
    BY PaymentsInitInv, ResolversInitInv DEF Init, ResolversInv
  <1>2. /\ DOMAIN disputes = {} /\ disputes \in [{} -> Dispute]
        /\ \A a \in Accounts : involvedDisputes[a] = <<>> /\ assignedDisputes[a] = <<>>
        /\ DOMAIN payments = {}
    BY DEF Init, PaymentsInit
  <1>3. <<>> \in Seq(DisputeId) /\ DOMAIN <<>> = {}
    OBVIOUS
  <1>4. /\ involvedDisputes \in [Accounts -> Seq(DisputeId)]
        /\ assignedDisputes \in [Accounts -> Seq(DisputeId)]
    BY <1>3 DEF Init
  <1>5. DisputesTypeOK BY <1>2, <1>4 DEF DisputesTypeOK
  <1>6. DisputesIndexed BY <1>2, <1>3 DEF DisputesIndexed, Range
  <1>7. ResolverQualified /\ DisputeBetweenParties /\ PayerInvolved
    BY <1>2 DEF ResolverQualified, DisputeBetweenParties, PayerInvolved
  <1> QED BY <1>1, <1>5, <1>6, <1>7 DEF Inv, DisputeInv

\* Every step of the pallet, a payment call, a resolver call, a dispute call or
\* one that touches the accounts alone, preserves the invariant.
LEMMA NextInv ==
  ASSUME Inv, [Next]_vars
  PROVE  Inv'
  <1>1. /\ PaymentsInv /\ ResolversInv /\ NetworkInv /\ DisputeInv
        /\ RegisterTypeOK /\ NetworkTypeOK /\ Sound(free, locks)
    BY DEF Inv, PaymentsInv, ResolversInv, RegisterInv, NetworkInv
  <1>2. ASSUME UNCHANGED registerVars PROVE PaymentsEvolve
    BY <1>2 DEF registerVars, PaymentsEvolve
  <1>3. ASSUME UNCHANGED networkVars PROVE NetworkEvolves
    <2>1. \A a \in DOMAIN resolvers : resolvers[a].staked \in Nat
      BY <1>1 DEF NetworkTypeOK, Resolver
    <2> QED BY <1>3, <2>1 DEF networkVars, NetworkEvolves
  <1>4. CASE PaymentCalls /\ UNCHANGED <<networkVars, disputeVars>>
    <2>1. PaymentsInv' BY <1>1, <1>4, PaymentCallsKeep
    <2>2. Sound(free', locks') BY <2>1 DEF PaymentsInv
    <2>3. NetworkInv'
      BY <1>1, <1>4, <2>2, PaymentCallsLocks, NetworkUnchangedKeeps DEF ResolversInv
    <2>4. DisputeInv'
      BY <1>1, <1>3, <1>4, <2>3, PaymentCallsEvolve, DisputesKept
    <2> QED BY <2>1, <2>3, <2>4 DEF Inv
  <1>5. CASE ResolverCalls /\ UNCHANGED <<registerVars, disputeVars>>
    <2>1. ResolversInv' BY <1>1, <1>5, ResolverCallsKeep
    <2>2. Sound(free', locks') /\ NetworkInv' BY <2>1 DEF ResolversInv
    <2>3. PaymentsInv'
      BY <1>1, <1>5, <2>2, ResolverCallsEvolve, RegisterUnchangedKeeps
    <2>4. DisputeInv'
      BY <1>1, <1>2, <1>5, <2>2, ResolverCallsEvolve, DisputesKept
    <2> QED BY <2>2, <2>3, <2>4 DEF Inv
  <1>6. CASE DisputeCalls
    BY <1>6, DisputeKeeps, SubmitKeeps, SolveKeeps DEF DisputeCalls
  <1>7. ASSUME UNCHANGED <<registerVars, networkVars, disputeVars>>,
               locks' = locks, Sound(free', locks')
        PROVE  Inv'
    <2>1. PaymentsInv' BY <1>1, <1>7, RegisterUnchangedKeeps
    <2>2. NetworkInv' BY <1>1, <1>7, NetworkUnchangedKeeps DEF ResolversInv
    <2>3. DisputeInv' BY <1>1, <1>2, <1>3, <1>7, <2>2, DisputesKept
    <2> QED BY <2>1, <2>2, <2>3 DEF Inv
  <1>8. CASE BalancesNext /\ UNCHANGED <<registerVars, networkVars, disputeVars>>
    BY <1>1, <1>7, <1>8, BalancesNextSound, BalancesNextLocks
  <1>9. CASE UNCHANGED vars
    <2>1. free' = free /\ locks' = locks
          /\ UNCHANGED <<registerVars, networkVars, disputeVars>>
      BY <1>9 DEF vars, balanceVars
    <2> QED BY <1>1, <1>7, <2>1
  <1> QED BY <1>4, <1>5, <1>6, <1>8, <1>9 DEF Next

\* The types of the whole pallet.
THEOREM TypeCorrect == Spec => []TypeOK
  <1>1. Inv => TypeOK
    <2> SUFFICES ASSUME Inv PROVE TypeOK
      OBVIOUS
    <2>1. PaymentsInv /\ ResolversInv /\ DisputesTypeOK
      BY DEF Inv, PaymentsInv, ResolversInv, DisputeInv
    <2> QED BY <2>1, PaymentsInvParts, ResolversInvParts DEF DisputesTypeOK, TypeOK
  <1> QED BY <1>1, InitInv, NextInv, PTL DEF Spec

\* Whatever the calls of the payment protocol, of the resolver network and on
\* disputes do to one account in whatever order, and whatever fees, faucet and
\* wallet transfers do to it between them, no account is dust and every lock
\* is covered by tokens the account holds.
THEOREM AccountsSafe == Spec => [](NoDust /\ LocksBacked)
  <1>1. Inv => NoDust /\ LocksBacked
    BY DEF Inv, PaymentsInv, Sound, NoDust, LocksBacked
  <1> QED BY <1>1, InitInv, NextInv, PTL DEF Spec

\* Every dispute is listed for both parties and for the resolver that was
\* drawn, those of a repeated call too (lib.rs:347-405).
THEOREM DisputesListed == Spec => []DisputesIndexed
  <1>1. Inv => DisputesIndexed BY DEF Inv, DisputeInv
  <1> QED BY <1>1, InitInv, NextInv, PTL DEF Spec

\* The copy of the resolver that a dispute keeps is of one that is Active in
\* the network, and the dispute is one between two parties of an existing
\* payment, opened by one of them (lib.rs:356-400).
THEOREM DisputesFair == Spec => []DisputeSound
  <1>1. Inv => DisputeSound BY DEF Inv, DisputeInv, DisputeSound
  <1> QED BY <1>1, InitInv, NextInv, PTL DEF Spec

\* Deposits by others change the payer of a payment under dispute only as they
\* take it out of Disputed (lib.rs:269-292, 356-400).
THEOREM DisputesInvolvePayer == Spec => []PayerInvolved
  <1>1. Inv => PayerInvolved BY DEF Inv, DisputeInv
  <1> QED BY <1>1, InitInv, NextInv, PTL DEF Spec
-----------------------------------------------------------------------------
(* What a resolution does.                                                 *)

\* A new or repeated dispute is Processing, every other one is as it was.
LEMMA DisputeResolvesNone ==
  ASSUME NEW a \in Accounts, NEW id \in PaymentIds, NEW reason \in Reasons,
         NEW byte \in 0 .. RandomBytes - 1, DisputePayment(a, id, reason, byte)
  PROVE  ResolutionStep
  <1>1. \A x \in DOMAIN disputes :
           disputes'[x] = disputes[x] \/ disputes'[x].status = "Processing"
    BY DEF DisputePayment, SetDispute
  <1> QED BY <1>1 DEF ResolutionStep

\* A proof changes no status.
LEMMA SubmitResolvesNone ==
  ASSUME DisputesTypeOK, NEW a \in Accounts, NEW d \in DOMAIN disputes,
         SubmitProof(a, d)
  PROVE  ResolutionStep
  <1> DEFINE proofs == Append(disputes[d].proofs, a)
  <1>1. disputes' = [disputes EXCEPT ![d].proofs = proofs]
    BY DEF SubmitProof
  <1>2. \A x \in DOMAIN disputes : disputes[x] \in Dispute
    BY DEF DisputesTypeOK
  <1> HIDE DEF proofs
  <1>3. \A x \in DOMAIN disputes : disputes'[x].status = disputes[x].status
    BY <1>1, <1>2 DEF Dispute
  <1> QED BY <1>3 DEF ResolutionStep

\* A settlement resolves its own dispute only, and settles it.
LEMMA SolveSettles ==
  ASSUME Inv, NEW a \in Accounts, NEW d \in DOMAIN disputes,
         NEW winner \in Accounts, SolveDispute(a, d, winner)
  PROVE  ResolutionStep
  <1>1. /\ a = d.resolver.account
        /\ locks' = RemoveLock(d.payer, "lockerid")
        /\ \/ disputes' = [disputes EXCEPT ![d].status = "Resolved"]
           \/ disputes' = disputes
        /\ \/ free' = AfterFee(a)
           \/ free' = Moved(AfterFee(a), d.payer, Payee(d), payments[d.payment].amount)
    BY DEF SolveDispute
  <1>2. d.payer \in Accounts /\ locks \in [Accounts -> [LockIds -> Balance]]
    BY DEF Inv, PaymentsInv, Sound, DisputeInv, DisputesTypeOK, DisputeId
  <1>3. locks'[d.payer]["lockerid"] = 0
    BY <1>1, <1>2 DEF RemoveLock, LockIds
  <1>4. \A x \in DOMAIN disputes : x # d => disputes'[x] = disputes[x]
    BY <1>1
  <1> QED BY <1>1, <1>3, <1>4 DEF ResolutionStep

\* The resolution of a dispute unlocks its payer's deposit and, unless the
\* payer keeps it, brings the whole amount to the payee.
THEOREM DisputesSettled == Spec => ResolutionSettles
  <1>1. Inv /\ [Next]_vars => [ResolutionStep]_vars
    <2> SUFFICES ASSUME Inv, [Next]_vars PROVE ResolutionStep
      OBVIOUS
    <2>1. CASE DisputeCalls
      BY <2>1, DisputeResolvesNone, SubmitResolvesNone, SolveSettles
      DEF DisputeCalls, Inv, DisputeInv
    <2>2. CASE UNCHANGED disputeVars
      <3>1. disputes' = disputes BY <2>2 DEF disputeVars
      <3> QED BY <3>1 DEF ResolutionStep
    <2> QED BY <2>1, <2>2 DEF Next, vars, disputeVars
  <1> QED BY <1>1, InitInv, NextInv, PTL DEF Spec, ResolutionSettles

-----------------------------------------------------------------------------
(* What the parts promise still holds of the whole.                        *)

\* A call of the disputes burns its fee, and a settlement moves an amount.
LEMMA DisputeCallsSupply ==
  ASSUME Inv, DisputeCalls
  PROVE  SupplyStep
  <1>1. RegisterTypeOK /\ DisputesTypeOK /\ Sound(free, locks)
    BY DEF Inv, PaymentsInv, RegisterInv, DisputeInv
  <1>2. ASSUME NEW a \in Accounts, free' = AfterFee(a) PROVE SupplyStep
    BY <1>1, <1>2, CallSupply
  <1>3. ASSUME NEW a \in Accounts, NEW d \in DOMAIN disputes, NEW winner \in Accounts,
               SolveDispute(a, d, winner)
        PROVE  SupplyStep
    <2>1. \/ free' = AfterFee(a)
          \/ free' = Moved(AfterFee(a), d.payer, Payee(d), payments[d.payment].amount)
      BY <1>3 DEF SolveDispute
    <2>2. d.payer \in Accounts
      BY <1>1 DEF DisputesTypeOK, DisputeId
    <2>3. Payee(d) \in Accounts /\ payments[d.payment].amount \in Balance
      BY <1>1, <1>3, BalancesAssumption
      DEF SolveDispute, PaymentExists, RegisterTypeOK, Payment, Payee, Balance
    <2> QED BY <1>1, <2>1, <2>2, <2>3, CallSupply
  <1>4. ASSUME NEW a \in Accounts, NEW id \in PaymentIds, NEW reason \in Reasons,
               NEW byte \in 0 .. RandomBytes - 1, DisputePayment(a, id, reason, byte)
        PROVE  SupplyStep
    BY <1>2, <1>4 DEF DisputePayment
  <1>5. ASSUME NEW a \in Accounts, NEW d \in DOMAIN disputes, SubmitProof(a, d)
        PROVE  SupplyStep
    BY <1>2, <1>5 DEF SubmitProof
  <1> QED BY <1>3, <1>4, <1>5 DEF DisputeCalls

LEMMA ResolverCallsSupply ==
  ASSUME Sound(free, locks), ResolverCalls
  PROVE  SupplyStep
  <1>1. \E a \in Accounts : free' = AfterFee(a)
    BY DEF ResolverCalls, ApplyToBeResolver, StakeToResolver, UnstakeFromResolver
  <1> QED BY <1>1, CallSupply

\* Whatever payments, resolvers and disputes do to the same accounts, tokens
\* come from the faucet alone and go as fees and dust alone: a settlement that
\* charges a payer who never answered mints and loses nothing (lib.rs:518-572).
THEOREM PalletKeepsSupply == Spec => SupplyAccounted
  <1>1. Inv /\ [Next]_vars => [SupplyStep]_balanceVars
    <2> SUFFICES ASSUME Inv, [Next]_vars PROVE [SupplyStep]_balanceVars
      OBVIOUS
    <2>1. PaymentsInv /\ Sound(free, locks) BY DEF Inv, PaymentsInv
    <2>2. CASE PaymentCalls BY <2>1, <2>2, PaymentCallsSupply
    <2>3. CASE ResolverCalls BY <2>1, <2>3, ResolverCallsSupply
    <2>4. CASE DisputeCalls BY <2>4, DisputeCallsSupply
    <2>5. CASE BalancesNext BY <2>1, <2>5, BalancesNextSupply
    <2>6. CASE UNCHANGED vars BY <2>6 DEF vars
    <2> QED BY <2>2, <2>3, <2>4, <2>5, <2>6 DEF Next
  <1> QED BY <1>1, InitInv, NextInv, PTL DEF Spec, SupplyAccounted

\* Of the pallet's calls only those of the network touch the network.
LEMMA NetworkTouched ==
  ASSUME [Next]_vars
  PROVE  ResolverCalls \/ UNCHANGED networkVars
  <1>1. ASSUME NEW a \in Accounts, NEW id \in PaymentIds, NEW reason \in Reasons,
               NEW byte \in 0 .. RandomBytes - 1, DisputePayment(a, id, reason, byte)
        PROVE  UNCHANGED networkVars
    BY <1>1 DEF DisputePayment
  <1>2. ASSUME NEW a \in Accounts, NEW d \in DOMAIN disputes,
               SubmitProof(a, d) \/ \E winner \in Accounts : SolveDispute(a, d, winner)
        PROVE  UNCHANGED networkVars
    BY <1>2 DEF SubmitProof, SolveDispute
  <1>3. CASE DisputeCalls BY <1>1, <1>2, <1>3 DEF DisputeCalls
  <1> QED BY <1>3 DEF Next, vars

\* Stakes, registry and draw list are what applications and delegations made
\* of them, and payments and disputes leave them at that.
THEOREM PalletRecords == Spec => []NetworkRecords
  <1>1. Init => Records BY RecordsInit DEF Init
  <1>2. Inv /\ Records /\ [Next]_vars => Records'
    BY NetworkTouched, RecordsCallsKeep, RecordsUnchanged DEF Inv, PaymentsInv, ResolversInv
  <1>3. Inv /\ Records => NetworkRecords
    BY DEF Inv, NetworkInv, Records, NetworkRecords
  <1> QED BY <1>1, <1>2, <1>3, InitInv, NextInv, PTL DEF Spec

\* The network inside the pallet still implements the abstract network.
THEOREM PalletImplementsNetwork == Spec => ImplementsNetwork
  <1>1. Init => Network!Init BY ResolversInitNetwork DEF Init
  <1>2. Inv /\ [Next]_vars => [Network!Next]_(Network!vars)
    <2> SUFFICES ASSUME Inv, [Next]_vars PROVE [Network!Next]_(Network!vars)
      OBVIOUS
    <2>1. CASE ResolverCalls
      BY <2>1, NetworkStep DEF ResolversNext, Inv, PaymentsInv, ResolversInv
    <2>2. CASE UNCHANGED networkVars BY <2>2, NetworkStutter DEF networkVars
    <2> QED BY <2>1, <2>2, NetworkTouched
  <1> QED BY <1>1, <1>2, InitInv, NextInv, PTL DEF Spec, ImplementsNetwork, Network!Spec

\* Opening a dispute is one more way to change a status, and nothing else.
LEMMA DisputeCallsTerms ==
  ASSUME Inv, DisputeCalls
  PROVE  TermsStep /\ PayerStep /\ CompletionStep
  <1>1. RegisterTypeOK BY DEF Inv, PaymentsInv, RegisterInv
  <1>2. ASSUME NEW id \in DOMAIN payments, SettlesOne(id, "Disputed")
        PROVE  TermsStep /\ PayerStep /\ CompletionStep
    <2>1. /\ DOMAIN payments' = DOMAIN payments
          /\ payments'[id].status = "Disputed"
          /\ \A i \in DOMAIN payments :
                /\ payments'[i].amount = payments[i].amount
                /\ payments'[i].payee = payments[i].payee
                /\ payments'[i].payer = payments[i].payer
                /\ i # id => payments'[i] = payments[i]
      BY <1>1, <1>2, SettledPayments DEF SettledStatus
    <2> QED BY <2>1 DEF TermsStep, PayerStep, CompletionStep
  <1>3. CASE payments' = payments
    BY <1>3 DEF TermsStep, PayerStep, CompletionStep
  <1>4. ASSUME NEW a \in Accounts, NEW id \in PaymentIds, NEW reason \in Reasons,
               NEW byte \in 0 .. RandomBytes - 1, DisputePayment(a, id, reason, byte)
        PROVE  id \in DOMAIN payments /\ SettlesOne(id, "Disputed")
    BY <1>4 DEF DisputePayment, PaymentExists, SettlesOne
  <1>5. ASSUME NEW a \in Accounts, NEW d \in DOMAIN disputes,
               SubmitProof(a, d) \/ \E winner \in Accounts : SolveDispute(a, d, winner)
        PROVE  payments' = payments
    BY <1>5 DEF SubmitProof, SolveDispute, registerVars
  <1> QED BY <1>2, <1>3, <1>4, <1>5 DEF DisputeCalls

LEMMA PalletSteps == Spec => RecordsKept /\ CompletionPays
  <1>1. Inv /\ [Next]_vars =>
           /\ [TermsStep /\ PayerStep]_paymentVars
           /\ [CompletionStep]_paymentVars
    <2> SUFFICES ASSUME Inv, [Next]_vars
                 PROVE  TermsStep /\ PayerStep /\ CompletionStep
      OBVIOUS
    <2>1. CASE PaymentCalls
      BY <2>1, CreateSteps, DepositSteps, CompleteSteps, CancelSteps DEF PaymentCalls, Inv
    <2>2. CASE DisputeCalls BY <2>2, DisputeCallsTerms
    <2>3. CASE UNCHANGED registerVars
      <3>1. payments' = payments BY <2>3 DEF registerVars
      <3> QED BY <3>1 DEF TermsStep, PayerStep, CompletionStep
    <2> QED BY <2>1, <2>2, <2>3 DEF Next, vars
  <1> QED BY <1>1, InitInv, NextInv, PTL DEF Spec, RecordsKept, CompletionPays

\* No dispute edits what the parties agreed on, offers a payment again, or
\* makes another account its payer (lib.rs:347-405, 518-572).
THEOREM PalletKeepsTerms == Spec => RecordsKept
  <1> QED BY PalletSteps

\* In the whole pallet too a payment becomes Completed only by a call that pays
\* it: no settlement of a dispute completes one (lib.rs:301-322, 518-572).
THEOREM PalletPays == Spec => CompletionPays
  <1> QED BY PalletSteps

\* The registers and lists of the parts stay consistent under the calls of the
\* others.
THEOREM PartsAgree ==
  Spec => [](PaymentRecords /\ LockIsLastDeposit /\ ActiveAgrees /\ ResolverBonded
               /\ DrawsActive)
  <1>1. Inv => PaymentRecords /\ LockIsLastDeposit /\ ActiveAgrees /\ ResolverBonded
                 /\ DrawsActive
    <2> SUFFICES ASSUME Inv
                 PROVE  PaymentRecords /\ LockIsLastDeposit /\ ActiveAgrees
                          /\ ResolverBonded /\ DrawsActive
      OBVIOUS
    <2>1. PaymentsInv /\ ResolversInv BY DEF Inv, PaymentsInv, ResolversInv
    <2> QED BY <2>1, PaymentsInvParts, ResolversInvParts DEF PaymentRecords
  <1> QED BY <1>1, InitInv, NextInv, PTL DEF Spec
=============================================================================
