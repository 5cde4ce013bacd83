-------------------------- MODULE ResolversProofs --------------------------
(***************************************************************************)
(* The resolver network: what its map and its two lists say of an account  *)
(* agrees with each other and with the account's lock, a draw is always an *)
(* Active resolver, and the network implements the abstract one in which   *)
(* accounts register and then become active.                               *)
(***************************************************************************)
EXTENDS Resolvers, BalancesProofs

NetworkTypeOK ==
    /\ DOMAIN resolvers \subseteq Accounts
    /\ resolvers \in [DOMAIN resolvers -> Resolver]
    /\ allResolvers \in Seq(Accounts)
    /\ activeResolversIds \in Seq(Accounts)

NetworkInv ==
    /\ NetworkTypeOK
    /\ RegistryExact
    /\ ActiveAgrees
    /\ ResolverBonded

ResolversInv == Sound(free, locks) /\ NetworkInv

-----------------------------------------------------------------------------
(* Lists.                                                                  *)

\* Appending adds exactly the appended element to what a list ranges over.
LEMMA RangeAppend ==
  ASSUME NEW S, NEW s \in Seq(S), NEW e \in S
  PROVE  Range(Append(s, e)) = Range(s) \cup {e}
  <1> DEFINE t == Append(s, e)
  <1>1. /\ DOMAIN s = 1 .. Len(s) /\ DOMAIN t = 1 .. Len(s) + 1 /\ Len(s) \in Nat
        /\ t[Len(s) + 1] = e /\ \A i \in 1 .. Len(s) : t[i] = s[i]
    OBVIOUS
  <1> HIDE DEF t
  <1>2. \A x \in Range(t) : x \in Range(s) \cup {e}
    <2> SUFFICES ASSUME NEW i \in DOMAIN t PROVE t[i] \in Range(s) \cup {e}
      BY DEF Range
    <2>1. CASE i = Len(s) + 1 BY <1>1, <2>1
    <2>2. CASE i # Len(s) + 1
      <3>1. i \in DOMAIN s /\ t[i] = s[i] BY <1>1, <2>2
      <3> QED BY <3>1 DEF Range
    <2> QED BY <2>1, <2>2
  <1>3. e \in Range(t)
    <2>1. Len(s) + 1 \in DOMAIN t BY <1>1
    <2> QED BY <1>1, <2>1 DEF Range
  <1>4. \A x \in Range(s) : x \in Range(t)
    <2> SUFFICES ASSUME NEW i \in DOMAIN s PROVE s[i] \in Range(t)
      BY DEF Range
    <2>1. i \in DOMAIN t /\ t[i] = s[i] BY <1>1
    <2> QED BY <2>1 DEF Range
  <1> QED BY <1>2, <1>3, <1>4 DEF t

\* Appending a new element keeps a list free of duplicates.
LEMMA InjectiveAppend ==
  ASSUME NEW S, NEW s \in Seq(S), NEW e \in S, e \notin Range(s), IsInjective(s)
  PROVE  IsInjective(Append(s, e))
  <1> DEFINE t == Append(s, e)
  <1>1. /\ DOMAIN s = 1 .. Len(s) /\ DOMAIN t = 1 .. Len(s) + 1 /\ Len(s) \in Nat
        /\ t[Len(s) + 1] = e /\ \A i \in 1 .. Len(s) : t[i] = s[i]
    OBVIOUS
  <1>2. \A i \in DOMAIN s : s[i] # e
    BY DEF Range
  <1> HIDE DEF t
  <1>3. ASSUME NEW i \in DOMAIN t, NEW j \in DOMAIN t, t[i] = t[j]
        PROVE  i = j
    <2>1. CASE i \in DOMAIN s /\ j \in DOMAIN s
      BY <1>1, <1>3, <2>1 DEF IsInjective
    <2>2. CASE i \notin DOMAIN s /\ j \notin DOMAIN s
      BY <1>1, <2>2
    <2>3. CASE ~ (i \in DOMAIN s <=> j \in DOMAIN s)
      BY <1>1, <1>2, <1>3, <2>3
    <2> QED BY <2>1, <2>2, <2>3
  <1> QED BY <1>3 DEF IsInjective, t

-----------------------------------------------------------------------------
(* The parts a reader knows by name.                                       *)

\* A draw is an entry of the list, and every entry is an Active resolver.
LEMMA DrawIsActive ==
  ASSUME NetworkInv, CanDraw, NEW byte \in 0 .. RandomBytes - 1
  PROVE  /\ Draw(byte).account \in ActiveResolvers
         /\ Draw(byte) = resolvers[Draw(byte).account]
         /\ Draw(byte) \in Resolver
  <1> DEFINE n == Len(activeResolversIds)
             k == (byte % n) + 1
             a == activeResolversIds[k]
  <1>1. activeResolversIds \in Seq(Accounts) /\ activeResolversIds # <<>>
    BY DEF NetworkInv, NetworkTypeOK, CanDraw
  <1>2. n \in Nat /\ n > 0 /\ DOMAIN activeResolversIds = 1 .. n
    BY <1>1
  <1>3. byte \in Nat BY ResolversAssumption
  <1>4. k \in 1 .. n
    <2> HIDE DEF n
    <2> QED BY <1>2, <1>3
  <1>5. a \in Range(activeResolversIds) /\ a \in Accounts
    BY <1>1, <1>2, <1>4 DEF Range
  <1>6. a \in DOMAIN resolvers /\ resolvers[a].status = "Active"
    BY <1>5 DEF NetworkInv, ActiveAgrees, IsResolver
  <1>7. resolvers[a] \in Resolver /\ resolvers[a].account = a
    BY <1>6 DEF NetworkInv, NetworkTypeOK, RegistryExact
  <1>8. Draw(byte) = resolvers[a] BY DEF Draw
  <1> QED BY <1>6, <1>7, <1>8 DEF ActiveResolvers

\* What the later proofs read off the network's invariant.
LEMMA ResolversInvParts ==
  ASSUME ResolversInv
  PROVE  ResolversTypeOK /\ NoDust /\ LocksBacked /\ RegistryExact
           /\ ActiveAgrees /\ ResolverBonded /\ DrawsActive
  <1>1. DrawsActive BY DrawIsActive DEF ResolversInv, DrawsActive, Drawable
  <1> QED BY <1>1
    DEF ResolversInv, Sound, NetworkInv, NetworkTypeOK, ResolversTypeOK,
        BalancesTypeOK, NoDust, LocksBacked

\* Inserting a resolver, under its own name, into the map.
LEMMA SetResolverType ==
  ASSUME NetworkTypeOK, NEW a \in Accounts, NEW r \in Resolver,
         resolvers' = SetResolver(a, r)
  PROVE  /\ DOMAIN resolvers' = DOMAIN resolvers \cup {a}
         /\ DOMAIN resolvers' \subseteq Accounts
         /\ resolvers' \in [DOMAIN resolvers' -> Resolver]
         /\ resolvers'[a] = r
         /\ \A x \in DOMAIN resolvers : x # a => resolvers'[x] = resolvers[x]
  BY DEF NetworkTypeOK, SetResolver

-----------------------------------------------------------------------------
(* The calls.                                                              *)

\* An application lists its account once and bonds it; below the required
\* stake it is in no draw.
LEMMA ApplyKeeps ==
  ASSUME ResolversInv, NEW a \in Accounts, ApplyToBeResolver(a)
  PROVE  ResolversInv'
  <1> DEFINE r == [account |-> a, staked |-> ResolverInitialAmount,
                   delegators |-> <<>>, status |-> "Canditate"]
  <1>1. NetworkInv /\ NetworkTypeOK /\ Sound(free, locks)
    BY DEF ResolversInv, NetworkInv
  <1>2. /\ CanPayFee(a) /\ a \notin DOMAIN resolvers
        /\ AfterFee(a)[a] >= ResolverInitialAmount
        /\ free' = AfterFee(a)
        /\ locks' = SetLock(a, "resolver", ResolverInitialAmount)
        /\ resolvers' = SetResolver(a, r)
        /\ allResolvers' = Append(allResolvers, a)
        /\ activeResolversIds' = activeResolversIds
    BY DEF ApplyToBeResolver, IsResolver
  <1>3. /\ ResolverInitialAmount \in Balance /\ ResolverInitialAmount # 0
        /\ ResolverInitialAmount \in Nat
        /\ ~ (ResolverInitialAmount >= ResolverActiveRequiredAmount)
    BY ResolversAssumption, BalancesAssumption DEF Balance
  <1>4. r \in Resolver
    <2>1. <<>> \in Seq(ResolverDelegator) OBVIOUS
    <2> QED BY <1>3, <2>1 DEF Resolver, ResolverStatus
  <1>5. /\ DOMAIN resolvers' = DOMAIN resolvers \cup {a}
        /\ DOMAIN resolvers' \subseteq Accounts
        /\ resolvers' \in [DOMAIN resolvers' -> Resolver]
        /\ resolvers'[a] = r
        /\ \A x \in DOMAIN resolvers : x # a => resolvers'[x] = resolvers[x]
    BY <1>1, <1>2, <1>4, SetResolverType
  <1>6. Sound(free', locks')
    <2>1. Sound(AfterFee(a), locks) BY <1>1, <1>2, FeeSound
    <2> QED BY <1>2, <1>3, <2>1, SetLockSound DEF LockIds
  <1>7. NetworkTypeOK'
    <2>1. allResolvers' \in Seq(Accounts) BY <1>1, <1>2 DEF NetworkTypeOK
    <2> QED BY <1>1, <1>2, <1>5, <2>1 DEF NetworkTypeOK
  <1>8. RegistryExact'
    <2>1. RegistryExact /\ allResolvers \in Seq(Accounts)
      BY <1>1 DEF NetworkInv, NetworkTypeOK
    <2>2. Range(allResolvers') = DOMAIN resolvers'
      <3>1. Range(Append(allResolvers, a)) = Range(allResolvers) \cup {a}
        BY <2>1, RangeAppend
      <3> QED BY <1>2, <1>5, <2>1, <3>1 DEF RegistryExact
    <2>3. IsInjective(allResolvers')
      BY <1>2, <2>1, InjectiveAppend DEF RegistryExact
    <2>4. \A x \in DOMAIN resolvers' : resolvers'[x].account = x
      BY <1>2, <1>5, <2>1 DEF RegistryExact
    <2> QED BY <2>2, <2>3, <2>4 DEF RegistryExact
  <1>9. ActiveAgrees'
    <2>1. ActiveAgrees BY <1>1 DEF NetworkInv
    <2>2. a \notin Range(activeResolversIds)
      BY <1>2, <2>1 DEF ActiveAgrees, IsResolver
    <2>3. resolvers'[a].status # "Active"
          /\ ~ (resolvers'[a].staked >= ResolverActiveRequiredAmount)
      BY <1>3, <1>5
    <2> QED BY <1>2, <1>5, <2>1, <2>2, <2>3 DEF ActiveAgrees, IsResolver
  <1>10. ResolverBonded'
    <2>1. \A b \in Accounts : locks'[b]["resolver"] =
             IF b = a THEN ResolverInitialAmount ELSE locks[b]["resolver"]
      BY <1>1, <1>2, <1>3 DEF SetLock, Sound, LockIds
    <2> QED BY <1>1, <1>2, <1>5, <2>1 DEF NetworkInv, ResolverBonded, IsResolver
  <1> QED BY <1>6, <1>7, <1>8, <1>9, <1>10 DEF ResolversInv, NetworkInv

\* What a delegation makes of a resolver.
LEMMA DelegatedResolver ==
  ASSUME NEW r \in Resolver, NEW sender \in Accounts, NEW amount \in Balance
  PROVE  /\ Delegated(r, sender, amount) \in Resolver
         /\ Delegated(r, sender, amount).account = r.account
         /\ Delegated(r, sender, amount).staked = r.staked + amount
         /\ Delegated(r, sender, amount).status =
               IF r.staked + amount >= ResolverActiveRequiredAmount
               THEN "Active" ELSE r.status
         /\ Delegated(r, sender, amount).delegators =
               Append(r.delegators, [account |-> sender, amount |-> amount])
  <1> DEFINE g == [account |-> sender, amount |-> amount]
             d == Append(r.delegators, g)
             status == IF r.staked + amount >= ResolverActiveRequiredAmount
                       THEN "Active" ELSE r.status
  <1>1. g \in ResolverDelegator BY DEF ResolverDelegator
  <1>2. r.delegators \in Seq(ResolverDelegator) BY DEF Resolver
  <1>3. d \in Seq(ResolverDelegator) BY <1>1, <1>2
  <1>4. r.staked + amount \in Nat
    BY BalancesAssumption DEF Resolver, Balance
  <1>5. Delegated(r, sender, amount) =
           [account |-> r.account, staked |-> r.staked + amount,
            delegators |-> d, status |-> status]
    <2>1. r = [account |-> r.account, staked |-> r.staked,
               delegators |-> r.delegators, status |-> r.status]
      BY DEF Resolver
    <2>2. Delegated(r, sender, amount) =
             [r EXCEPT !.staked = r.staked + amount, !.delegators = d,
                       !.status = status]
      BY DEF Delegated, Delegation
    <2> HIDE DEF d, status
    <2> QED BY <2>1, <2>2
  <1>6. status \in ResolverStatus /\ r.account \in Accounts
    BY DEF Resolver, ResolverStatus
  <1> HIDE DEF d, status
  <1>7. Delegated(r, sender, amount) \in Resolver
    BY <1>3, <1>4, <1>5, <1>6 DEF Resolver
  <1> QED BY <1>5, <1>7 DEF d, status

\* A delegation lists its resolver for the draw exactly when it leaves it at
\* or above the required stake.
LEMMA StakeKeeps ==
  ASSUME ResolversInv, NEW sender \in Accounts, NEW a \in Accounts,
         NEW amount \in Amounts, StakeToResolver(sender, a, amount)
  PROVE  ResolversInv'
  <1> DEFINE r == Delegated(resolvers[a], sender, amount)
  <1>1. NetworkInv /\ NetworkTypeOK /\ RegistryExact /\ ActiveAgrees /\ Sound(free, locks)
    BY DEF ResolversInv, NetworkInv
  <1>2. /\ CanPayFee(sender) /\ AfterFee(sender)[sender] >= amount
        /\ a \in DOMAIN resolvers
        /\ free' = AfterFee(sender)
        /\ locks' = SetLock(sender, "delegate", amount)
        /\ activeResolversIds' =
               IF r.staked >= ResolverActiveRequiredAmount
               THEN Append(activeResolversIds, r.account) ELSE activeResolversIds
        /\ resolvers' = SetResolver(r.account, r)
        /\ allResolvers' = allResolvers
    BY DEF StakeToResolver, Listed, IsResolver
  <1>3. amount \in Balance BY BalancesAssumption DEF Balance
  <1>4. resolvers[a] \in Resolver /\ resolvers[a].account = a
    BY <1>1, <1>2 DEF NetworkTypeOK, RegistryExact
  <1>5. /\ r \in Resolver /\ r.account = a
        /\ r.staked = resolvers[a].staked + amount
        /\ r.status = IF r.staked >= ResolverActiveRequiredAmount
                      THEN "Active" ELSE resolvers[a].status
    <2>1. PICK x \in Resolver : x = resolvers[a] /\ x.account = a BY <1>4
    <2>2. r = Delegated(x, sender, amount) BY <2>1
    <2> HIDE DEF r
    <2>3. /\ r \in Resolver /\ r.account = x.account /\ r.staked = x.staked + amount
          /\ r.status = IF x.staked + amount >= ResolverActiveRequiredAmount
                        THEN "Active" ELSE x.status
      BY <1>3, <2>1, <2>2, DelegatedResolver
    <2> QED BY <2>1, <2>3
  <1> HIDE DEF r
  <1>6. /\ DOMAIN resolvers' = DOMAIN resolvers
        /\ resolvers' \in [DOMAIN resolvers' -> Resolver]
        /\ resolvers'[a] = r
        /\ \A x \in DOMAIN resolvers : x # a => resolvers'[x] = resolvers[x]
    BY <1>1, <1>2, <1>5, SetResolverType
  <1>7. Sound(free', locks')
    <2>1. Sound(AfterFee(sender), locks) BY <1>1, <1>2, FeeSound
    <2> QED BY <1>2, <1>3, <2>1, SetLockSound DEF LockIds
  <1>8. NetworkTypeOK'
    <2>1. activeResolversIds' \in Seq(Accounts)
      BY <1>1, <1>2, <1>5 DEF NetworkTypeOK
    <2> QED BY <1>1, <1>2, <1>6, <2>1 DEF NetworkTypeOK
  <1>9. RegistryExact'
    BY <1>1, <1>2, <1>5, <1>6 DEF RegistryExact
  <1>10. ActiveAgrees'
    <2>1. Range(activeResolversIds') =
             IF r.staked >= ResolverActiveRequiredAmount
             THEN Range(activeResolversIds) \cup {a} ELSE Range(activeResolversIds)
      <3>1. activeResolversIds \in Seq(Accounts) BY <1>1 DEF NetworkTypeOK
      <3>2. Range(Append(activeResolversIds, a)) = Range(activeResolversIds) \cup {a}
        BY <3>1, RangeAppend
      <3> QED BY <1>2, <1>5, <3>2
    <2>2. resolvers[a].staked \in Nat /\ amount \in Nat /\ ResolverActiveRequiredAmount \in Nat
      BY <1>3, <1>4, BalancesAssumption, ResolversAssumption DEF Resolver, Balance
    <2>3. /\ a \in Range(activeResolversIds) <=> resolvers[a].status = "Active"
          /\ a \in Range(activeResolversIds) <=>
                resolvers[a].staked >= ResolverActiveRequiredAmount
      BY <1>1, <1>2 DEF ActiveAgrees, IsResolver
    <2>4. /\ a \in Range(activeResolversIds') <=> r.status = "Active"
          /\ a \in Range(activeResolversIds') <=>
                r.staked >= ResolverActiveRequiredAmount
      BY <1>5, <2>1, <2>2, <2>3
    <2> QED BY <1>1, <1>2, <1>6, <2>1, <2>4 DEF ActiveAgrees, IsResolver
  <1>11. ResolverBonded'
    <2>1. \A b \in Accounts : locks'[b]["resolver"] = locks[b]["resolver"]
      BY <1>1, <1>2 DEF SetLock, Sound, LockIds
    <2> QED BY <1>1, <1>6, <2>1 DEF NetworkInv, ResolverBonded, IsResolver
  <1> QED BY <1>7, <1>8, <1>9, <1>10, <1>11 DEF ResolversInv, NetworkInv

\* Whatever leaves the network and the resolver locks alone keeps it.
LEMMA NetworkUnchangedKeeps ==
  ASSUME ResolversInv, UNCHANGED networkVars, Sound(free', locks'),
         \A b \in Accounts : locks'[b]["resolver"] = locks[b]["resolver"]
  PROVE  ResolversInv'
  <1>1. /\ resolvers' = resolvers /\ allResolvers' = allResolvers
        /\ activeResolversIds' = activeResolversIds
    BY DEF networkVars
  <1> QED BY <1>1 DEF ResolversInv, NetworkInv, NetworkTypeOK, RegistryExact,
          ActiveAgrees, ResolverBonded, IsResolver

\* Every call of the network carries the invariant over.
LEMMA ResolverCallsKeep ==
  ASSUME ResolversInv, ResolverCalls
  PROVE  ResolversInv'
  <1>1. ASSUME NEW a \in Accounts, UnstakeFromResolver(a)
        PROVE  ResolversInv'
    <2>1. CanPayFee(a) /\ free' = AfterFee(a) /\ locks' = locks /\ UNCHANGED networkVars
      BY <1>1 DEF UnstakeFromResolver
    <2>2. Sound(free', locks') BY <2>1, FeeSound DEF ResolversInv
    <2> QED BY <2>1, <2>2, NetworkUnchangedKeeps
  <1> QED BY <1>1, ApplyKeeps, StakeKeeps DEF ResolverCalls

\* The empty network satisfies the invariant.
LEMMA ResolversInitInv == ResolversInit => ResolversInv
  <1> SUFFICES ASSUME ResolversInit PROVE ResolversInv
    OBVIOUS
  <1>1. Sound(free, locks) BY InitSound DEF ResolversInit
  <1>2. /\ DOMAIN resolvers = {} /\ resolvers \in [{} -> Resolver]
        /\ allResolvers = <<>> /\ activeResolversIds = <<>>
    BY DEF ResolversInit
  <1>3. <<>> \in Seq(Accounts) /\ DOMAIN <<>> = {}
    OBVIOUS
  <1>4. NetworkTypeOK BY <1>2, <1>3 DEF NetworkTypeOK
  <1>5. RegistryExact BY <1>2, <1>3 DEF RegistryExact, Range, IsInjective
  <1>6. ActiveAgrees BY <1>2, <1>3 DEF ActiveAgrees, Range, IsResolver
  <1>7. ResolverBonded
    BY <1>2 DEF ResolversInit, BalancesInit, ResolverBonded, IsResolver, LockIds
  <1> QED BY <1>1, <1>4, <1>5, <1>6, <1>7 DEF ResolversInv, NetworkInv

\* Every step of the network preserves its invariant.
LEMMA ResolversNextKeeps ==
  ASSUME ResolversInv, [ResolversNext]_resolverVars
  PROVE  ResolversInv'
  <1>1. CASE ResolverCalls BY <1>1, ResolverCallsKeep
  <1>2. CASE BalancesNext /\ UNCHANGED networkVars
    <2>1. Sound(free', locks') BY <1>2, BalancesNextSound DEF ResolversInv
    <2>2. locks' = locks BY <1>2 DEF BalancesNext, DispatchError, Faucet, WalletTransfer
    <2> QED BY <1>2, <2>1, <2>2, NetworkUnchangedKeeps
  <1>3. CASE UNCHANGED resolverVars
    <2>1. free' = free /\ locks' = locks /\ UNCHANGED networkVars
      BY <1>3 DEF resolverVars, balanceVars
    <2> QED BY <2>1, NetworkUnchangedKeeps DEF ResolversInv
  <1> QED BY <1>1, <1>2, <1>3 DEF ResolversNext

LEMMA ResolversKept == ResolversSpec => []ResolversInv
  <1> QED BY ResolversInitInv, ResolversNextKeeps, PTL DEF ResolversSpec

\* For every number of accounts and every stake, the network is typed, no
\* account is dust, every lock is backed, and the map and the list of
\* resolvers name the same accounts, each once.
THEOREM ResolversSafe ==
  ResolversSpec => [](ResolversTypeOK /\ NoDust /\ LocksBacked /\ RegistryExact)
  <1>1. ResolversInv => ResolversTypeOK /\ NoDust /\ LocksBacked /\ RegistryExact
    BY ResolversInvParts
  <1> QED BY <1>1, ResolversKept, PTL

\* The status, the stake and the list of active resolvers say the same of
\* every resolver, however delegations are ordered (lib.rs:453-498).
THEOREM ResolversAgree == ResolversSpec => []ActiveAgrees
  <1>1. ResolversInv => ActiveAgrees BY ResolversInvParts
  <1> QED BY <1>1, ResolversKept, PTL

\* A resolver's application bond stays locked, whatever it pays, delegates or
\* is drawn for (lib.rs:407-451).
THEOREM ResolversBonded == ResolversSpec => []ResolverBonded
  <1>1. ResolversInv => ResolverBonded BY ResolversInvParts
  <1> QED BY <1>1, ResolversKept, PTL

\* Whatever the random byte, a draw names an Active resolver (lib.rs:573-594).
THEOREM ResolversDrawn == ResolversSpec => []DrawsActive
  <1>1. ResolversInv => DrawsActive BY ResolversInvParts
  <1> QED BY <1>1, ResolversKept, PTL

-----------------------------------------------------------------------------
(* Growth.                                                                 *)

\* A step that leaves the map alone takes nothing from the network.
LEMMA NoGrowth ==
  ASSUME NetworkTypeOK, resolvers' = resolvers
  PROVE  GrowthStep
  <1>1. \A a \in DOMAIN resolvers : resolvers[a].staked \in Nat
    BY DEF NetworkTypeOK, Resolver
  <1> QED BY <1>1 DEF GrowthStep

\* An application adds a resolver; a delegation adds to one resolver's stake
\* and to the end of its delegations.
LEMMA NetworkGrowth ==
  ASSUME ResolversInv, [ResolversNext]_resolverVars
  PROVE  GrowthStep
  <1>1. /\ NetworkTypeOK /\ RegistryExact
        /\ \A a \in DOMAIN resolvers :
              resolvers[a] \in Resolver /\ resolvers[a].staked \in Nat
    BY DEF ResolversInv, NetworkInv, NetworkTypeOK, Resolver
  <1>2. ASSUME NEW a \in Accounts, ApplyToBeResolver(a)
        PROVE  GrowthStep
    <2>1. \A x \in DOMAIN resolvers :
             x \in DOMAIN resolvers' /\ resolvers'[x] = resolvers[x]
      BY <1>2 DEF ApplyToBeResolver, IsResolver, SetResolver
    <2> QED BY <1>1, <2>1 DEF GrowthStep
  <1>3. ASSUME NEW sender \in Accounts, NEW a \in Accounts, NEW amount \in Amounts,
               StakeToResolver(sender, a, amount)
        PROVE  GrowthStep
    <2> DEFINE r == Delegated(resolvers[a], sender, amount)
               g == [account |-> sender, amount |-> amount]
    <2>1. a \in DOMAIN resolvers /\ resolvers' = SetResolver(r.account, r)
      BY <1>3 DEF StakeToResolver, Listed, IsResolver
    <2>2. amount \in Balance /\ amount \in Nat
      BY BalancesAssumption DEF Balance
    <2>3. resolvers[a] \in Resolver /\ resolvers[a].account = a
      BY <1>1, <2>1 DEF RegistryExact
    <2>4. /\ r.account = a /\ r.staked = resolvers[a].staked + amount
          /\ resolvers[a].status = "Active" => r.status = "Active"
          /\ r.delegators = Append(resolvers[a].delegators, g)
      BY <2>2, <2>3, DelegatedResolver
    <2>5. resolvers[a].delegators \in Seq(ResolverDelegator)
      BY <2>3 DEF Resolver
    <2>6. g \in ResolverDelegator BY <2>2 DEF ResolverDelegator
    <2> HIDE DEF r, g
    <2>7. /\ a \in DOMAIN resolvers' /\ resolvers'[a] = r
          /\ \A x \in DOMAIN resolvers :
                x # a => x \in DOMAIN resolvers' /\ resolvers'[x] = resolvers[x]
      BY <2>1, <2>4 DEF SetResolver
    <2>8. \A i \in DOMAIN resolvers[a].delegators :
             r.delegators[i] = resolvers[a].delegators[i]
      BY <2>4, <2>5, <2>6
    <2>9. r.staked >= resolvers[a].staked BY <1>1, <2>1, <2>2, <2>4
    <2> QED BY <1>1, <2>4, <2>7, <2>8, <2>9 DEF GrowthStep
  <1>4. ASSUME NEW a \in Accounts, UnstakeFromResolver(a)
        PROVE  GrowthStep
    BY <1>1, <1>4, NoGrowth DEF UnstakeFromResolver, networkVars
  <1>5. CASE UNCHANGED networkVars
    BY <1>1, <1>5, NoGrowth DEF networkVars
  <1> QED BY <1>2, <1>3, <1>4, <1>5
          DEF ResolversNext, ResolverCalls, resolverVars, networkVars

\* No step takes a resolver out, demotes it, lowers its stake or rewrites a
\* delegation it has.
THEOREM NetworkNeverShrinks == ResolversSpec => NetworkGrows
  <1>1. ResolversInv /\ [ResolversNext]_resolverVars => [GrowthStep]_resolverVars
    BY NetworkGrowth
  <1> QED BY <1>1, ResolversInitInv, ResolversNextKeeps, PTL
          DEF ResolversSpec, NetworkGrows

-----------------------------------------------------------------------------
(* What a delegator's lock stands for.                                     *)

\* Entries stay in the map, and only a delegation to r extends r's.
LEMMA DelegationsStay ==
  ASSUME ResolversInv, DelegationTraceable, NEW sender \in Accounts, NEW a \in Accounts,
         NEW amount \in Amounts, StakeToResolver(sender, a, amount)
  PROVE  DelegationTraceable'
  <1> DEFINE r == Delegated(resolvers[a], sender, amount)
             g == [account |-> sender, amount |-> amount]
             Of(x) == Range(resolvers[x].delegators)
             Then(x) == Range(resolvers'[x].delegators)
  <1>1. /\ NetworkTypeOK /\ RegistryExact /\ Sound(free, locks)
        /\ a \in DOMAIN resolvers /\ resolvers' = SetResolver(r.account, r)
        /\ locks' = SetLock(sender, "delegate", amount)
        /\ amount \in Balance /\ amount \in Nat
    BY BalancesAssumption DEF ResolversInv, NetworkInv, StakeToResolver, Listed, IsResolver, Balance
  <1>2. /\ resolvers[a] \in Resolver /\ resolvers[a].account = a
        /\ resolvers[a].delegators \in Seq(ResolverDelegator)
        /\ g \in ResolverDelegator
    BY <1>1 DEF NetworkTypeOK, RegistryExact, Resolver, ResolverDelegator
  <1>3. r \in Resolver /\ r.account = a /\ r.delegators = Append(resolvers[a].delegators, g)
    BY <1>1, <1>2, DelegatedResolver
  <1> HIDE DEF r
  <1>4. /\ DOMAIN resolvers' = DOMAIN resolvers /\ resolvers'[a] = r
        /\ \A x \in DOMAIN resolvers : x # a => resolvers'[x] = resolvers[x]
    BY <1>1, <1>3, SetResolverType
  <1> HIDE DEF g
  <1>5. Then(a) = Of(a) \cup {g}
    <2>1. Range(Append(resolvers[a].delegators, g)) = Range(resolvers[a].delegators) \cup {g}
      BY <1>2, RangeAppend
    <2> QED BY <1>3, <1>4, <2>1
  <1>6. \A x \in DOMAIN resolvers : x # a => Then(x) = Of(x)
    BY <1>4
  <1> HIDE DEF Of, Then
  <1>7. \A x \in DOMAIN resolvers : Of(x) \subseteq Then(x)
    BY <1>5, <1>6
  <1>8. ASSUME NEW b \in Accounts, locks'[b]["delegate"] > 0
        PROVE  \E x \in DOMAIN resolvers' : Delegation(b, locks'[b]["delegate"]) \in Then(x)
    <2>1. CASE locks'[b]["delegate"] = locks[b]["delegate"]
      <3>1. PICK x \in DOMAIN resolvers : Delegation(b, locks[b]["delegate"]) \in Of(x)
        BY <1>8, <2>1 DEF DelegationTraceable, Of
      <3>2. Delegation(b, locks'[b]["delegate"]) \in Then(x)
        BY <1>7, <2>1, <3>1
      <3> QED BY <1>4, <3>2
    <2>2. CASE b = sender /\ locks'[b]["delegate"] = amount
      <3>1. Delegation(b, locks'[b]["delegate"]) = g BY <2>2 DEF Delegation, g
      <3> QED BY <1>1, <1>4, <1>5, <3>1
    <2> QED BY <1>1, <2>1, <2>2 DEF SetLock, Sound, LockIds
  <1> QED BY <1>8 DEF DelegationTraceable, Then

\* An application sets another lock, and its own entry is new.
LEMMA ApplicationsStay ==
  ASSUME ResolversInv, DelegationTraceable, NEW a \in Accounts, ApplyToBeResolver(a)
  PROVE  DelegationTraceable'
  <1>1. \A b \in Accounts : locks'[b]["delegate"] = locks[b]["delegate"]
    BY DEF ApplyToBeResolver, SetLock, ResolversInv, Sound, LockIds
  <1>2. \A x \in DOMAIN resolvers : x \in DOMAIN resolvers' /\ resolvers'[x] = resolvers[x]
    BY DEF ApplyToBeResolver, IsResolver, SetResolver
  <1> QED BY <1>1, <1>2 DEF DelegationTraceable

LEMMA UnchangedStay ==
  ASSUME DelegationTraceable, locks' = locks, resolvers' = resolvers
  PROVE  DelegationTraceable'
  BY DEF DelegationTraceable

\* A delegator's lock is always the amount of a delegation of its own that a
\* resolver still lists, although a later delegation overwrites the lock and
\* the stakes keep both (lib.rs:453-498).
THEOREM DelegationsTraced == ResolversSpec => []DelegationTraceable
  <1>1. ResolversInit => DelegationTraceable
    BY DEF ResolversInit, BalancesInit, DelegationTraceable, LockIds
  <1>2. ASSUME ResolversInv, DelegationTraceable, [ResolversNext]_resolverVars
        PROVE  DelegationTraceable'
    <2>1. CASE ResolverCalls
      <3>1. ASSUME NEW a \in Accounts, UnstakeFromResolver(a)
            PROVE  DelegationTraceable'
        BY <1>2, <3>1, UnchangedStay DEF UnstakeFromResolver, networkVars
      <3> QED BY <1>2, <2>1, <3>1, ApplicationsStay, DelegationsStay DEF ResolverCalls
    <2>2. CASE BalancesNext /\ UNCHANGED networkVars
      <3>1. locks' = locks BY <2>2 DEF BalancesNext, DispatchError, Faucet, WalletTransfer
      <3> QED BY <1>2, <2>2, <3>1, UnchangedStay DEF networkVars
    <2>3. CASE UNCHANGED resolverVars
      BY <1>2, <2>3, UnchangedStay DEF resolverVars, networkVars, balanceVars
    <2> QED BY <1>2, <2>1, <2>2, <2>3 DEF ResolversNext
  <1> QED BY <1>1, <1>2, ResolversKept, PTL DEF ResolversSpec

-----------------------------------------------------------------------------
(* Where the stakes and the draw list come from.                           *)

Records == StakeAccounted /\ DrawWeight

AmountsOf(r) == [i \in DOMAIN r.delegators |-> r.delegators[i].amount]

\* Where the draw list has a, and which delegations of r put it there.
PlacesOf(list, a) == {i \in DOMAIN list : list[i] = a}
ActiveAfter(r) ==
    {n \in DOMAIN r.delegators : StakeAfter(r, n) >= ResolverActiveRequiredAmount}

\* The stakes of a resolver along its delegations are the same after one more,
\* which adds its amount.
LEMMA StakeAppended ==
  ASSUME NEW r \in Resolver, NEW sender \in Accounts, NEW amount \in Balance,
         NEW g, g = Delegated(r, sender, amount), NEW n \in Nat, n = Len(r.delegators)
  PROVE  /\ DOMAIN r.delegators = 1 .. n /\ DOMAIN g.delegators = 1 .. n + 1
         /\ Len(g.delegators) = n + 1
         /\ \A k \in 0 .. n : StakeAfter(g, k) = StakeAfter(r, k)
         /\ StakeAfter(g, n + 1) = StakeAfter(r, n) + amount
  <1> DEFINE e == [account |-> sender, amount |-> amount]
  <1>1. g.delegators = Append(r.delegators, e) BY DelegatedResolver
  <1>2. r.delegators \in Seq(ResolverDelegator) /\ e \in ResolverDelegator
    BY DEF Resolver, ResolverDelegator
  <1>3. /\ DOMAIN r.delegators = 1 .. n /\ DOMAIN g.delegators = 1 .. n + 1
        /\ Len(g.delegators) = n + 1
        /\ \A i \in 1 .. n : g.delegators[i] = r.delegators[i]
        /\ g.delegators[n + 1] = e
        /\ \A i \in 1 .. n : r.delegators[i] \in ResolverDelegator
    BY <1>1, <1>2
  <1>4. PICK f, h : f = AmountsOf(r) /\ h = AmountsOf(g) OBVIOUS
  <1>5. /\ amount \in Int /\ h[n + 1] = amount
        /\ \A i \in 1 .. n : f[i] = h[i] /\ h[i] \in Int
    <2>1. \A d \in ResolverDelegator : d.amount \in Int
      BY BalancesAssumption DEF ResolverDelegator, Balance
    <2>2. amount \in Int BY BalancesAssumption DEF Balance
    <2>3. /\ \A i \in 1 .. n : f[i] = r.delegators[i].amount
          /\ \A i \in 1 .. n + 1 : h[i] = g.delegators[i].amount
      BY <1>3, <1>4 DEF AmountsOf
    <2>4. n + 1 \in 1 .. n + 1 /\ \A i \in 1 .. n : i \in 1 .. n + 1 BY <1>3
    <2>5. h[n + 1] = amount
      <3>1. h[n + 1] = g.delegators[n + 1].amount BY <2>3, <2>4
      <3> QED BY <1>3, <3>1
    <2>6. ASSUME NEW i \in 1 .. n PROVE f[i] = h[i] /\ h[i] \in Int
      <3>1. /\ f[i] = r.delegators[i].amount /\ h[i] = g.delegators[i].amount
            /\ g.delegators[i] = r.delegators[i] /\ r.delegators[i] \in ResolverDelegator
        BY <1>3, <2>3, <2>4
      <3> QED BY <2>1, <3>1
    <2> QED BY <2>2, <2>5, <2>6
  <1>6. \A i \in 1 .. n + 1 : h[i] \in Int
    <2>1. \A i \in 1 .. n + 1 : i \in 1 .. n \/ i = n + 1 BY <1>3
    <2> QED BY <1>5, <2>1
  <1>7. /\ SumFunctionOnSet(f, 1 .. n) \in Int
        /\ SumFunctionOnSet(h, 1 .. n + 1) = SumFunctionOnSet(f, 1 .. n) + h[n + 1]
    <2>1. \A i \in 1 .. n : f[i] = h[i] BY <1>5
    <2> QED BY <1>6, <2>1, SumAppended
  <1>8. /\ \A k : StakeAfter(r, k) = ResolverInitialAmount + SumFunctionOnSet(f, 1 .. k)
        /\ \A k : StakeAfter(g, k) = ResolverInitialAmount + SumFunctionOnSet(h, 1 .. k)
    BY <1>4 DEF StakeAfter, AmountsOf
  <1>9. ResolverInitialAmount \in Int BY ResolversAssumption, BalancesAssumption
  <1>10. StakeAfter(g, n + 1) = StakeAfter(r, n) + amount
    <2>1. PICK v \in Int : v = SumFunctionOnSet(f, 1 .. n) BY <1>7
    <2> QED BY <1>5, <1>7, <1>8, <1>9, <2>1
  <1>11. ASSUME NEW k \in 0 .. n PROVE StakeAfter(g, k) = StakeAfter(r, k)
    <2>1. k \in Nat /\ \A i \in 1 .. k : f[i] = h[i] BY <1>5
    <2>2. SumFunctionOnSet(f, 1 .. k) = SumFunctionOnSet(h, 1 .. k) BY <2>1, SumSame
    <2> QED BY <1>8, <2>2
  <1> QED BY <1>3, <1>10, <1>11

\* A resolver has, once it applied, its initial stake and no draw.
LEMMA RecordsApply ==
  ASSUME ResolversInv, Records, NEW a \in Accounts, ApplyToBeResolver(a)
  PROVE  Records'
  <1> DEFINE r == [account |-> a, staked |-> ResolverInitialAmount,
                   delegators |-> <<>>, status |-> "Canditate"]
  <1>1. /\ a \notin DOMAIN resolvers /\ resolvers' = SetResolver(a, r)
        /\ activeResolversIds' = activeResolversIds
    BY DEF ApplyToBeResolver, IsResolver
  <1>2. /\ DOMAIN resolvers' = DOMAIN resolvers \cup {a} /\ resolvers'[a] = r
        /\ \A x \in DOMAIN resolvers : x # a /\ resolvers'[x] = resolvers[x]
    BY <1>1 DEF SetResolver
  <1>3. DOMAIN r.delegators = {} /\ Len(r.delegators) = 0 /\ 1 .. 0 = {}
    OBVIOUS
  <1>4. a \notin Range(activeResolversIds)
    BY <1>1 DEF ResolversInv, NetworkInv, ActiveAgrees, IsResolver
  <1> HIDE DEF r
  <1>5. StakeAfter(r, 0) = ResolverInitialAmount /\ r.staked = ResolverInitialAmount
    <2>1. SumFunctionOnSet(AmountsOf(r), 1 .. 0) = 0 BY <1>3, SumEmpty
    <2>2. ResolverInitialAmount \in Int BY ResolversAssumption, BalancesAssumption
    <2> QED BY <2>1, <2>2 DEF StakeAfter, AmountsOf, r
  <1>6. StakeAccounted'
    <2> SUFFICES ASSUME NEW x \in DOMAIN resolvers'
                 PROVE  resolvers'[x].staked =
                           StakeAfter(resolvers'[x], Len(resolvers'[x].delegators))
      BY DEF StakeAccounted, StakeAfter
    <2>1. CASE x = a BY <1>2, <1>3, <1>5, <2>1
    <2>2. CASE x # a BY <1>2, <2>2 DEF Records, StakeAccounted
    <2> QED BY <2>1, <2>2
  <1>7. DrawWeight'
    <2> SUFFICES ASSUME NEW x \in DOMAIN resolvers'
                 PROVE  Cardinality(PlacesOf(activeResolversIds, x))
                          = Cardinality(ActiveAfter(resolvers'[x]))
      BY <1>1 DEF DrawWeight, PlacesOf, ActiveAfter, StakeAfter
    <2>1. CASE x = a
      <3>1. PlacesOf(activeResolversIds, x) = {} BY <1>4, <2>1 DEF PlacesOf, Range
      <3>2. ActiveAfter(resolvers'[x]) = {} BY <1>2, <1>3, <2>1 DEF ActiveAfter
      <3> QED BY <3>1, <3>2
    <2>2. CASE x # a
      BY <1>2, <2>2 DEF Records, DrawWeight, PlacesOf, ActiveAfter
    <2> QED BY <2>1, <2>2
  <1> QED BY <1>6, <1>7 DEF Records

\* A delegation adds its amount to one stake and, when it leaves the resolver
\* at or above the required stake, one entry to the draw list.
LEMMA RecordsStake ==
  ASSUME ResolversInv, Records, NEW sender \in Accounts, NEW a \in Accounts,
         NEW amount \in Amounts, StakeToResolver(sender, a, amount)
  PROVE  Records'
  <1>1. /\ NetworkTypeOK /\ RegistryExact /\ amount \in Balance
        /\ activeResolversIds \in Seq(Accounts)
    BY BalancesAssumption DEF ResolversInv, NetworkInv, NetworkTypeOK, Balance
  <1>2. PICK g : g = Delegated(resolvers[a], sender, amount) OBVIOUS
  <1>3. /\ a \in DOMAIN resolvers /\ resolvers' = SetResolver(g.account, g)
        /\ activeResolversIds' = IF g.staked >= ResolverActiveRequiredAmount
                                 THEN Append(activeResolversIds, g.account)
                                 ELSE activeResolversIds
    BY <1>2 DEF StakeToResolver, Listed, IsResolver
  <1>4. PICK r \in Resolver : r = resolvers[a] /\ r.account = a
    BY <1>1, <1>3 DEF NetworkTypeOK, RegistryExact
  <1>5. g.account = a /\ g.staked = r.staked + amount
    BY <1>1, <1>2, <1>4, DelegatedResolver
  <1>6. PICK n \in Nat : n = Len(r.delegators)
    <2>1. r.delegators \in Seq(ResolverDelegator) BY DEF Resolver
    <2> QED BY <2>1
  <1>7. /\ DOMAIN r.delegators = 1 .. n /\ DOMAIN g.delegators = 1 .. n + 1
        /\ Len(g.delegators) = n + 1
        /\ \A k \in 0 .. n : StakeAfter(g, k) = StakeAfter(r, k)
        /\ StakeAfter(g, n + 1) = StakeAfter(r, n) + amount
    <2>1. g = Delegated(r, sender, amount) BY <1>2, <1>4
    <2> QED BY <1>1, <1>6, <2>1, StakeAppended
  <1>8. /\ DOMAIN resolvers' = DOMAIN resolvers /\ resolvers'[a] = g
        /\ \A x \in DOMAIN resolvers : x # a => resolvers'[x] = resolvers[x]
    BY <1>3, <1>5 DEF SetResolver
  <1>9. g.staked = StakeAfter(g, n + 1)
    <2>1. r.staked = StakeAfter(r, n) BY <1>3, <1>4, <1>6 DEF Records, StakeAccounted
    <2> QED BY <1>5, <1>7, <2>1
  <1>10. StakeAccounted'
    <2> SUFFICES ASSUME NEW x \in DOMAIN resolvers'
                 PROVE  resolvers'[x].staked =
                           StakeAfter(resolvers'[x], Len(resolvers'[x].delegators))
      BY DEF StakeAccounted, StakeAfter
    <2>1. CASE x = a BY <1>7, <1>8, <1>9, <2>1
    <2>2. CASE x # a BY <1>8, <2>2 DEF Records, StakeAccounted
    <2> QED BY <2>1, <2>2
  <1>11. PICK l \in Nat : l = Len(activeResolversIds) BY <1>1
  <1>12. /\ DOMAIN activeResolversIds = 1 .. l
         /\ g.staked >= ResolverActiveRequiredAmount =>
               /\ DOMAIN activeResolversIds' = 1 .. l + 1
               /\ activeResolversIds'[l + 1] = a
               /\ \A i \in 1 .. l : activeResolversIds'[i] = activeResolversIds[i]
    BY <1>1, <1>3, <1>5, <1>11
  <1>13. DrawWeight'
    <2> SUFFICES ASSUME NEW x \in DOMAIN resolvers'
                 PROVE  Cardinality(PlacesOf(activeResolversIds', x))
                          = Cardinality(ActiveAfter(resolvers'[x]))
      BY DEF DrawWeight, PlacesOf, ActiveAfter, StakeAfter
    <2>1. Cardinality(PlacesOf(activeResolversIds, x)) = Cardinality(ActiveAfter(resolvers[x]))
      BY <1>8 DEF Records, DrawWeight, PlacesOf, ActiveAfter
    <2>2. PICK A, B, C, D : /\ A = PlacesOf(activeResolversIds, x)
                            /\ B = PlacesOf(activeResolversIds', x)
                            /\ C = ActiveAfter(resolvers[x])
                            /\ D = ActiveAfter(resolvers'[x])
      OBVIOUS
    <2>3. Cardinality(B) = IF x = a /\ g.staked >= ResolverActiveRequiredAmount
                           THEN Cardinality(A) + 1 ELSE Cardinality(A)
      <3>1. CASE g.staked >= ResolverActiveRequiredAmount
        <4>1. /\ A \subseteq 1 .. l /\ B \subseteq 1 .. l + 1
              /\ \A i \in 1 .. l : i \in A <=> i \in B
              /\ l + 1 \in B <=> x = a
          <5>1. \A i \in 1 .. l : i \in 1 .. l + 1 BY <1>12
          <5>2. l + 1 \in 1 .. l + 1 BY <1>12
          <5> QED BY <1>12, <2>2, <3>1, <5>1, <5>2 DEF PlacesOf
        <4> QED BY <1>12, <3>1, <4>1, CountAppended
      <3>2. CASE ~ (g.staked >= ResolverActiveRequiredAmount)
        <4>1. A = B BY <1>3, <2>2, <3>2
        <4> QED BY <3>2, <4>1
      <3> QED BY <3>1, <3>2
    <2>4. Cardinality(D) = IF x = a /\ g.staked >= ResolverActiveRequiredAmount
                           THEN Cardinality(C) + 1 ELSE Cardinality(C)
      <3>1. CASE x = a
        <4>1. C = ActiveAfter(r) /\ D = ActiveAfter(g) BY <1>4, <1>8, <2>2, <3>1
        <4>2. \A i \in 1 .. n : i \in 0 .. n /\ i \in 1 .. n + 1 BY <1>7
        <4>3. n + 1 \in 1 .. n + 1 BY <1>7
        <4>4. /\ C \subseteq 1 .. n /\ D \subseteq 1 .. n + 1
              /\ \A i \in 1 .. n : i \in C <=> i \in D
              /\ n + 1 \in D <=> g.staked >= ResolverActiveRequiredAmount
          BY <1>7, <1>9, <4>1, <4>2, <4>3 DEF ActiveAfter
        <4> QED BY <1>7, <3>1, <4>4, CountAppended
      <3>2. CASE x # a
        <4>1. C = D BY <1>8, <2>2, <3>2
        <4> QED BY <3>2, <4>1
      <3> QED BY <3>1, <3>2
    <2>5. Cardinality(A) = Cardinality(C) BY <2>1, <2>2
    <2>6. Cardinality(B) = Cardinality(D) BY <2>3, <2>4, <2>5
    <2> QED BY <2>2, <2>6
  <1> QED BY <1>10, <1>13 DEF Records

LEMMA RecordsUnchanged ==
  ASSUME Records, UNCHANGED networkVars
  PROVE  Records'
  BY DEF Records, StakeAccounted, DrawWeight, StakeAfter, networkVars

LEMMA RecordsCallsKeep ==
  ASSUME ResolversInv, Records, ResolverCalls
  PROVE  Records'
  <1>1. ASSUME NEW a \in Accounts, UnstakeFromResolver(a) PROVE Records'
    BY <1>1, RecordsUnchanged DEF UnstakeFromResolver
  <1> QED BY <1>1, RecordsApply, RecordsStake DEF ResolverCalls

LEMMA RecordsInit ==
  ASSUME ResolversInit
  PROVE  Records
  <1>1. DOMAIN resolvers = {} BY DEF ResolversInit
  <1> QED BY <1>1 DEF Records, StakeAccounted, DrawWeight

\* Stakes, registry and draw list are exactly what the applications and the
\* delegations made of them: no delegation is lost or doubled, and a resolver
\* is drawn once for every delegation that ended at or above the required
\* stake (lib.rs:407-498).
THEOREM NetworkRecorded == ResolversSpec => []NetworkRecords
  <1>1. ResolversInit => Records BY RecordsInit
  <1>2. ResolversInv /\ Records /\ [ResolversNext]_resolverVars => Records'
    <2> SUFFICES ASSUME ResolversInv, Records, [ResolversNext]_resolverVars
                 PROVE  Records'
      OBVIOUS
    <2>1. CASE ResolverCalls BY <2>1, RecordsCallsKeep
    <2>2. CASE UNCHANGED networkVars BY <2>2, RecordsUnchanged
    <2> QED BY <2>1, <2>2 DEF ResolversNext, resolverVars
  <1>3. ResolversInv /\ Records => NetworkRecords
    BY DEF ResolversInv, NetworkInv, Records, NetworkRecords
  <1> QED BY <1>1, <1>2, <1>3, ResolversKept, PTL DEF ResolversSpec

-----------------------------------------------------------------------------
(* The refinement.                                                         *)

\* A step that leaves the two mapped sets alone is a stutter of the network.
LEMMA NetworkStutter ==
  ASSUME DOMAIN resolvers' = DOMAIN resolvers,
         Range(activeResolversIds)' = Range(activeResolversIds)
  PROVE  [Network!Next]_(Network!vars)
  BY DEF Network!vars

\* An application registers its caller; a delegation activates its resolver
\* or, below the required stake or above it for the second time, stutters.
LEMMA NetworkStep ==
  ASSUME ResolversInv, [ResolversNext]_resolverVars
  PROVE  [Network!Next]_(Network!vars)
  <1>1. NetworkTypeOK /\ RegistryExact BY DEF ResolversInv, NetworkInv
  <1>2. ASSUME NEW a \in Accounts, ApplyToBeResolver(a)
        PROVE  Network!Register(a)
    <2>1. /\ a \notin DOMAIN resolvers
          /\ DOMAIN resolvers' = DOMAIN resolvers \cup {a}
          /\ activeResolversIds' = activeResolversIds
      BY <1>2 DEF ApplyToBeResolver, IsResolver, SetResolver
    <2> QED BY <2>1 DEF Network!Register
  <1>3. ASSUME NEW sender \in Accounts, NEW a \in Accounts, NEW amount \in Amounts,
               StakeToResolver(sender, a, amount)
        PROVE  [Network!Next]_(Network!vars)
    <2> DEFINE r == Delegated(resolvers[a], sender, amount)
    <2>1. /\ a \in DOMAIN resolvers
          /\ resolvers' = SetResolver(r.account, r)
          /\ activeResolversIds' =
                 IF r.staked >= ResolverActiveRequiredAmount
                 THEN Append(activeResolversIds, r.account) ELSE activeResolversIds
      BY <1>3 DEF StakeToResolver, Listed, IsResolver
    <2>2. r.account = a
      <3>1. resolvers[a] \in Resolver /\ resolvers[a].account = a
        BY <1>1, <2>1 DEF NetworkTypeOK, RegistryExact
      <3>2. amount \in Balance BY BalancesAssumption DEF Balance
      <3> QED BY <3>1, <3>2, DelegatedResolver
    <2>3. DOMAIN resolvers' = DOMAIN resolvers
      BY <2>1, <2>2 DEF SetResolver
    <2>4. Range(Append(activeResolversIds, a)) = Range(activeResolversIds) \cup {a}
      BY <1>1, RangeAppend DEF NetworkTypeOK
    <2> HIDE DEF r
    <2>5. CASE Range(activeResolversIds') = Range(activeResolversIds)
      BY <2>3, <2>5, NetworkStutter
    <2>6. CASE Range(activeResolversIds') # Range(activeResolversIds)
      <3>1. activeResolversIds' = Append(activeResolversIds, a)
        BY <2>1, <2>2, <2>6
      <3>2. a \notin Range(activeResolversIds)
        BY <2>4, <2>6, <3>1
      <3>3. Network!Activate(a)
        BY <2>1, <2>3, <2>4, <3>1, <3>2 DEF Network!Activate
      <3> QED BY <3>3 DEF Network!Next
    <2> QED BY <2>5, <2>6
  <1>4. ASSUME UNCHANGED networkVars
        PROVE  [Network!Next]_(Network!vars)
    BY <1>4, NetworkStutter DEF networkVars
  <1>5. CASE ResolverCalls
    <2>1. ASSUME NEW a \in Accounts, UnstakeFromResolver(a)
          PROVE  UNCHANGED networkVars
      BY <2>1 DEF UnstakeFromResolver, networkVars
    <2>2. ASSUME NEW a \in Accounts, ApplyToBeResolver(a)
          PROVE  [Network!Next]_(Network!vars)
      BY <1>2, <2>2 DEF Network!Next
    <2> QED BY <1>3, <1>4, <1>5, <2>1, <2>2 DEF ResolverCalls
  <1>6. CASE BalancesNext /\ UNCHANGED networkVars BY <1>4, <1>6
  <1>7. CASE UNCHANGED resolverVars BY <1>4, <1>7 DEF resolverVars
  <1> QED BY <1>5, <1>6, <1>7 DEF ResolversNext

\* Before the first application nobody is registered.
LEMMA ResolversInitNetwork ==
  ASSUME ResolversInit
  PROVE  Network!Init
  <1>1. DOMAIN resolvers = {} /\ activeResolversIds = <<>> /\ DOMAIN <<>> = {}
    BY DEF ResolversInit
  <1> QED BY <1>1 DEF Network!Init, Range

\* The stored map and lists implement the abstract network.
THEOREM ResolversImplementNetwork == ResolversSpec => ImplementsNetwork
  <1>1. ResolversInit => Network!Init BY ResolversInitNetwork
  <1>2. ResolversInit => ResolversInv BY ResolversInitInv
  <1>3. ResolversInv /\ [ResolversNext]_resolverVars => ResolversInv'
    BY ResolversNextKeeps
  <1>4. ResolversInv /\ [ResolversNext]_resolverVars => [Network!Next]_(Network!vars)
    BY NetworkStep
  <1> QED BY <1>1, <1>2, <1>3, <1>4, PTL DEF ResolversSpec, ImplementsNetwork, Network!Spec
=============================================================================
