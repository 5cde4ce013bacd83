----------------------------- MODULE Resolvers -----------------------------
(***************************************************************************)
(* The resolver network of the p2p-payment pallet: an account applies with *)
(* an initial stake, the community delegates to it, and from the required  *)
(* amount on it is Active and can be drawn for a dispute.                  *)
(*                                                                         *)
(* Name and application text are left out: no code reads them.             *)
(***************************************************************************)
EXTENDS Balances, Sequences, FiniteSets

CONSTANTS
    ResolverInitialAmount,        \* locked by apply_to_be_resolver
    ResolverActiveRequiredAmount, \* from this stake on a resolver is Active
    RandomBytes,                  \* how many values the random byte takes: 256
    MaxResolvers,                 \* bound of the model: resolvers
    MaxDelegations                \* bound of the model: delegations to a resolver

ASSUME ResolversAssumption ==
    /\ ResolverInitialAmount \in 1 .. MaxBalance
    /\ ResolverActiveRequiredAmount \in Nat
    /\ ResolverInitialAmount < ResolverActiveRequiredAmount
    /\ RandomBytes \in Nat \ {0}
    /\ MaxResolvers \in Nat
    /\ MaxDelegations \in Nat

VARIABLES
    resolvers,         \* Resolvers: account -> resolver
    allResolvers,      \* AllResolvers
    activeResolversIds \* ActiveResolversIds

networkVars == <<resolvers, allResolvers, activeResolversIds>>
resolverVars == <<balanceVars, networkVars>>

ResolverStatus == {"Canditate", "Active"}   \* nothing sets Banned

ResolverDelegator == [account : Accounts, amount : Balance]

Resolver ==
    [account : Accounts, staked : Nat, delegators : Seq(ResolverDelegator),
     status : ResolverStatus]

ResolversTypeOK ==
    /\ BalancesTypeOK
    /\ DOMAIN resolvers \subseteq Accounts
    /\ resolvers \in [DOMAIN resolvers -> Resolver]
    /\ allResolvers \in Seq(Accounts)
    /\ activeResolversIds \in Seq(Accounts)

\* The genesis configuration names no resolver that build() would store.
ResolversInit ==
    /\ BalancesInit
    /\ resolvers = [a \in {} |-> <<>>]
    /\ allResolvers = <<>>
    /\ activeResolversIds = <<>>

IsResolver(a) == a \in DOMAIN resolvers

SetResolver(a, resolver) ==
    [x \in DOMAIN resolvers \cup {a} |->
        IF x = a THEN resolver ELSE resolvers[x]]

-----------------------------------------------------------------------------
(* The calls.                                                              *)

\* Slip: an account may apply again.
ApplyToBeResolverAgain(a) ==
    /\ CanPayFee(a)
    /\ Len(allResolvers) < MaxResolvers
    /\ AfterFee(a)[a] >= ResolverInitialAmount
    /\ free' = AfterFee(a)
    /\ locks' = SetLock(a, "resolver", ResolverInitialAmount)
    /\ resolvers' = SetResolver(a,
            [account |-> a, staked |-> ResolverInitialAmount,
             delegators |-> <<>>, status |-> "Canditate"])
    /\ allResolvers' = Append(allResolvers, a)
    /\ UNCHANGED activeResolversIds

\* Slip: a candidate is listed for the draw at once.
ApplyToBeResolverListed(a) ==
    /\ CanPayFee(a)
    /\ ~ IsResolver(a)
    /\ Len(allResolvers) < MaxResolvers
    /\ AfterFee(a)[a] >= ResolverInitialAmount
    /\ free' = AfterFee(a)
    /\ locks' = SetLock(a, "resolver", ResolverInitialAmount)
    /\ resolvers' = SetResolver(a,
            [account |-> a, staked |-> ResolverInitialAmount,
             delegators |-> <<>>, status |-> "Canditate"])
    /\ allResolvers' = Append(allResolvers, a)
    /\ activeResolversIds' = Append(activeResolversIds, a)

ApplyToBeResolver(a) ==
    /\ CanPayFee(a)
    /\ ~ IsResolver(a)
    /\ Len(allResolvers) < MaxResolvers
    /\ AfterFee(a)[a] >= ResolverInitialAmount
    /\ free' = AfterFee(a)
    /\ locks' = SetLock(a, "resolver", ResolverInitialAmount)
    /\ resolvers' = SetResolver(a,
            [account |-> a, staked |-> ResolverInitialAmount,
             delegators |-> <<>>, status |-> "Canditate"])
    /\ allResolvers' = Append(allResolvers, a)
    /\ UNCHANGED activeResolversIds

Delegation(sender, amount) == [account |-> sender, amount |-> amount]

\* Slips: the status follows the stake before the delegation; a delegator's
\* new entry replaces its old.
DelegatedStale(resolver, sender, amount) ==
    [resolver EXCEPT
        !.staked = @ + amount,
        !.delegators = Append(@, Delegation(sender, amount)),
        !.status = IF resolver.staked >= ResolverActiveRequiredAmount
                   THEN "Active" ELSE @]

DelegatedReplacing(resolver, sender, amount) ==
    [resolver EXCEPT
        !.staked = @ + amount,
        !.delegators = Append(SelectSeq(@, LAMBDA e : e.account # sender),
                              Delegation(sender, amount)),
        !.status = IF resolver.staked + amount >= ResolverActiveRequiredAmount
                   THEN "Active" ELSE @]

Delegated(resolver, sender, amount) ==
    [resolver EXCEPT
        !.staked = @ + amount,
        !.delegators = Append(@, Delegation(sender, amount)),
        !.status = IF resolver.staked + amount >= ResolverActiveRequiredAmount
                   THEN "Active" ELSE @]

\* Slip: the list is replaced.
ListedAlone(resolver) ==
    IF resolver.staked >= ResolverActiveRequiredAmount
    THEN <<resolver.account>>
    ELSE activeResolversIds

\* Every delegation that leaves the resolver at or above the required stake
\* lists it once more, whether or not it was Active already.
Listed(resolver) ==
    IF resolver.staked >= ResolverActiveRequiredAmount
    THEN Append(activeResolversIds, resolver.account)
    ELSE activeResolversIds

StakeToResolver(sender, a, amount) ==
    LET resolver == Delegated(resolvers[a], sender, amount)
    IN  /\ CanPayFee(sender)
        /\ AfterFee(sender)[sender] >= amount
        /\ IsResolver(a)
        /\ Len(resolvers[a].delegators) < MaxDelegations
        /\ free' = AfterFee(sender)
        /\ locks' = SetLock(sender, "delegate", amount)
        /\ activeResolversIds' = Listed(resolver)
        /\ resolvers' = SetResolver(resolver.account, resolver)
        /\ UNCHANGED allResolvers

\* unstake_from_resolver only deposits an event: neither stake nor lock moves.
UnstakeFromResolver(sender) ==
    /\ CanPayFee(sender)
    /\ free' = AfterFee(sender)
    /\ UNCHANGED <<locks, networkVars>>

ResolverCalls ==
    \E a \in Accounts :
        \/ ApplyToBeResolver(a)
        \/ UnstakeFromResolver(a)
        \/ \E b \in Accounts, amount \in Amounts : StakeToResolver(a, b, amount)

ResolversNext ==
    \/ ResolverCalls
    \/ BalancesNext /\ UNCHANGED networkVars

ResolversSpec == ResolversInit /\ [][ResolversNext]_resolverVars

-----------------------------------------------------------------------------
(* get_resolver: the first random byte, modulo the number of entries.      *)

\* Slip: the draw is made among all resolvers.
DrawAny(byte) == resolvers[allResolvers[(byte % Len(allResolvers)) + 1]]

\* The Rust index is random_num, from 0; with no entry the remainder panics.
Draw(byte) == resolvers[activeResolversIds[(byte % Len(activeResolversIds)) + 1]]

CanDraw == activeResolversIds # <<>>

Drawable == {Draw(byte).account : byte \in 0 .. RandomBytes - 1}

ActiveResolvers == {a \in DOMAIN resolvers : resolvers[a].status = "Active"}

-----------------------------------------------------------------------------
(* Properties of the resolver network.                                     *)

\* What the first n delegations bring a resolver to.
StakeAfter(resolver, n) ==
    ResolverInitialAmount +
        SumFunctionOnSet([i \in DOMAIN resolver.delegators |->
                                    resolver.delegators[i].amount], 1 .. n)

\* The stake of a resolver is its initial stake plus every delegation it ever
\* got: no call loses, doubles or takes back one.
StakeAccounted ==
    \A a \in DOMAIN resolvers :
        resolvers[a].staked =
            StakeAfter(resolvers[a], Len(resolvers[a].delegators))

\* The list of all resolvers has every registered account, once.
RegistryExact ==
    /\ Range(allResolvers) = DOMAIN resolvers
    /\ IsInjective(allResolvers)
    /\ \A a \in DOMAIN resolvers : resolvers[a].account = a

\* The three places that say a resolver is Active agree: its status, its
\* stake, and the list the draw is made from.
ActiveAgrees ==
    \A a \in Accounts :
        LET active == a \in Range(activeResolversIds)
        IN  /\ active => IsResolver(a)
            /\ IsResolver(a) =>
                  /\ active <=> resolvers[a].status = "Active"
                  /\ active <=> resolvers[a].staked >= ResolverActiveRequiredAmount

\* How often the draw lists a resolver: once for each of its delegations that
\* ended at or above the required stake, the weight its draws have.
DrawWeight ==
    \A a \in DOMAIN resolvers :
        Cardinality({i \in DOMAIN activeResolversIds : activeResolversIds[i] = a})
      = Cardinality({n \in DOMAIN resolvers[a].delegators :
            StakeAfter(resolvers[a], n) >= ResolverActiveRequiredAmount})

\* Stakes, registry and draw list are what the applications and delegations
\* made of them.
NetworkRecords == StakeAccounted /\ RegistryExact /\ DrawWeight

\* Whatever the random byte, a draw from a non-empty list finds a registered
\* and Active resolver: get_resolver never returns None.
DrawsActive ==
    CanDraw => Drawable \subseteq ActiveResolvers

\* A registered resolver keeps its initial stake on its account, whatever it
\* pays, delegates or transfers, and nobody else has that lock.
ResolverBonded ==
    \A a \in Accounts :
        locks[a]["resolver"] = IF IsResolver(a) THEN ResolverInitialAmount ELSE 0

\* What is locked for delegation is the amount of a delegation its account
\* made to a registered resolver.
DelegationTraceable ==
    \A a \in Accounts :
        locks[a]["delegate"] > 0 =>
            \E r \in DOMAIN resolvers :
                Delegation(a, locks[a]["delegate"])
                    \in Range(resolvers[r].delegators)

\* A resolver, once registered, stays, keeps its delegations in order, and is
\* never demoted: the only way through the network is up.
GrowthStep ==
    \A a \in DOMAIN resolvers :
        /\ a \in DOMAIN resolvers'
        /\ resolvers[a].status = "Active" => resolvers'[a].status = "Active"
        /\ resolvers'[a].staked >= resolvers[a].staked
        /\ \A i \in DOMAIN resolvers[a].delegators :
              resolvers'[a].delegators[i] = resolvers[a].delegators[i]

NetworkGrows == [][GrowthStep]_resolverVars

\* The network as a resolver's user understands it.
Network == INSTANCE ResolverNetwork
              WITH registered <- DOMAIN resolvers,
                   active <- Range(activeResolversIds)

\* The stored maps and lists implement it: accounts register one at a time
\* and only registered ones become active, one at a time, for good.
ImplementsNetwork == Network!Spec

\* Refuted: an Active resolver has, besides its own stake, delegations that
\* tokens of other accounts stand for.
BackersOf(a) ==
    {b \in Accounts \ {a} : \E i \in DOMAIN resolvers[a].delegators :
                                resolvers[a].delegators[i].account = b}

CommunityBacked ==
    \A a \in ActiveResolvers :
        ResolverInitialAmount +
            SumFunctionOnSet([b \in Accounts |-> locks[b]["delegate"]],
                              BackersOf(a))
          >= ResolverActiveRequiredAmount
=============================================================================
