------------------------------- MODULE Pages -------------------------------
(* The pages of the application as mirrors of the chain: the effects that  *)
(* subscribe to storage when a page is mounted or what it depends on has   *)
(* changed, their cleanup, and the callbacks that set the state shown.     *)
(*                                                                         *)
(* A subscription is a promise: the handle that ends it is stored when the *)
(* first value arrives. A cleanup before that finds no handle and ends     *)
(* nothing: the subscription stays and goes on calling back (a leak). The  *)
(* API calls back by a timer of zero, in the order values arrive (timers). *)
(* React runs the effects of a render before it takes the next update, so  *)
(* an update and the effects it triggers are one step. Callbacks into a    *)
(* page no longer mounted set no state and are dropped with the page.      *)
EXTENDS Session, Sequences

CONSTANTS
    Payments,       \* ids of payments
    Disputes,       \* ids of disputes
    Involves,       \* Involves[d]: the payment dispute d is about
    RouteId,        \* the payment of the route /payments/:id
    NoValue,        \* nothing received yet: null, or a promise pending
    Views,          \* what a behaviour follows: slots, with their first and
                    \* second effects, for so many steps of the user
    MaxChanges,     \* storage changes
    MaxTimers       \* callbacks waiting in the event loop

(* The effects of each page that read storage: the slot of component state *)
(* they fill, where it is mounted, the key of its first subscription, and  *)
(* the slots whose delivery (refetchedBy) or whose tab (byTab) re-runs the *)
(* second effect, which reads the records named by the first.              *)
PaymentsPage ==
    [slot |-> "owned", path |-> "/", key |-> "account",
     refetchedBy |-> {"owned"}, byTab |-> FALSE]

PayHistoryPage ==
    [slot |-> "history", path |-> "/order-history", key |-> "account",
     refetchedBy |-> {"history"}, byTab |-> FALSE]

ResolversPage ==
    [slot |-> "resolvers", path |-> "/resolvers", key |-> "chain",
     refetchedBy |-> {"resolvers"}, byTab |-> FALSE]

AssignedDisputes ==
    [slot |-> "assigned", path |-> "/disputes", key |-> "account",
     refetchedBy |-> {"assigned"}, byTab |-> TRUE]

(* The records of the involved disputes depend on disputeIds, the list of  *)
(* the assigned ones, not on involvedDisputeIds.                           *)
InvolvedDisputes ==
    [slot |-> "involved", path |-> "/disputes", key |-> "account",
     refetchedBy |-> {"assigned"}, byTab |-> TRUE]

(* The dialog of one dispute; its second effect reads the payment.         *)
DisputeDetail ==
    [slot |-> "detail", path |-> "/disputes", key |-> "dispute",
     refetchedBy |-> {"detail"}, byTab |-> FALSE]

ProcessPaymentPage ==
    [slot |-> "payment", path |-> "/payments/:id", key |-> "route",
     refetchedBy |-> {}, byTab |-> FALSE]

(* The balance in the sidebar, on every page that has one.                 *)
SidebarBalance ==
    [slot |-> "balance", path |-> "sidebar", key |-> "account",
     refetchedBy |-> {}, byTab |-> FALSE]

Effects ==
    {PaymentsPage, PayHistoryPage, ResolversPage, AssignedDisputes, InvolvedDisputes,
     DisputeDetail, ProcessPaymentPage, SidebarBalance}

Slots == {e.slot : e \in Effects}
EffectOf(slot) == CHOOSE e \in Effects : e.slot = slot
Keyed(key) == {e.slot : e \in {f \in Effects : f.key = key}}
Listing == {"owned", "history", "resolvers", "assigned", "involved"}
TwoLevel == {e.slot : e \in {f \in Effects : f.refetchedBy # {}}}

ASSUME PagesAssumption ==
    /\ Views \subseteq [first : SUBSET Slots, second : SUBSET TwoLevel, moves : Nat]
    /\ \A view \in Views : view.second \subseteq view.first
    /\ Involves \in [Disputes -> Payments]
    /\ RouteId \in Payments
    /\ MaxChanges \in Nat /\ MaxTimers \in Nat

VARIABLES
    lists,      \* chain: the list of ids stored for a slot and a key
    version,    \* chain: the version of each record stored
    changes,    \* storage changes so far
    watched,    \* the view followed; pages share only the session
    moves,      \* steps of the user so far
    subs,       \* subscriptions made
    timers,     \* callbacks the event loop will run
    first,      \* component state the first subscription of a slot fills
    second,     \* component state the second subscription fills
    detail,     \* selectedDispute of the Disputes page
    tab         \* selectedTab of the Disputes page

pageVars == <<subs, timers, first, second, detail, tab>>
chainVars == <<lists, version, changes, watched>>
vars == <<sessionVars, pageVars, chainVars, moves>>

UserMoves == moves < watched.moves /\ moves' = moves + 1

NoDispute == "none"
Keys == Accounts \cup {"chain"}
Tabs == {"Assigned Disputes", "Involved Disputes"}

(* What a list may name, and every record: of an account, its balance and  *)
(* its entry as a resolver.                                                *)
Lists == watched.first \cap Listing
Named(slot) ==
    CASE slot \in {"assigned", "involved"} -> Disputes
      [] slot = "resolvers" -> Accounts
      [] OTHER -> Payments
RecordsOf(slot) ==
    CASE slot = "balance" -> Accounts
      [] slot = "detail" -> Disputes \cup Payments
      [] OTHER -> Named(slot)
Records == UNION {RecordsOf(slot) : slot \in watched.first}

(* What the chain answers: to a first subscription the list of its key, the*)
(* dispute with its payment, or one record; to a second one the records of *)
(* the ids asked for, in their order.                                      *)
Stored(s) ==
    IF s.level = 2 THEN [i \in DOMAIN s.key |-> <<s.key[i], version[s.key[i]]>>]
    ELSE CASE s.slot \in Listing -> lists[s.slot][s.key]
           [] s.slot = "detail" -> <<Involves[s.key], version[s.key]>>
           [] OTHER -> <<s.key, version[s.key]>>

(* The ids the second effect of a slot asks for.                           *)
Refs(slot, value) ==
    IF value = NoValue THEN <<>> ELSE IF slot = "detail" THEN <<value[1]>> ELSE value

Sub(slot, level, key) ==
    [slot |-> slot, level |-> level, key |-> key, seen |-> NoValue, cleaned |-> FALSE]

Pending(s) == s.seen = NoValue
Leaked(slot) == {s \in subs : s.slot = slot /\ s.cleaned}

(* The cleanup of an effect: unsub && unsub().                             *)
Cleanup(S) == {[s EXCEPT !.cleaned = TRUE] : s \in {t \in S : Pending(t) \/ t.cleaned}}

\* Slip: the effect returns no cleanup.
RerunWithoutCleanup(S, slots, level, new) == S \cup new

(* The effects chosen by slot and level run again: cleanup, then the new   *)
(* subscriptions, each with the key of this render.                        *)
Rerun(S, slots, level, new) ==
    LET old == {s \in S : s.slot \in slots /\ s.level = level}
    IN  (S \ old) \cup Cleanup(old) \cup new

(* What is mounted, and what an effect keyed by account, route or dispute  *)
(* subscribes to.                                                          *)
MountedOn(as, ks, p, d) ==
    IF ~Shows(as, ks) THEN {}
    ELSE {slot \in watched.first :
            LET e == EffectOf(slot)
            IN  \/ e.path = p /\ (e.key = "dispute" => d # NoDispute)
                \/ e.path = "sidebar" /\ Routes[p].sidebar}

Mounted == MountedOn(apiState, keyringState, path, detail)

KeyOf(slot, a, d) ==
    CASE EffectOf(slot).key = "account" -> a
      [] EffectOf(slot).key = "dispute" -> d
      [] EffectOf(slot).key = "route" -> RouteId
      [] OTHER -> "chain"

(* The first run of the effects of slots just mounted. An effect keyed by  *)
(* account does nothing without one.                                       *)
FirstSubs(slots, a, d) ==
    {Sub(slot, 1, KeyOf(slot, a, d)) : slot \in {t \in slots : KeyOf(t, a, d) # NoAccount}}

SecondSubs(slots, f) ==
    {Sub(slot, 2, Refs(slot, f[slot])) :
        slot \in {t \in slots \cap watched.second : t # "detail" \/ f[t] # NoValue}}

Empty(slot) == IF slot \in Listing THEN <<>> ELSE NoValue

(* The callbacks into slots that stay mounted, in their order.             *)
TimersOf(slots) ==
    LET kept[i \in 0 .. Len(timers)] ==
            CASE i = 0 -> <<>>
              [] i > 0 /\ timers[i].slot \in slots -> Append(kept[i - 1], timers[i])
              [] OTHER -> kept[i - 1]
    IN  kept[Len(timers)]

\* Slip: the effects of what is unmounted are not cleaned up.
RemountedKeeping ==
    LET is == MountedOn(apiState', keyringState', path', detail')
        stay == is \cap Mounted
    IN  /\ first' = [slot \in Slots |-> IF slot \in stay THEN first[slot] ELSE Empty(slot)]
        /\ second' = [slot \in Slots |-> IF slot \in stay THEN second[slot] ELSE <<>>]
        /\ timers' = TimersOf(stay)
        /\ subs' = subs \cup FirstSubs(is \ stay, account', detail')

(* A step of the session or of the dialog mounts some slots, with fresh    *)
(* state, and unmounts others. The effects of the slots mounted run with   *)
(* the account App still has; then the account selected by a remounted     *)
(* selector re-runs the effects keyed by account.                          *)
Remounted ==
    LET is == MountedOn(apiState', keyringState', path', detail')
        stay == is \cap Mounted
        byAccount == is \cap Keyed("account")
        kept == {s \in subs : s.slot \in stay}
        mounted == kept \cup FirstSubs(is \ stay, account, detail')
                        \cup SecondSubs(is \ stay, first')
    IN  /\ first' = [slot \in Slots |-> IF slot \in stay THEN first[slot] ELSE Empty(slot)]
        /\ second' = [slot \in Slots |-> IF slot \in stay THEN second[slot] ELSE <<>>]
        /\ timers' = TimersOf(stay)
        /\ subs' = IF account' = account THEN mounted
                   ELSE Rerun(mounted, byAccount, 1, FirstSubs(byAccount, account', detail'))

(* The state of the Disputes page is lost when the page is.                *)
DisputesStay == Shown /\ Shows(apiState', keyringState') /\ path' = path

SessionStep ==
    /\ \/ /\ \/ ProviderRenders \/ KeyringLoads \/ KeyringFails
             \/ SocketOpens \/ ApiReady \/ SocketCloses \/ SocketError
          /\ UNCHANGED moves
       \/ UserMoves /\ \E a \in Accounts : SelectAccount(a)
       \/ UserMoves /\ \E p \in Paths : Navigate(p)
    /\ detail' = IF DisputesStay THEN detail ELSE NoDispute
    /\ tab' = IF DisputesStay THEN tab ELSE "Assigned Disputes"
    /\ Remounted
    /\ UNCHANGED chainVars

Init ==
    /\ SessionInit
    /\ lists = [slot \in Listing |-> [k \in Keys |-> <<>>]]
    /\ version = [r \in Payments \cup Disputes \cup Accounts |-> 0]
    /\ changes = 0
    /\ watched \in Views
    /\ moves = 0
    /\ subs = {}
    /\ timers = <<>>
    /\ first = [slot \in Slots |-> Empty(slot)]
    /\ second = [slot \in Slots |-> <<>>]
    /\ detail = NoDispute
    /\ tab = "Assigned Disputes"

(* The chain: a list grows, a record changes.                              *)
ListGrows(slot, k, r) ==
    /\ changes < MaxChanges
    /\ r \in Named(slot) /\ (k = "chain") = (slot = "resolvers")
    /\ \A i \in DOMAIN lists[slot][k] : lists[slot][k][i] # r
    /\ lists' = [lists EXCEPT ![slot][k] = Append(@, r)]
    /\ changes' = changes + 1
    /\ UNCHANGED <<version, watched, moves, sessionVars, pageVars>>

RecordChanges(r) ==
    /\ changes < MaxChanges
    /\ version' = [version EXCEPT ![r] = @ + 1]
    /\ changes' = changes + 1
    /\ UNCHANGED <<lists, watched, moves, sessionVars, pageVars>>

(* The node answers a subscription, the first time or because its value    *)
(* changed: the handle is there, the callback waits in the event loop.     *)
Receive(s) ==
    /\ link /\ Len(timers) < MaxTimers
    /\ s.seen # Stored(s)
    /\ subs' = (subs \ {s}) \cup {[s EXCEPT !.seen = Stored(s)]}
    /\ timers' = Append(timers, [slot |-> s.slot, level |-> s.level, key |-> s.key,
                                seen |-> Stored(s)])
    /\ UNCHANGED <<first, second, detail, tab, moves, sessionVars, chainVars>>

\* Slip: the records are paired with the ids shown now.
PairsWithShownIds(t) ==
    [i \in DOMAIN t.key |->
        [id |-> LET ids == Refs(t.slot, first[t.slot])
                IN  IF i \in DOMAIN ids THEN ids[i] ELSE NoValue,
         record |-> t.seen[i]]]

(* setPaymentIds and its like: the state changes and with it the effects   *)
(* that depend on it. The records are paired with the ids of the render    *)
(* that subscribed to them.                                                *)
Pairs(t) == [i \in DOMAIN t.key |-> [id |-> t.key[i], record |-> t.seen[i]]]

Deliver ==
    LET t == Head(timers)
        again == {e.slot : e \in {f \in Effects : t.slot \in f.refetchedBy}} \cap watched.second
    IN  /\ timers # <<>>
        /\ timers' = Tail(timers)
        /\ \/ /\ t.level = 1
              /\ first' = [first EXCEPT ![t.slot] = t.seen]
              /\ subs' = Rerun(subs, again, 2, SecondSubs(again, first'))
              /\ UNCHANGED second
           \/ /\ t.level = 2
              /\ second' = [second EXCEPT ![t.slot] = Pairs(t)]
              /\ UNCHANGED <<first, subs>>
        /\ UNCHANGED <<detail, tab, moves, sessionVars, chainVars>>

(* The user chooses a tab of the Disputes page ...                         *)
ChooseTab(t) ==
    LET again == {e.slot : e \in {f \in Effects : f.byTab}} \cap watched.second
    IN  /\ "assigned" \in Mounted /\ detail = NoDispute
        /\ t # tab /\ UserMoves
        /\ tab' = t
        /\ subs' = Rerun(subs, again, 2, SecondSubs(again, first))
        /\ UNCHANGED <<timers, first, second, detail, chainVars, sessionVars>>

(* ... opens the detail of a dispute listed there, or closes it.           *)
RenderedDisputes == IF tab = "Assigned Disputes" THEN second["assigned"] ELSE second["involved"]

ViewDetail(d) ==
    /\ "assigned" \in Mounted /\ UserMoves
    /\ IF d = NoDispute THEN detail # NoDispute
       ELSE detail = NoDispute /\ \E i \in DOMAIN RenderedDisputes : RenderedDisputes[i].id = d
    /\ detail' = d
    /\ UNCHANGED <<tab, chainVars, sessionVars>>
    /\ Remounted

Next ==
    \/ SessionStep
    \/ \E slot \in Lists, k \in Keys, r \in Records : ListGrows(slot, k, r)
    \/ \E r \in Records : RecordChanges(r)
    \/ \E s \in subs : Receive(s)
    \/ Deliver
    \/ \E t \in Tabs : ChooseTab(t)
    \/ \E d \in Disputes \cup {NoDispute} : ViewDetail(d)

(* The network, the API, the event loop and the keyring go on; the user,   *)
(* the chain and the faults need not.                                      *)
Fairness ==
    /\ WF_vars(ProviderRenders /\ SessionStep)
    /\ WF_vars((KeyringLoads \/ KeyringFails) /\ SessionStep)
    /\ WF_vars(SocketOpens /\ SessionStep)
    /\ WF_vars(ApiReady /\ SessionStep)
    /\ WF_vars(\E s \in subs : Receive(s))
    /\ WF_vars(Deliver)

Spec == Init /\ [][Next]_vars /\ Fairness

(***************************************************************************)
(* Properties.                                                             *)
(***************************************************************************)

PagesTypeOK ==
    /\ apiState \in {"null", "CONNECT_INIT", "CONNECTING", "READY", "ERROR"}
    /\ keyringState \in {"null", "LOADING", "READY", "ERROR"}
    /\ link \in BOOLEAN /\ apiReady \in BOOLEAN
    /\ path \in Paths
    /\ account \in Accounts \cup {NoAccount}
    /\ selected \in Accounts \cup {NoAccount}
    /\ \A s \in subs : s.slot \in Mounted /\ s.level \in {1, 2} /\ s.cleaned \in BOOLEAN
    /\ Len(timers) <= MaxTimers
    /\ detail \in Disputes \cup {NoDispute}
    /\ tab \in Tabs

(* The account the selector shows is the one App hands to the pages, also  *)
(* after the pages were taken down by a reconnection or the selector by a  *)
(* route without it (AccountSelector.js:26-36, App.js:37-40).              *)
SelectorAgrees ==
    SelectorShown(apiState, keyringState, path) => selected = account /\ account # NoAccount

(* Each mounted effect holds exactly one subscription it will clean up, and*)
(* it is the one for the account selected now (for the records: for the    *)
(* list shown now), whatever was selected, delivered or reconnected before *)
(* (Payments.js:28-69 and the like). The exception is the records of the   *)
(* involved disputes, which another list re-runs.                          *)
HoldsOneSubscription ==
    \A slot \in Mounted :
        /\ KeyOf(slot, account, detail) # NoAccount =>
             {s.key : s \in {t \in subs : t.slot = slot /\ t.level = 1 /\ ~t.cleaned}}
                = {KeyOf(slot, account, detail)}
        /\ slot \in EffectOf(slot).refetchedBy \cap watched.second /\ first[slot] # NoValue =>
             {s.key : s \in {t \in subs : t.slot = slot /\ t.level = 2 /\ ~t.cleaned}}
                = {Refs(slot, first[slot])}
        /\ \A s, t \in subs : s.slot = slot /\ t.slot = slot /\ s.level = t.level
                             /\ ~s.cleaned /\ ~t.cleaned => s = t

(* Once a current subscription has called back, and no earlier one of its  *)
(* slot leaked, the state shown is what it received.                       *)
Waiting(slot, level) ==
    \E i \in DOMAIN timers : timers[i].slot = slot /\ timers[i].level = level

ShowsItsSubscription ==
    \A s \in subs :
        (~Pending(s) /\ ~s.cleaned /\ ~Waiting(s.slot, s.level) /\ Leaked(s.slot) = {}) =>
            IF s.level = 1 THEN first[s.slot] = s.seen
            ELSE second[s.slot] = Pairs(s)

(* A page shows nothing of another account: both, for every effect.        *)
OneCurrentSubscription == HoldsOneSubscription /\ ShowsItsSubscription

(* Every record is shown under its own id, whichever subscription, current *)
(* or leaked, delivered it (Payments.js:54-55, Disputes.js:55-56).         *)
RecordsPaired ==
    \A slot \in TwoLevel : \A i \in DOMAIN second[slot] :
        second[slot][i].record[1] = second[slot][i].id

(* If no attempt to connect fails and the keyring loads, the pages come    *)
(* back after every reconnection and end up showing what the chain stores  *)
(* for the account selected, in every slot without a leaked subscription.  *)
UpToDate(slot) ==
    /\ KeyOf(slot, account, detail) # NoAccount =>
         first[slot] = Stored(Sub(slot, 1, KeyOf(slot, account, detail)))
    /\ slot \in EffectOf(slot).refetchedBy \cap watched.second /\ first[slot] # NoValue =>
         LET s == Sub(slot, 2, Refs(slot, first[slot]))
         IN  second[slot] = Pairs([s EXCEPT !.seen = Stored(s)])

EventuallyMirrors ==
    ([]~Crashed /\ []<>(keyringState = "READY"))
        => <>[](Shown /\ \A slot \in Mounted : Leaked(slot) = {} => UpToDate(slot))
=============================================================================
