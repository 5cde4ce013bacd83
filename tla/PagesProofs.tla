---------------------------- MODULE PagesProofs ----------------------------
(* The pages mirror the chain for any accounts, payments, disputes, views,  *)
(* numbers of reconnections, of storage changes and of waiting callbacks:   *)
(* one current subscription per effect, what it brought on the screen, and  *)
(* every record under its own id.                                           *)
EXTENDS Pages, DataFacts

(***************************************************************************)
(* The inductive invariant.                                                *)
(***************************************************************************)

About(t, slot, level) == t.slot = slot /\ t.level = level

\* Among the first n callbacks of q none, or the last one of these, is the
\* one that brings this value of this key.
NoneFor(q, n, slot, level) == \A i \in 1 .. n : ~About(q[i], slot, level)
LastFor(q, n, slot, level, key, seen) ==
    \E i \in 1 .. n :
        /\ About(q[i], slot, level) /\ q[i].key = key /\ q[i].seen = seen
        /\ \A j \in i + 1 .. n : ~About(q[j], slot, level)

SubFields == {"slot", "level", "key", "seen", "cleaned"}

StateShaped ==
    /\ apiState \in {"null", "CONNECT_INIT", "CONNECTING", "READY", "ERROR"}
    /\ keyringState \in {"null", "LOADING", "READY", "ERROR"}
    /\ link \in BOOLEAN /\ apiReady \in BOOLEAN
    /\ path \in Paths
    /\ account \in Accounts \cup {NoAccount}
    /\ selected \in Accounts \cup {NoAccount}
    /\ detail \in Disputes \cup {NoDispute}
    /\ tab \in Tabs
    /\ watched \in Views
    /\ first = [slot \in Slots |-> first[slot]]
    /\ second = [slot \in Slots |-> second[slot]]

SubsShaped ==
    \A s \in subs :
        /\ DOMAIN s = SubFields
        /\ s.slot \in Mounted /\ s.level \in {1, 2} /\ s.cleaned \in BOOLEAN

TimersShaped ==
    /\ IsSeq(timers)
    /\ Len(timers) <= MaxTimers
    /\ \A i \in DOMAIN timers : timers[i].slot \in Mounted /\ timers[i].level \in {1, 2}

Displayed(s) == IF s.level = 1 THEN first[s.slot] = s.seen ELSE second[s.slot] = Pairs(s)

Arrives ==
    \A s \in subs :
        ~Pending(s) /\ ~s.cleaned /\ Leaked(s.slot) = {} =>
            \/ NoneFor(timers, Len(timers), s.slot, s.level) /\ Displayed(s)
            \/ LastFor(timers, Len(timers), s.slot, s.level, s.key, s.seen)

TimersPaired ==
    \A i \in DOMAIN timers : timers[i].level = 2 =>
        \A k \in DOMAIN timers[i].key : timers[i].seen[k][1] = timers[i].key[k]

\* What each effect will clean up.
Holds(s, slot, level) == s.slot = slot /\ s.level = level /\ ~s.cleaned

HeldIs(slot, level, key) ==
    /\ \E s \in subs : Holds(s, slot, level) /\ s.key = key
    /\ \A s \in subs : Holds(s, slot, level) => s.key = key

HoldsFirst ==
    \A slot \in Mounted :
        KeyOf(slot, account, detail) # NoAccount => HeldIs(slot, 1, KeyOf(slot, account, detail))

HoldsSecond ==
    \A slot \in Mounted :
        slot \in EffectOf(slot).refetchedBy \cap watched.second /\ first[slot] # NoValue =>
            HeldIs(slot, 2, Refs(slot, first[slot]))

HoldsOnce ==
    \A s, t \in subs : Holds(s, t.slot, t.level) /\ ~t.cleaned => s = t

SubsInv == SubsShaped /\ HoldsFirst /\ HoldsSecond /\ HoldsOnce
TimersInv == TimersShaped /\ TimersPaired
PagesInv == StateShaped /\ SubsInv /\ TimersInv /\ Arrives /\ RecordsPaired

(***************************************************************************)
(* The session.                                                            *)
(***************************************************************************)

SessionShaped ==
    /\ apiState \in {"null", "CONNECT_INIT", "CONNECTING", "READY", "ERROR"}
    /\ keyringState \in {"null", "LOADING", "READY", "ERROR"}
    /\ link \in BOOLEAN /\ apiReady \in BOOLEAN
    /\ path \in Paths
    /\ account \in Accounts \cup {NoAccount}
    /\ selected \in Accounts \cup {NoAccount}

\* Mounting or unmounting the selector keeps it in step with App.
LEMMA RemountAgrees ==
  ASSUME SessionShaped, SelectorAgrees, Remount
  PROVE  /\ account' \in Accounts \cup {NoAccount} /\ selected' \in Accounts \cup {NoAccount}
         /\ SelectorAgrees'
  <1> DEFINE was == SelectorShown(apiState, keyringState, path)
             is == SelectorShown(apiState', keyringState', path')
  <1>1. MountSelector(was, is) BY DEF Remount
  <1>2. was => selected = account /\ account # NoAccount BY DEF SelectorAgrees
  <1>3. SelectorAgrees' <=> (is => selected' = account' /\ account' # NoAccount)
    BY DEF SelectorAgrees
  <1> HIDE DEF was, is
  <1>4. was \in BOOLEAN /\ is \in BOOLEAN BY DEF was, is, SelectorShown, Shows
  <1> USE SessionAssumption DEF SessionShaped
  <1>5. CASE is /\ ~was BY <1>1, <1>3, <1>5 DEF MountSelector
  <1>6. CASE was /\ ~is BY <1>1, <1>3, <1>6 DEF MountSelector
  <1>7. CASE was <=> is BY <1>1, <1>2, <1>3, <1>7 DEF MountSelector
  <1> QED BY <1>4, <1>5, <1>6, <1>7

SessionMoves ==
    \/ ProviderRenders \/ KeyringLoads \/ KeyringFails
    \/ SocketOpens \/ ApiReady \/ SocketCloses \/ SocketError
    \/ \E a \in Accounts : SelectAccount(a)
    \/ \E p \in Paths : Navigate(p)

LEMMA SessionKeeps ==
  ASSUME SessionShaped, SelectorAgrees, SessionMoves
  PROVE  SessionShaped' /\ SelectorAgrees'
  <1> USE DEF SessionShaped
  <1>1. CASE ProviderRenders
    BY <1>1 DEF ProviderRenders, Connect, LoadAccounts, SelectorAgrees, SelectorShown, Shows
  <1>2. CASE KeyringLoads BY <1>2, RemountAgrees DEF KeyringLoads
  <1>3. CASE KeyringFails
    BY <1>3 DEF KeyringFails, SelectorAgrees, SelectorShown, Shows
  <1>4. CASE SocketOpens BY <1>4, RemountAgrees DEF SocketOpens
  <1>5. CASE ApiReady BY <1>5, RemountAgrees DEF ApiReady
  <1>6. CASE SocketCloses
    BY <1>6 DEF SocketCloses, SelectorAgrees, SelectorShown, Shows
  <1>7. CASE SocketError BY <1>7, RemountAgrees DEF SocketError
  <1>8. ASSUME NEW a \in Accounts, SelectAccount(a) PROVE SessionShaped' /\ SelectorAgrees'
    BY <1>8, SessionAssumption DEF SelectAccount, SelectorAgrees, SelectorShown, Shows
  <1>9. ASSUME NEW p \in Paths, Navigate(p) PROVE SessionShaped' /\ SelectorAgrees'
    BY <1>9, RemountAgrees DEF Navigate
  <1> QED
    BY <1>1, <1>2, <1>3, <1>4, <1>5, <1>6, <1>7, <1>8, <1>9 DEF SessionMoves

(***************************************************************************)
(* Effects, slots and subscriptions.                                       *)
(***************************************************************************)

LEMMA SlotEffect ==
  ASSUME NEW slot \in Slots
  PROVE  EffectOf(slot) \in Effects /\ EffectOf(slot).slot = slot
  BY DEF Slots, EffectOf

LEMMA DisputesEffects ==
  /\ EffectOf("assigned") = AssignedDisputes
  /\ EffectOf("involved") = InvolvedDisputes
  <1> USE DEF Effects, PaymentsPage, PayHistoryPage, ResolversPage, AssignedDisputes,
              InvolvedDisputes, DisputeDetail, ProcessPaymentPage, SidebarBalance
  <1>1. \A e \in Effects : e.slot = "assigned" => e = AssignedDisputes OBVIOUS
  <1>2. \A e \in Effects : e.slot = "involved" => e = InvolvedDisputes OBVIOUS
  <1>3. AssignedDisputes \in Effects /\ AssignedDisputes.slot = "assigned" OBVIOUS
  <1>4. InvolvedDisputes \in Effects /\ InvolvedDisputes.slot = "involved" OBVIOUS
  <1> QED BY <1>1, <1>2, <1>3, <1>4 DEF EffectOf

LEMMA SubShape ==
  \A slot, level, key :
    /\ DOMAIN Sub(slot, level, key) = SubFields
    /\ Sub(slot, level, key).slot = slot /\ Sub(slot, level, key).level = level
    /\ Sub(slot, level, key).key = key /\ Sub(slot, level, key).cleaned = FALSE
    /\ Pending(Sub(slot, level, key))
  BY DEF Sub, SubFields, Pending

(***************************************************************************)
(* The callbacks kept: a recursion along the queue.                        *)
(***************************************************************************)

LEMMA EmptyQueue == IsSeq(<<>>) /\ Len(<<>>) = 0 /\ DOMAIN <<>> = {}
  <1>1. <<>> \in Seq({}) OBVIOUS
  <1>2. Len(<<>>) = 0 /\ DOMAIN <<>> = 1 .. 0 BY <1>1, LenProperties
  <1> QED BY <1>1, <1>2 DEF IsSeq

KeptStep(f, slots, i) ==
    CASE i = 0 -> <<>>
      [] i > 0 /\ timers[i].slot \in slots -> Append(f[i - 1], timers[i])
      [] OTHER -> f[i - 1]

KeptUpto(f, slots, n) == f = [i \in 0 .. n |-> KeptStep(f, slots, i)]

\* The recursion has a solution for every length.
LEMMA KeptExists ==
  ASSUME NEW slots, NEW len \in Nat
  PROVE  \E f : KeptUpto(f, slots, len)
  <1> DEFINE T == {n \in Nat : \E f : KeptUpto(f, slots, n)}
  <1>1. 0 \in T
    <2> DEFINE f == [i \in 0 .. 0 |-> <<>>]
    <2>1. \A i \in 0 .. 0 : KeptStep(f, slots, i) = <<>> BY DEF KeptStep
    <2>2. KeptUpto(f, slots, 0)
      <3>1. [i \in 0 .. 0 |-> KeptStep(f, slots, i)] = [i \in 0 .. 0 |-> <<>>] BY <2>1
      <3> QED BY <3>1 DEF KeptUpto
    <2> QED BY <2>2
  <1>2. ASSUME NEW n \in Nat, n \in T PROVE n + 1 \in T
    <2>1. PICK f : KeptUpto(f, slots, n) BY <1>2
    <2> DEFINE g == [i \in 0 .. n + 1 |-> KeptStep(f, slots, i)]
    <2>2. \A i \in 0 .. n : i \in 0 .. n + 1 OBVIOUS
    <2>3. \A i \in 0 .. n : f[i] = KeptStep(f, slots, i) BY <2>1 DEF KeptUpto
    <2>4. \A i \in 0 .. n : g[i] = f[i] BY <2>2, <2>3
    <2>5. g = [i \in 0 .. n + 1 |-> KeptStep(f, slots, i)] OBVIOUS
    <2> HIDE DEF g
    <2>6. \A i \in 0 .. n + 1 : KeptStep(g, slots, i) = KeptStep(f, slots, i)
      <3> TAKE i \in 0 .. n + 1
      <3>1. CASE i = 0 BY <3>1 DEF KeptStep
      <3>2. CASE i > 0
        <4>1. i - 1 \in 0 .. n BY <3>2
        <4>2. g[i - 1] = f[i - 1] BY <2>4, <4>1
        <4> QED BY <3>2, <4>2 DEF KeptStep
      <3> QED BY <3>1, <3>2
    <2>7. g = [i \in 0 .. n + 1 |-> KeptStep(g, slots, i)] BY <2>5, <2>6
    <2> QED BY <2>7 DEF KeptUpto
  <1>3. \A n \in Nat : n \in T
    <2> HIDE DEF T
    <2> QED BY <1>1, <1>2, NatSetInduction
  <1> QED BY <1>3

LEMMA TimersOfIs ==
  ASSUME NEW slots, IsSeq(timers)
  PROVE  \E f : KeptUpto(f, slots, Len(timers)) /\ TimersOf(slots) = f[Len(timers)]
  <1> DEFINE f == CHOOSE g : g = [i \in 0 .. Len(timers) |->
                                CASE i = 0 -> <<>>
                                  [] i > 0 /\ timers[i].slot \in slots -> Append(g[i - 1], timers[i])
                                  [] OTHER -> g[i - 1]]
  <1>1. TimersOf(slots) = f[Len(timers)] BY DEF TimersOf
  <1>2. Len(timers) \in Nat BY SeqFacts
  <1>3. PICK g : KeptUpto(g, slots, Len(timers)) BY <1>2, KeptExists, Zenon
  <1>4. f = [i \in 0 .. Len(timers) |->
                CASE i = 0 -> <<>>
                  [] i > 0 /\ timers[i].slot \in slots -> Append(f[i - 1], timers[i])
                  [] OTHER -> f[i - 1]]
    BY <1>3, Zenon DEF KeptUpto, KeptStep
  <1> HIDE DEF f
  <1>5. KeptUpto(f, slots, Len(timers)) BY <1>4 DEF KeptUpto, KeptStep
  <1> QED BY <1>1, <1>5

\* What is kept is a queue of callbacks into the slots, in their order: for
\* each of them the last callback, or that there is none, is the same.
KeptOf(q, slots, n) ==
    /\ IsSeq(q) /\ Len(q) <= n
    /\ \A i \in DOMAIN q : \E j \in 1 .. n : q[i] = timers[j] /\ timers[j].slot \in slots
    /\ \A slot \in slots : \A level : NoneFor(timers, n, slot, level) => NoneFor(q, Len(q), slot, level)
    /\ \A slot \in slots : \A level, key, seen :
         LastFor(timers, n, slot, level, key, seen) => LastFor(q, Len(q), slot, level, key, seen)

LEMMA LastForNext ==
  ASSUME NEW q, NEW n \in Nat, NEW slot, NEW level, NEW key, NEW seen,
         LastFor(q, n + 1, slot, level, key, seen)
  PROVE  \/ /\ About(q[n + 1], slot, level) /\ q[n + 1].key = key /\ q[n + 1].seen = seen
         \/ /\ ~About(q[n + 1], slot, level)
            /\ LastFor(q, n, slot, level, key, seen)
  <1>1. PICK i \in 1 .. n + 1 :
            /\ About(q[i], slot, level) /\ q[i].key = key /\ q[i].seen = seen
            /\ \A j \in i + 1 .. n + 1 : ~About(q[j], slot, level)
    BY DEF LastFor
  <1>2. CASE i = n + 1 BY <1>1, <1>2
  <1>3. CASE i \in 1 .. n
    <2>1. ~About(q[n + 1], slot, level) BY <1>1, <1>3
    <2>2. \A j \in i + 1 .. n : ~About(q[j], slot, level) BY <1>1
    <2> QED BY <1>1, <1>3, <2>1, <2>2 DEF LastFor
  <1> QED BY <1>2, <1>3

\* A callback that comes last is the last one about its slot, and leaves
\* the last one about any other as it is.
LEMMA AppendedFor ==
  ASSUME NEW q, IsSeq(q), NEW t, NEW slot, NEW level
  PROVE  LET r == Append(q, t) IN
         /\ About(t, slot, level) => LastFor(r, Len(r), slot, level, t.key, t.seen)
         /\ ~About(t, slot, level) =>
              /\ NoneFor(q, Len(q), slot, level) => NoneFor(r, Len(r), slot, level)
              /\ \A key, seen : LastFor(q, Len(q), slot, level, key, seen) =>
                                    LastFor(r, Len(r), slot, level, key, seen)
  <1> DEFINE r == Append(q, t)
  <1>1. /\ Len(r) = Len(q) + 1 /\ r[Len(q) + 1] = t
        /\ \A i \in 1 .. Len(q) : r[i] = q[i]
    BY Appended
  <1>2. Len(q) \in Nat BY SeqFacts
  <1> HIDE DEF r
  <1>3. About(t, slot, level) => LastFor(r, Len(r), slot, level, t.key, t.seen)
    BY <1>1, <1>2 DEF LastFor
  <1>4. ~About(t, slot, level) /\ NoneFor(q, Len(q), slot, level) => NoneFor(r, Len(r), slot, level)
    BY <1>1, <1>2 DEF NoneFor
  <1>5. ASSUME ~About(t, slot, level), NEW key, NEW seen, LastFor(q, Len(q), slot, level, key, seen)
        PROVE  LastFor(r, Len(r), slot, level, key, seen)
    <2>1. PICK i \in 1 .. Len(q) :
              /\ About(q[i], slot, level) /\ q[i].key = key /\ q[i].seen = seen
              /\ \A j \in i + 1 .. Len(q) : ~About(q[j], slot, level)
      BY <1>5 DEF LastFor
    <2>2. i \in 1 .. Len(r) /\ r[i] = q[i] BY <1>1, <1>2
    <2>3. ASSUME NEW j \in i + 1 .. Len(r) PROVE ~About(r[j], slot, level)
      <3>1. CASE j = Len(q) + 1 BY <1>1, <1>5, <3>1
      <3>2. CASE j \in i + 1 .. Len(q) BY <1>1, <2>1, <3>2
      <3> QED BY <1>1, <1>2, <3>1, <3>2
    <2> QED BY <2>1, <2>2, <2>3 DEF LastFor
  <1> QED BY <1>3, <1>4, <1>5 DEF r

LEMMA TimersOfKept ==
  ASSUME NEW slots, IsSeq(timers)
  PROVE  KeptOf(TimersOf(slots), slots, Len(timers))
  <1>1. PICK f : KeptUpto(f, slots, Len(timers)) /\ TimersOf(slots) = f[Len(timers)]
    BY TimersOfIs
  <1>2. Len(timers) \in Nat /\ DOMAIN timers = 1 .. Len(timers) BY SeqFacts
  <1> DEFINE T == {n \in Nat : n <= Len(timers) => KeptOf(f[n], slots, n)}
  <1>3. \A i \in 0 .. Len(timers) : f[i] = KeptStep(f, slots, i) BY <1>1 DEF KeptUpto
  <1>4. 0 \in T
    <2>1. f[0] = <<>> BY <1>2, <1>3 DEF KeptStep
    <2>3. \A slot, level : NoneFor(<<>>, 0, slot, level) BY DEF NoneFor
    <2>4. \A slot, level, key, seen : ~LastFor(timers, 0, slot, level, key, seen) BY DEF LastFor
    <2> QED BY <2>1, <2>3, <2>4, EmptyQueue DEF KeptOf
  <1>5. ASSUME NEW n \in Nat, n \in T PROVE n + 1 \in T
    <2> SUFFICES ASSUME n + 1 <= Len(timers) PROVE KeptOf(f[n + 1], slots, n + 1)
      OBVIOUS
    <2>1. KeptOf(f[n], slots, n) BY <1>2, <1>5
    <2> DEFINE t == timers[n + 1]
    <2>2. f[n + 1] = IF t.slot \in slots THEN Append(f[n], t) ELSE f[n]
      BY <1>2, <1>3 DEF KeptStep
    <2>3. ASSUME NEW slot, NEW level, NoneFor(timers, n + 1, slot, level)
          PROVE  NoneFor(timers, n, slot, level) /\ ~About(t, slot, level)
      BY <2>3 DEF NoneFor
    <2> PICK q : q = f[n] OBVIOUS
    <2>4. IsSeq(q) /\ Len(q) <= n /\ Len(q) \in Nat /\ DOMAIN q = 1 .. Len(q)
      BY <2>1, SeqFacts DEF KeptOf
    <2>5. CASE t.slot \notin slots
      <3>1. \A slot \in slots : \A level : ~About(t, slot, level) BY <2>5 DEF About
      <3>2. f[n + 1] = q BY <2>2, <2>5
      <3>3. \A slot \in slots : \A level : NoneFor(timers, n + 1, slot, level) => NoneFor(q, Len(q), slot, level)
        BY <2>1, <2>3 DEF KeptOf
      <3>4. ASSUME NEW slot \in slots, NEW level, NEW key, NEW seen,
                   LastFor(timers, n + 1, slot, level, key, seen)
            PROVE  LastFor(q, Len(q), slot, level, key, seen)
        <4>1. LastFor(timers, n, slot, level, key, seen) BY <3>1, <3>4, LastForNext
        <4> QED BY <2>1, <4>1 DEF KeptOf
      <3>5. \A i \in DOMAIN q : \E j \in 1 .. n + 1 : q[i] = timers[j] /\ timers[j].slot \in slots
        BY <2>1 DEF KeptOf
      <3> QED BY <2>4, <3>2, <3>3, <3>4, <3>5 DEF KeptOf
    <2>6. CASE t.slot \in slots
      <3> DEFINE r == Append(q, t)
      <3>1. f[n + 1] = r BY <2>2, <2>6
      <3>2. /\ IsSeq(r) /\ Len(r) = Len(q) + 1 /\ r[Len(q) + 1] = t
            /\ \A i \in 1 .. Len(q) : r[i] = q[i]
        BY <2>4, Appended
      <3>3. DOMAIN r = 1 .. Len(r) BY <3>2, SeqFacts
      <3>4. ASSUME NEW slot \in slots, NEW level, NoneFor(timers, n + 1, slot, level)
            PROVE  NoneFor(r, Len(r), slot, level)
        <4>1. NoneFor(timers, n, slot, level) /\ ~About(t, slot, level) BY <2>3, <3>4
        <4>2. NoneFor(q, Len(q), slot, level) BY <2>1, <4>1 DEF KeptOf
        <4> QED BY <2>4, <4>1, <4>2, AppendedFor
      <3>5. ASSUME NEW slot \in slots, NEW level, NEW key, NEW seen,
                   LastFor(timers, n + 1, slot, level, key, seen)
            PROVE  LastFor(r, Len(r), slot, level, key, seen)
        <4>1. CASE About(t, slot, level) /\ t.key = key /\ t.seen = seen
          BY <2>4, <4>1, AppendedFor
        <4>2. CASE ~About(t, slot, level) /\ LastFor(timers, n, slot, level, key, seen)
          <5>1. LastFor(q, Len(q), slot, level, key, seen) BY <2>1, <4>2 DEF KeptOf
          <5> QED BY <2>4, <4>2, <5>1, AppendedFor
        <4> QED BY <3>5, <4>1, <4>2, LastForNext
      <3>6. ASSUME NEW i \in DOMAIN r
            PROVE  \E j \in 1 .. n + 1 : r[i] = timers[j] /\ timers[j].slot \in slots
        <4>1. CASE i = Len(q) + 1 BY <2>6, <3>2, <4>1
        <4>2. CASE i \in 1 .. Len(q)
          <5>1. r[i] = q[i] /\ i \in DOMAIN q BY <2>4, <3>2, <4>2
          <5>2. PICK j \in 1 .. n : q[i] = timers[j] /\ timers[j].slot \in slots
            BY <2>1, <5>1 DEF KeptOf
          <5>3. j \in 1 .. n + 1 OBVIOUS
          <5> QED BY <5>1, <5>2, <5>3
        <4> QED BY <2>4, <3>2, <3>3, <4>1, <4>2
      <3>7. Len(r) <= n + 1 BY <2>4, <3>2
      <3> HIDE DEF r
      <3> QED BY <3>1, <3>2, <3>4, <3>5, <3>6, <3>7 DEF KeptOf
    <2> QED BY <2>5, <2>6
  <1>6. \A n \in Nat : n \in T
    <2> HIDE DEF T
    <2> QED BY <1>4, <1>5, NatSetInduction
  <1> QED BY <1>1, <1>2, <1>6

(***************************************************************************)
(* Effects that run again.                                                 *)
(***************************************************************************)

\* What a rerun leaves: the new subscriptions, those of other effects, and
\* those of these effects that leak.
RerunLeaves(S, slots, level, new, R) ==
    /\ \A r \in R :
         \/ r \in new
         \/ r \in S /\ ~(r.slot \in slots /\ r.level = level)
         \/ /\ r.cleaned = TRUE /\ DOMAIN r = SubFields
            /\ r.slot \in slots /\ r.level = level
            /\ \E s \in S : r.slot = s.slot /\ r.level = s.level
    /\ new \subseteq R
    /\ \A s \in S : ~(s.slot \in slots /\ s.level = level) => s \in R
    /\ \A s \in S : s.cleaned => \E r \in R : r.slot = s.slot /\ r.cleaned

LEMMA Reran ==
  ASSUME NEW S, NEW slots, NEW level, NEW new, NEW R, R = Rerun(S, slots, level, new),
         \A s \in S : DOMAIN s = SubFields /\ s.cleaned \in BOOLEAN
  PROVE  RerunLeaves(S, slots, level, new, R)
  <1> DEFINE old == {s \in S : s.slot \in slots /\ s.level = level}
             left == {t \in old : Pending(t) \/ t.cleaned}
             ends(s) == [s EXCEPT !.cleaned = TRUE]
  <1>1. R = (S \ old) \cup {ends(s) : s \in left} \cup new BY DEF Rerun, Cleanup
  <1>2. \A s \in S : /\ ends(s).cleaned = TRUE /\ DOMAIN ends(s) = SubFields
                     /\ ends(s).slot = s.slot /\ ends(s).level = s.level
    BY DEF SubFields
  <1> HIDE DEF ends
  <1>3. ASSUME NEW r \in R
        PROVE  \/ r \in new
               \/ r \in S /\ ~(r.slot \in slots /\ r.level = level)
               \/ /\ r.cleaned = TRUE /\ DOMAIN r = SubFields
                  /\ r.slot \in slots /\ r.level = level
                  /\ \E s \in S : r.slot = s.slot /\ r.level = s.level
    <2>1. CASE r \in {ends(s) : s \in left} BY <1>2, <2>1
    <2> QED BY <1>1, <2>1
  <1>4. ASSUME NEW s \in S, s.cleaned PROVE \E r \in R : r.slot = s.slot /\ r.cleaned
    <2>1. CASE s \in old
      <3>1. ends(s) \in R BY <1>1, <1>4, <2>1
      <3> QED BY <1>2, <3>1
    <2>2. CASE s \notin old BY <1>1, <1>4, <2>2
    <2> QED BY <2>1, <2>2
  <1> QED BY <1>1, <1>3, <1>4 DEF RerunLeaves

\* A subscription that was there before and did not leak.
Stays(s) == s \in subs /\ Leaked(s.slot) = {}

\* Second effects that run again hold one subscription each, to the ids
\* the component then has.
LEMMA RefetchKeeps ==
  ASSUME StateShaped, SubsInv, NEW again, again \subseteq Mounted \cap watched.second,
         subs' = Rerun(subs, again, 2, SecondSubs(again, first')),
         Mounted' = Mounted, watched' = watched, account' = account, detail' = detail,
         \A slot \in Mounted \ again :
            slot \in EffectOf(slot).refetchedBy /\ slot \in watched.second => first'[slot] = first[slot]
  PROVE  /\ SubsInv'
         /\ \A s \in subs' : ~Pending(s) /\ ~s.cleaned /\ Leaked(s.slot)' = {} =>
               Stays(s) /\ ~(s.slot \in again /\ s.level = 2)
  <1> DEFINE new == SecondSubs(again, first')
  <1>1. \A s \in subs : /\ DOMAIN s = SubFields /\ s.cleaned \in BOOLEAN
                        /\ s.slot \in Mounted /\ s.level \in {1, 2}
    BY DEF SubsInv, SubsShaped
  <1>2. /\ \A r \in subs' :
             \/ r \in new
             \/ r \in subs /\ ~(r.slot \in again /\ r.level = 2)
             \/ /\ r.cleaned = TRUE /\ DOMAIN r = SubFields
                /\ r.slot \in again /\ r.level = 2
                /\ \E s \in subs : r.slot = s.slot /\ r.level = s.level
        /\ new \subseteq subs'
        /\ \A s \in subs : ~(s.slot \in again /\ s.level = 2) => s \in subs'
        /\ \A s \in subs : s.cleaned => \E r \in subs' : r.slot = s.slot /\ r.cleaned
    <2> PICK R, N : R = subs' /\ N = new OBVIOUS
    <2>1. R = Rerun(subs, again, 2, N) OBVIOUS
    <2> HIDE DEF new
    <2>2. RerunLeaves(subs, again, 2, N, R) BY <1>1, <2>1, Reran
    <2> QED BY <2>2 DEF RerunLeaves
  <1>3. ASSUME NEW r \in new
        PROVE  /\ DOMAIN r = SubFields /\ r.slot \in again /\ r.level = 2
               /\ r.cleaned = FALSE /\ Pending(r) /\ r.key = Refs(r.slot, first'[r.slot])
               /\ r = Sub(r.slot, 2, Refs(r.slot, first'[r.slot]))
    <2>1. PICK slot \in again : r = Sub(slot, 2, Refs(slot, first'[slot])) BY DEF SecondSubs
    <2> PICK key : key = Refs(slot, first'[slot]) OBVIOUS
    <2>2. r = Sub(slot, 2, key) BY <2>1
    <2>3. /\ DOMAIN r = SubFields /\ r.slot = slot /\ r.level = 2 /\ r.cleaned = FALSE
          /\ Pending(r) /\ r.key = key
      BY <2>2, SubShape
    <2> QED BY <2>1, <2>3
  <1>4. ASSUME NEW slot \in again, first'[slot] # NoValue
        PROVE  \E r \in new : /\ r.slot = slot /\ r.level = 2 /\ r.cleaned = FALSE
                             /\ r.key = Refs(slot, first'[slot])
    <2> PICK key : key = Refs(slot, first'[slot]) OBVIOUS
    <2> DEFINE r == Sub(slot, 2, key)
    <2>1. r \in new BY <1>4 DEF SecondSubs
    <2>2. r.slot = slot /\ r.level = 2 /\ r.cleaned = FALSE /\ r.key = key BY SubShape
    <2> QED BY <2>1, <2>2
  <1> HIDE DEF new
  <1>5. \A s \in subs' : ~s.cleaned => s \in new \/ (s \in subs /\ ~(s.slot \in again /\ s.level = 2))
    BY <1>2
  <1>6. SubsShaped'
    <2> SUFFICES ASSUME NEW s \in subs'
                 PROVE  /\ DOMAIN s = SubFields
                        /\ s.slot \in Mounted /\ s.level \in {1, 2} /\ s.cleaned \in BOOLEAN
      BY DEF SubsShaped
    <2> QED BY <1>1, <1>2, <1>3
  <1>7. HoldsFirst'
    <2> SUFFICES ASSUME NEW slot \in Mounted, KeyOf(slot, account, detail) # NoAccount
                 PROVE  HeldIs(slot, 1, KeyOf(slot, account, detail))'
      BY DEF HoldsFirst, KeyOf
    <2> PICK key : key = KeyOf(slot, account, detail) OBVIOUS
    <2>1. HeldIs(slot, 1, key) BY DEF SubsInv, HoldsFirst
    <2>2. PICK s \in subs : Holds(s, slot, 1) /\ s.key = key BY <2>1 DEF HeldIs
    <2>3. s \in subs' BY <1>2, <2>2 DEF Holds
    <2>4. ASSUME NEW r \in subs', Holds(r, slot, 1) PROVE r \in subs
      <3>1. ~r.cleaned /\ r.level = 1 BY <2>4 DEF Holds
      <3>2. ASSUME r \in new PROVE FALSE
        <4>1. r.level = 2 BY <1>3, <3>2
        <4> QED BY <3>1, <4>1
      <3> QED BY <1>5, <3>1, <3>2
    <2>5. \A r \in subs' : Holds(r, slot, 1) => r.key = key BY <2>1, <2>4 DEF HeldIs
    <2>6. KeyOf(slot, account, detail)' = key BY DEF KeyOf
    <2>7. HeldIs(slot, 1, key)' BY <2>2, <2>3, <2>5 DEF HeldIs, Holds
    <2> QED BY <2>6, <2>7
  <1>8. HoldsSecond'
    <2> SUFFICES ASSUME NEW slot \in Mounted, slot \in EffectOf(slot).refetchedBy,
                        slot \in watched.second, first'[slot] # NoValue
                 PROVE  HeldIs(slot, 2, Refs(slot, first[slot]))'
      BY DEF HoldsSecond
    <2> PICK key : key = Refs(slot, first'[slot]) OBVIOUS
    <2>1. CASE slot \in again
      <3>1. PICK s \in new : s.slot = slot /\ s.level = 2 /\ s.cleaned = FALSE /\ s.key = key
        BY <1>4, <2>1
      <3>2. \A r \in subs' : Holds(r, slot, 2) => r.key = key
        BY <1>3, <1>5, <2>1 DEF Holds
      <3>3. HeldIs(slot, 2, key)' BY <1>2, <3>1, <3>2 DEF HeldIs, Holds
      <3> QED BY <3>3
    <2>2. CASE slot \notin again
      <3>1. first'[slot] = first[slot] BY <2>2
      <3>2. HeldIs(slot, 2, key) BY <3>1 DEF SubsInv, HoldsSecond
      <3>3. PICK s \in subs : Holds(s, slot, 2) /\ s.key = key BY <3>2 DEF HeldIs
      <3>4. s \in subs' BY <1>2, <2>2, <3>3 DEF Holds
      <3>5. \A r \in subs' : Holds(r, slot, 2) => r \in subs BY <1>3, <1>5, <2>2 DEF Holds
      <3>6. \A r \in subs' : Holds(r, slot, 2) => r.key = key BY <3>2, <3>5 DEF HeldIs
      <3>7. HeldIs(slot, 2, key)' BY <3>3, <3>4, <3>6 DEF HeldIs, Holds
      <3> QED BY <3>7
    <2> QED BY <2>1, <2>2
  <1>9. HoldsOnce'
    <2> SUFFICES ASSUME NEW s \in subs', NEW t \in subs', Holds(s, t.slot, t.level), ~t.cleaned
                 PROVE  s = t
      BY DEF HoldsOnce, Holds
    <2>1. s.slot = t.slot /\ s.level = t.level /\ ~s.cleaned BY DEF Holds
    <2>2. CASE s \in new /\ t \in new BY <1>3, <2>1, <2>2
    <2>3. CASE s \in subs /\ t \in subs BY <2>3 DEF SubsInv, HoldsOnce
    <2> QED BY <1>3, <1>5, <2>1, <2>2, <2>3
  <1>10. ASSUME NEW s \in subs', ~Pending(s), ~s.cleaned, Leaked(s.slot)' = {}
         PROVE  Stays(s) /\ ~(s.slot \in again /\ s.level = 2)
    <2>1. s \in subs /\ ~(s.slot \in again /\ s.level = 2) BY <1>3, <1>5, <1>10
    <2>2. \A r \in subs' : ~(r.slot = s.slot /\ r.cleaned) BY <1>10 DEF Leaked
    <2>3. Leaked(s.slot) = {} BY <1>2, <2>2 DEF Leaked
    <2> QED BY <2>1, <2>3 DEF Stays
  <1> QED BY <1>6, <1>7, <1>8, <1>9, <1>10 DEF SubsInv

(***************************************************************************)
(* The steps of the chain, of the event loop and of the Disputes page.     *)
(***************************************************************************)

LEMMA MountedSame ==
  ASSUME sessionVars' = sessionVars, watched' = watched, detail' = detail
  PROVE  Mounted' = Mounted /\ SessionShaped' = SessionShaped /\ SelectorAgrees' = SelectorAgrees
  BY DEF sessionVars, Mounted, MountedOn, SessionShaped, SelectorAgrees

\* Storage changes touch no page.
LEMMA ChainKeeps ==
  ASSUME PagesInv, pageVars' = pageVars, sessionVars' = sessionVars, watched' = watched
  PROVE  PagesInv'
  <1>1. /\ subs' = subs /\ timers' = timers /\ first' = first /\ second' = second
        /\ detail' = detail /\ tab' = tab
    BY DEF pageVars
  <1>2. /\ apiState' = apiState /\ keyringState' = keyringState /\ link' = link
        /\ apiReady' = apiReady /\ path' = path /\ account' = account /\ selected' = selected
    BY DEF sessionVars
  <1>3. Mounted' = Mounted BY <1>1, MountedSame
  <1>4. StateShaped' BY <1>1, <1>2 DEF PagesInv, StateShaped
  <1>5. SubsInv'
    <2>1. SubsShaped' BY <1>1, <1>3 DEF PagesInv, SubsInv, SubsShaped
    <2>2. HoldsFirst' BY <1>1, <1>2, <1>3 DEF PagesInv, SubsInv, HoldsFirst, HeldIs, KeyOf
    <2>3. HoldsSecond' BY <1>1, <1>3 DEF PagesInv, SubsInv, HoldsSecond, HeldIs
    <2>4. HoldsOnce' BY <1>1 DEF PagesInv, SubsInv, HoldsOnce
    <2> QED BY <2>1, <2>2, <2>3, <2>4 DEF SubsInv
  <1>6. TimersInv' BY <1>1, <1>3 DEF PagesInv, TimersInv, TimersShaped, TimersPaired
  <1>7. Arrives' BY <1>1 DEF PagesInv, Arrives, Leaked, Displayed
  <1>8. RecordsPaired' BY <1>1 DEF PagesInv, RecordsPaired
  <1> QED BY <1>4, <1>5, <1>6, <1>7, <1>8 DEF PagesInv

\* An answer: its subscription has seen it, and the callback that brings it
\* is the last one waiting.
LEMMA ReceiveKeeps ==
  ASSUME PagesInv, NEW r \in subs, Receive(r)
  PROVE  PagesInv'
  <1> DEFINE n == [r EXCEPT !.seen = Stored(r)]
             t == [slot |-> r.slot, level |-> r.level, key |-> r.key, seen |-> Stored(r)]
  <1>1. /\ subs' = (subs \ {r}) \cup {n} /\ timers' = Append(timers, t)
        /\ Len(timers) < MaxTimers
        /\ first' = first /\ second' = second /\ detail' = detail /\ tab' = tab
        /\ sessionVars' = sessionVars /\ watched' = watched
    BY DEF Receive, chainVars
  <1>2. /\ apiState' = apiState /\ keyringState' = keyringState /\ link' = link
        /\ apiReady' = apiReady /\ path' = path /\ account' = account /\ selected' = selected
    BY <1>1 DEF sessionVars
  <1>3. Mounted' = Mounted BY <1>1, MountedSame
  <1>4. \A s \in subs : /\ DOMAIN s = SubFields /\ s.cleaned \in BOOLEAN
                        /\ s.slot \in Mounted /\ s.level \in {1, 2}
    BY DEF PagesInv, SubsInv, SubsShaped
  <1>5. /\ DOMAIN n = SubFields /\ n.slot = r.slot /\ n.level = r.level /\ n.key = r.key
        /\ n.cleaned = r.cleaned /\ n.seen = Stored(r)
    BY <1>4 DEF SubFields
  <1>6. /\ t.slot = r.slot /\ t.level = r.level /\ t.key = r.key /\ t.seen = Stored(r)
    OBVIOUS
  <1>7. IsSeq(timers) /\ Len(timers) \in Nat /\ DOMAIN timers = 1 .. Len(timers)
    BY SeqFacts DEF PagesInv, TimersInv, TimersShaped
  <1>8. /\ IsSeq(timers') /\ Len(timers') = Len(timers) + 1
        /\ \A i \in 1 .. Len(timers) : timers'[i] = timers[i]
        /\ timers'[Len(timers) + 1] = t
    <2> HIDE DEF t
    <2> QED BY <1>1, <1>7, Appended
  <1>9. DOMAIN timers' = 1 .. Len(timers) + 1
    <2> PICK q : q = timers' OBVIOUS
    <2>1. DOMAIN q = 1 .. Len(q) BY <1>8, SeqFacts
    <2> QED BY <1>8, <2>1
  <1>10. ASSUME r.level = 2, NEW k \in DOMAIN r.key PROVE Stored(r)[k][1] = r.key[k]
    <2>1. Stored(r) = [i \in DOMAIN r.key |-> <<r.key[i], version[r.key[i]]>>] BY <1>10 DEF Stored
    <2> QED BY <2>1
  <1> HIDE DEF n, t
  <1>11. StateShaped' BY <1>1, <1>2 DEF PagesInv, StateShaped
  <1>12. SubsShaped' BY <1>1, <1>3, <1>4, <1>5 DEF SubsShaped
  <1>13. ASSUME NEW slot, NEW level, NEW key, HeldIs(slot, level, key)
         PROVE  HeldIs(slot, level, key)'
    <2>1. PICK s \in subs : Holds(s, slot, level) /\ s.key = key BY <1>13 DEF HeldIs
    <2>2. \E u \in subs' : Holds(u, slot, level) /\ u.key = key
      <3>1. CASE s = r BY <1>1, <1>5, <2>1, <3>1 DEF Holds
      <3>2. CASE s # r BY <1>1, <2>1, <3>2
      <3> QED BY <3>1, <3>2
    <2>3. \A u \in subs' : Holds(u, slot, level) => u.key = key
      BY <1>1, <1>5, <1>13 DEF HeldIs, Holds
    <2> QED BY <2>2, <2>3 DEF HeldIs, Holds
  <1>14. HoldsFirst'
    <2> SUFFICES ASSUME NEW slot \in Mounted, KeyOf(slot, account, detail) # NoAccount
                 PROVE  HeldIs(slot, 1, KeyOf(slot, account, detail))'
      BY <1>1, <1>2, <1>3 DEF HoldsFirst, KeyOf
    <2> PICK key : key = KeyOf(slot, account, detail) OBVIOUS
    <2>1. HeldIs(slot, 1, key) BY DEF PagesInv, SubsInv, HoldsFirst
    <2>2. KeyOf(slot, account, detail)' = key BY <1>1, <1>2 DEF KeyOf
    <2>3. HeldIs(slot, 1, key)' BY <1>13, <2>1
    <2> QED BY <2>2, <2>3
  <1>15. HoldsSecond'
    <2> SUFFICES ASSUME NEW slot \in Mounted, slot \in EffectOf(slot).refetchedBy \cap watched.second,
                        first[slot] # NoValue
                 PROVE  HeldIs(slot, 2, Refs(slot, first[slot]))'
      BY <1>1, <1>3 DEF HoldsSecond
    <2> PICK key : key = Refs(slot, first[slot]) OBVIOUS
    <2>1. HeldIs(slot, 2, key) BY DEF PagesInv, SubsInv, HoldsSecond
    <2>2. HeldIs(slot, 2, key)' BY <1>13, <2>1
    <2> QED BY <1>1, <2>2
  <1>16. HoldsOnce'
    BY <1>1, <1>5 DEF PagesInv, SubsInv, HoldsOnce, Holds
  <1>17. TimersShaped'
    <2>1. MaxTimers \in Nat BY PagesAssumption
    <2>2. Len(timers') <= MaxTimers BY <1>1, <1>7, <1>8, <2>1
    <2>3. ASSUME NEW i \in DOMAIN timers'
          PROVE  timers'[i].slot \in Mounted /\ timers'[i].level \in {1, 2}
      <3>1. CASE i = Len(timers) + 1 BY <1>4, <1>6, <1>8, <3>1
      <3>2. CASE i \in 1 .. Len(timers)
        <4>1. timers'[i] = timers[i] /\ i \in DOMAIN timers BY <1>7, <1>8, <3>2
        <4> QED BY <4>1 DEF PagesInv, TimersInv, TimersShaped
      <3> QED BY <1>7, <1>9, <3>1, <3>2
    <2> QED BY <1>3, <1>8, <2>2, <2>3 DEF TimersShaped
  <1>18. TimersPaired'
    <2> SUFFICES ASSUME NEW i \in DOMAIN timers', timers'[i].level = 2
                 PROVE  \A k \in DOMAIN timers'[i].key : timers'[i].seen[k][1] = timers'[i].key[k]
      BY DEF TimersPaired
    <2>1. CASE i \in 1 .. Len(timers)
      <3>1. timers'[i] = timers[i] /\ i \in DOMAIN timers BY <1>7, <1>8, <2>1
      <3> QED BY <3>1 DEF PagesInv, TimersInv, TimersPaired
    <2>2. CASE i = Len(timers) + 1
      <3>1. timers'[i] = t BY <1>8, <2>2
      <3> QED BY <1>6, <1>10, <3>1
    <2> QED BY <1>7, <1>9, <2>1, <2>2
  <1>19. Arrives'
    <2> SUFFICES ASSUME NEW s \in subs', ~Pending(s), ~s.cleaned, Leaked(s.slot)' = {}
                 PROVE  \/ NoneFor(timers', Len(timers'), s.slot, s.level) /\ Displayed(s)'
                        \/ LastFor(timers', Len(timers'), s.slot, s.level, s.key, s.seen)
      BY DEF Arrives
    <2>1. CASE s = n
      <3>1. About(t, r.slot, r.level) BY <1>6 DEF About
      <3>2. LastFor(timers', Len(timers'), r.slot, r.level, t.key, t.seen)
        BY <1>1, <1>7, <3>1, AppendedFor
      <3> QED BY <1>5, <1>6, <2>1, <3>2
    <2>2. CASE s # n
      <3>1. s \in subs /\ s # r BY <1>1, <2>2
      <3>2. Leaked(s.slot) = {}
        <4>1. \A u \in subs' : ~(u.slot = s.slot /\ u.cleaned) BY DEF Leaked
        <4>2. \A u \in subs : ~(u.slot = s.slot /\ u.cleaned) BY <1>1, <1>5, <4>1
        <4> QED BY <4>2 DEF Leaked
      <3>3. ~r.cleaned \/ r.slot # s.slot BY <3>2 DEF Leaked
      <3>4. ~About(t, s.slot, s.level)
        BY <1>4, <1>6, <3>1, <3>3 DEF About, PagesInv, SubsInv, HoldsOnce, Holds
      <3>5. \/ NoneFor(timers, Len(timers), s.slot, s.level) /\ Displayed(s)
            \/ LastFor(timers, Len(timers), s.slot, s.level, s.key, s.seen)
        BY <3>1, <3>2 DEF PagesInv, Arrives
      <3>6. Displayed(s)' = Displayed(s) BY <1>1 DEF Displayed
      <3> QED BY <1>1, <1>7, <3>4, <3>5, <3>6, AppendedFor
    <2> QED BY <2>1, <2>2
  <1>20. RecordsPaired' BY <1>1 DEF PagesInv, RecordsPaired
  <1> QED
    BY <1>11, <1>12, <1>14, <1>15, <1>16, <1>17, <1>18, <1>19, <1>20
    DEF PagesInv, SubsInv, TimersInv

LEMMA MountedSlots ==
  ASSUME watched \in Views
  PROVE  /\ Mounted \subseteq watched.first /\ watched.first \subseteq Slots
         /\ watched.second \subseteq watched.first /\ watched.second \subseteq TwoLevel
  BY PagesAssumption DEF Mounted, MountedOn

\* The two lists of the Disputes page are mounted together.
LEMMA DisputesMounted ==
  ASSUME watched \in Views, "assigned" \in Mounted, "involved" \in watched.second
  PROVE  "involved" \in Mounted
  <1>1. "involved" \in watched.first BY MountedSlots
  <1>2. /\ EffectOf("assigned").path = "/disputes" /\ EffectOf("involved").path = "/disputes"
        /\ EffectOf("involved").key = "account"
    BY DisputesEffects DEF AssignedDisputes, InvolvedDisputes
  <1>3. Shows(apiState, keyringState) /\ (path = "/disputes" \/ Routes[path].sidebar)
    BY <1>2 DEF Mounted, MountedOn
  <1>4. path = "/disputes" BY <1>2 DEF Mounted, MountedOn
  <1> QED BY <1>1, <1>2, <1>3, <1>4 DEF Mounted, MountedOn

LEMMA RefetchedMounted ==
  ASSUME watched \in Views, NEW slot \in Mounted, NEW e \in Effects,
         slot \in e.refetchedBy, e.slot \in watched.second
  PROVE  e.slot \in Mounted
  <1>1. e.slot = slot \/ (slot = "assigned" /\ e.slot = "involved")
    BY DEF Effects, PaymentsPage, PayHistoryPage, ResolversPage, AssignedDisputes,
           InvolvedDisputes, DisputeDetail, ProcessPaymentPage, SidebarBalance
  <1> QED BY <1>1, DisputesMounted

LEMMA ByTabMounted ==
  ASSUME watched \in Views, "assigned" \in Mounted, NEW e \in Effects, e.byTab,
         e.slot \in watched.second
  PROVE  e.slot \in Mounted
  <1>1. e.slot = "assigned" \/ e.slot = "involved"
    BY DEF Effects, PaymentsPage, PayHistoryPage, ResolversPage, AssignedDisputes,
           InvolvedDisputes, DisputeDetail, ProcessPaymentPage, SidebarBalance
  <1> QED BY <1>1, DisputesMounted

\* Subscriptions, state and keys as they were.
LEMMA SubsSame ==
  ASSUME SubsInv, subs' = subs, first' = first, Mounted' = Mounted, watched' = watched,
         account' = account, detail' = detail
  PROVE  SubsInv'
  <1>1. SubsShaped' BY DEF SubsInv, SubsShaped
  <1>2. HoldsFirst' BY DEF SubsInv, HoldsFirst, HeldIs, KeyOf
  <1>3. HoldsSecond' BY DEF SubsInv, HoldsSecond, HeldIs
  <1>4. HoldsOnce' BY DEF SubsInv, HoldsOnce
  <1> QED BY <1>1, <1>2, <1>3, <1>4 DEF SubsInv

\* Without its first callback a queue has the same last ones, or none when
\* that was the last.
LEMMA TailFor ==
  ASSUME NEW q, IsSeq(q), q # <<>>, NEW slot, NEW level
  PROVE  LET r == Tail(q)  t == Head(q) IN
         /\ NoneFor(q, Len(q), slot, level) => NoneFor(r, Len(r), slot, level) /\ ~About(t, slot, level)
         /\ \A key, seen : LastFor(q, Len(q), slot, level, key, seen) =>
              \/ LastFor(r, Len(r), slot, level, key, seen)
              \/ /\ NoneFor(r, Len(r), slot, level)
                 /\ About(t, slot, level) /\ t.key = key /\ t.seen = seen
  <1> DEFINE r == Tail(q)
             t == Head(q)
  <1>1. /\ Len(q) >= 1 /\ t = q[1] /\ Len(r) = Len(q) - 1
        /\ \A i \in 1 .. Len(q) - 1 : r[i] = q[i + 1]
    BY Tailed
  <1>2. Len(q) \in Nat BY SeqFacts
  <1> HIDE DEF r, t
  <1>3. NoneFor(q, Len(q), slot, level) => NoneFor(r, Len(r), slot, level) /\ ~About(t, slot, level)
    BY <1>1, <1>2 DEF NoneFor
  <1>4. ASSUME NEW key, NEW seen, LastFor(q, Len(q), slot, level, key, seen)
        PROVE  \/ LastFor(r, Len(r), slot, level, key, seen)
               \/ /\ NoneFor(r, Len(r), slot, level)
                  /\ About(t, slot, level) /\ t.key = key /\ t.seen = seen
    <2>1. PICK i \in 1 .. Len(q) :
              /\ About(q[i], slot, level) /\ q[i].key = key /\ q[i].seen = seen
              /\ \A j \in i + 1 .. Len(q) : ~About(q[j], slot, level)
      BY <1>4 DEF LastFor
    <2>2. \A j \in i .. Len(r) : j >= 1 => ~About(r[j], slot, level) BY <1>1, <1>2, <2>1
    <2>3. CASE i = 1 BY <1>1, <1>2, <2>1, <2>2, <2>3 DEF NoneFor
    <2>4. CASE i > 1
      <3>1. i - 1 \in 1 .. Len(r) /\ r[i - 1] = q[i] BY <1>1, <1>2, <2>4
      <3>2. \A j \in (i - 1) + 1 .. Len(r) : ~About(r[j], slot, level) BY <2>2
      <3> QED BY <2>1, <3>1, <3>2 DEF LastFor
    <2> QED BY <2>3, <2>4
  <1> QED BY <1>3, <1>4 DEF r, t

\* The queue without its first callback is a queue.
LEMMA TimersTail ==
  ASSUME TimersInv, timers # <<>>, timers' = Tail(timers), Mounted' = Mounted
  PROVE  /\ TimersInv' /\ IsSeq(timers)
         /\ Head(timers).slot \in Mounted /\ Head(timers).level \in {1, 2}
         /\ Head(timers).level = 2 =>
              \A k \in DOMAIN Head(timers).key : Head(timers).seen[k][1] = Head(timers).key[k]
  <1>1. IsSeq(timers) /\ Len(timers) \in Nat /\ DOMAIN timers = 1 .. Len(timers)
    BY SeqFacts DEF TimersInv, TimersShaped
  <1>2. /\ Len(timers) >= 1 /\ Head(timers) = timers[1]
        /\ IsSeq(timers') /\ Len(timers') = Len(timers) - 1
        /\ \A i \in 1 .. Len(timers) - 1 : timers'[i] = timers[i + 1]
    BY <1>1, Tailed
  <1>3. DOMAIN timers' = 1 .. Len(timers) - 1
    <2> PICK q : q = timers' OBVIOUS
    <2>1. DOMAIN q = 1 .. Len(q) BY <1>2, SeqFacts
    <2> QED BY <1>2, <2>1
  <1>4. \A i \in DOMAIN timers' : i + 1 \in DOMAIN timers /\ timers'[i] = timers[i + 1]
    BY <1>1, <1>2, <1>3
  <1>5. 1 \in DOMAIN timers BY <1>1, <1>2
  <1>6. Len(timers') <= MaxTimers
    BY <1>1, <1>2, PagesAssumption DEF TimersInv, TimersShaped
  <1>7. TimersShaped' BY <1>2, <1>4, <1>6 DEF TimersInv, TimersShaped
  <1>8. TimersPaired'
    <2> SUFFICES ASSUME NEW i \in DOMAIN timers', timers'[i].level = 2
                 PROVE  \A k \in DOMAIN timers'[i].key : timers'[i].seen[k][1] = timers'[i].key[k]
      BY DEF TimersPaired
    <2> QED BY <1>4 DEF TimersInv, TimersPaired
  <1>9. timers[1].slot \in Mounted /\ timers[1].level \in {1, 2}
    BY <1>5 DEF TimersInv, TimersShaped
  <1>10. timers[1].level = 2 => \A k \in DOMAIN timers[1].key : timers[1].seen[k][1] = timers[1].key[k]
    BY <1>5 DEF TimersInv, TimersPaired
  <1> QED BY <1>1, <1>2, <1>7, <1>8, <1>9, <1>10 DEF TimersInv

\* A delivery: the list shown is the one just received and the records are
\* asked for again, or the records shown are those just received.
LEMMA DeliverKeeps ==
  ASSUME PagesInv, Deliver
  PROVE  PagesInv'
  <1> DEFINE t == Head(timers)
             again == {e.slot : e \in {f \in Effects : t.slot \in f.refetchedBy}} \cap watched.second
  <1>1. /\ timers # <<>> /\ timers' = Tail(timers)
        /\ detail' = detail /\ tab' = tab
        /\ sessionVars' = sessionVars /\ watched' = watched
    BY DEF Deliver, chainVars
  <1>2. /\ apiState' = apiState /\ keyringState' = keyringState /\ link' = link
        /\ apiReady' = apiReady /\ path' = path /\ account' = account /\ selected' = selected
    BY <1>1 DEF sessionVars
  <1>3. Mounted' = Mounted BY <1>1, MountedSame
  <1>4. /\ TimersInv' /\ IsSeq(timers) /\ t.slot \in Mounted /\ t.level \in {1, 2}
        /\ t.level = 2 => \A k \in DOMAIN t.key : t.seen[k][1] = t.key[k]
    BY <1>1, <1>3, TimersTail DEF PagesInv
  <1>5. watched \in Views /\ Mounted \subseteq Slots
    BY MountedSlots DEF PagesInv, StateShaped
  <1>6. \A s \in subs : s.slot \in Slots /\ s.level \in {1, 2}
    BY <1>5 DEF PagesInv, SubsInv, SubsShaped
  <1>7. first = [slot \in Slots |-> first[slot]] /\ second = [slot \in Slots |-> second[slot]]
    BY DEF PagesInv, StateShaped
  <1>8. ASSUME NEW s \in subs, ~Pending(s), ~s.cleaned, Leaked(s.slot) = {}
        PROVE  \/ LastFor(timers', Len(timers'), s.slot, s.level, s.key, s.seen)
               \/ /\ NoneFor(timers', Len(timers'), s.slot, s.level)
                  /\ \/ ~About(t, s.slot, s.level) /\ Displayed(s)
                     \/ About(t, s.slot, s.level) /\ t.key = s.key /\ t.seen = s.seen
    <2>1. \/ NoneFor(timers, Len(timers), s.slot, s.level) /\ Displayed(s)
          \/ LastFor(timers, Len(timers), s.slot, s.level, s.key, s.seen)
      BY <1>8 DEF PagesInv, Arrives
    <2> HIDE DEF t
    <2>2. CASE NoneFor(timers, Len(timers), s.slot, s.level) /\ Displayed(s)
      <3>1. NoneFor(timers', Len(timers'), s.slot, s.level) /\ ~About(t, s.slot, s.level)
        BY <1>1, <1>4, <2>2, TailFor DEF t
      <3> QED BY <2>2, <3>1
    <2>3. CASE LastFor(timers, Len(timers), s.slot, s.level, s.key, s.seen)
      <3>1. PICK slot, level, key, seen :
              slot = s.slot /\ level = s.level /\ key = s.key /\ seen = s.seen
        OBVIOUS
      <3>2. LastFor(timers, Len(timers), slot, level, key, seen) BY <2>3, <3>1
      <3>3. \/ LastFor(timers', Len(timers'), slot, level, key, seen)
            \/ /\ NoneFor(timers', Len(timers'), slot, level)
               /\ About(t, slot, level) /\ t.key = key /\ t.seen = seen
        BY <1>1, <1>4, <3>2, TailFor, ZenonT(40) DEF t
      <3> QED BY <3>1, <3>3
    <2> QED BY <2>1, <2>2, <2>3
  <1>9. CASE t.level = 1 /\ /\ first' = [first EXCEPT ![t.slot] = t.seen]
                            /\ subs' = Rerun(subs, again, 2, SecondSubs(again, first'))
                            /\ second' = second
    <2>1. \A slot \in Slots : first'[slot] = IF slot = t.slot THEN t.seen ELSE first[slot]
      BY <1>7, <1>9
    <2>2. first' = [slot \in Slots |-> first'[slot]] BY <1>7, <1>9
    <2>3. again \subseteq Mounted \cap watched.second BY <1>4, <1>5, RefetchedMounted
    <2>4. ASSUME NEW slot \in Mounted \ again, slot \in EffectOf(slot).refetchedBy, slot \in watched.second
          PROVE  first'[slot] = first[slot]
      <3>1. slot \in Slots BY <1>5
      <3>2. EffectOf(slot) \in Effects /\ EffectOf(slot).slot = slot BY <3>1, SlotEffect
      <3>3. slot # t.slot
        <4> SUFFICES ASSUME slot = t.slot PROVE FALSE OBVIOUS
        <4>1. slot \in {e.slot : e \in {f \in Effects : t.slot \in f.refetchedBy}} BY <2>4, <3>2
        <4> QED BY <2>4, <4>1
      <3> QED BY <2>1, <3>1, <3>3
    <2>5. /\ SubsInv'
          /\ \A s \in subs' : ~Pending(s) /\ ~s.cleaned /\ Leaked(s.slot)' = {} =>
                Stays(s) /\ ~(s.slot \in again /\ s.level = 2)
      <3> PICK slots : slots = again OBVIOUS
      <3>1. subs' = Rerun(subs, slots, 2, SecondSubs(slots, first')) BY <1>9
      <3> HIDE DEF again
      <3>2. slots \subseteq Mounted \cap watched.second BY <2>3
      <3>3. \A slot \in Mounted \ slots :
               slot \in EffectOf(slot).refetchedBy /\ slot \in watched.second => first'[slot] = first[slot]
        BY <2>4
      <3>4. StateShaped /\ SubsInv BY DEF PagesInv
      <3>5. watched' = watched /\ account' = account /\ detail' = detail BY <1>1, <1>2
      <3>6. /\ SubsInv'
            /\ \A s \in subs' : ~Pending(s) /\ ~s.cleaned /\ Leaked(s.slot)' = {} =>
                  Stays(s) /\ ~(s.slot \in slots /\ s.level = 2)
        BY <1>3, <3>1, <3>2, <3>3, <3>4, <3>5, RefetchKeeps
      <3> QED BY <3>6
    <2>6. StateShaped'
      <3>1. second' = [slot \in Slots |-> second'[slot]] BY <1>7, <1>9
      <3>2. watched' \in Views BY <1>1, <1>5
      <3> QED BY <1>1, <1>2, <2>2, <3>1, <3>2 DEF PagesInv, StateShaped
    <2>7. Arrives'
      <3> SUFFICES ASSUME NEW s \in subs', ~Pending(s), ~s.cleaned, Leaked(s.slot)' = {}
                   PROVE  \/ NoneFor(timers', Len(timers'), s.slot, s.level) /\ Displayed(s)'
                          \/ LastFor(timers', Len(timers'), s.slot, s.level, s.key, s.seen)
        BY DEF Arrives
      <3>1. s \in subs /\ Leaked(s.slot) = {} BY <2>5 DEF Stays
      <3>2. CASE About(t, s.slot, s.level) /\ t.seen = s.seen
        BY <1>6, <1>8, <1>9, <2>1, <3>1, <3>2 DEF About, Displayed
      <3>3. CASE ~About(t, s.slot, s.level)
        <4>1. Displayed(s) => Displayed(s)'
          BY <1>6, <1>9, <2>1, <3>1, <3>3 DEF About, Displayed
        <4> QED BY <1>8, <3>1, <3>3, <4>1
      <3> QED BY <1>8, <3>1, <3>2, <3>3
    <2>8. RecordsPaired' BY <1>9 DEF PagesInv, RecordsPaired
    <2> QED BY <1>4, <2>5, <2>6, <2>7, <2>8 DEF PagesInv
  <1>10. CASE t.level = 2 /\ /\ second' = [second EXCEPT ![t.slot] = Pairs(t)]
                             /\ first' = first /\ subs' = subs
    <2>1. \A slot \in Slots : second'[slot] = IF slot = t.slot THEN Pairs(t) ELSE second[slot]
      BY <1>7, <1>10
    <2>2. SubsInv' BY <1>1, <1>2, <1>3, <1>10, SubsSame DEF PagesInv
    <2>3. StateShaped'
      <3>1. second' = [slot \in Slots |-> second'[slot]] BY <1>7, <1>10
      <3>2. first' = [slot \in Slots |-> first'[slot]] BY <1>7, <1>10
      <3>3. watched' \in Views BY <1>1, <1>5
      <3> QED BY <1>1, <1>2, <3>1, <3>2, <3>3 DEF PagesInv, StateShaped
    <2>4. Arrives'
      <3> SUFFICES ASSUME NEW s \in subs, ~Pending(s), ~s.cleaned, Leaked(s.slot) = {}
                   PROVE  \/ NoneFor(timers', Len(timers'), s.slot, s.level) /\ Displayed(s)'
                          \/ LastFor(timers', Len(timers'), s.slot, s.level, s.key, s.seen)
        BY <1>10 DEF Arrives, Leaked
      <3>1. CASE About(t, s.slot, s.level) /\ t.key = s.key /\ t.seen = s.seen
        <4>1. Pairs(t) = Pairs(s) BY <3>1 DEF Pairs
        <4>2. Displayed(s)' BY <1>6, <1>10, <2>1, <3>1, <4>1 DEF About, Displayed
        <4> QED BY <1>8, <3>1, <4>2
      <3>2. CASE ~About(t, s.slot, s.level)
        <4>1. Displayed(s) => Displayed(s)'
          BY <1>6, <1>10, <2>1, <3>2 DEF About, Displayed
        <4> QED BY <1>8, <3>2, <4>1
      <3> QED BY <1>8, <3>1, <3>2
    <2>5. RecordsPaired'
      <3> SUFFICES ASSUME NEW slot \in TwoLevel, NEW i \in DOMAIN second'[slot]
                   PROVE  second'[slot][i].record[1] = second'[slot][i].id
        BY DEF RecordsPaired
      <3>1. slot \in Slots BY DEF TwoLevel, Slots
      <3>2. CASE slot = t.slot
        <4>1. second'[slot] = Pairs(t) BY <2>1, <3>1, <3>2
        <4>2. i \in DOMAIN t.key /\ second'[slot][i] = [id |-> t.key[i], record |-> t.seen[i]]
          BY <4>1 DEF Pairs
        <4> QED BY <1>4, <1>10, <4>2
      <3>3. CASE slot # t.slot
        <4>1. second'[slot] = second[slot] BY <2>1, <3>1, <3>3
        <4> QED BY <4>1 DEF PagesInv, RecordsPaired
      <3> QED BY <3>2, <3>3
    <2> QED BY <1>4, <2>2, <2>3, <2>4, <2>5 DEF PagesInv
  <1> HIDE DEF t, again
  <1> QED BY <1>9, <1>10 DEF Deliver, t, again

\* The tab chosen asks for the records of both lists again.
LEMMA ChooseTabKeeps ==
  ASSUME PagesInv, NEW t \in Tabs, ChooseTab(t)
  PROVE  PagesInv'
  <1> DEFINE again == {e.slot : e \in {f \in Effects : f.byTab}} \cap watched.second
  <1>1. /\ "assigned" \in Mounted /\ tab' = t
        /\ subs' = Rerun(subs, again, 2, SecondSubs(again, first))
        /\ timers' = timers /\ first' = first /\ second' = second /\ detail' = detail
        /\ sessionVars' = sessionVars /\ watched' = watched
    BY DEF ChooseTab, chainVars
  <1>2. /\ apiState' = apiState /\ keyringState' = keyringState /\ link' = link
        /\ apiReady' = apiReady /\ path' = path /\ account' = account /\ selected' = selected
    BY <1>1 DEF sessionVars
  <1>3. Mounted' = Mounted BY <1>1, MountedSame
  <1>4. watched \in Views BY DEF PagesInv, StateShaped
  <1>5. again \subseteq Mounted \cap watched.second BY <1>1, <1>4, ByTabMounted
  <1>6. /\ SubsInv'
        /\ \A s \in subs' : ~Pending(s) /\ ~s.cleaned /\ Leaked(s.slot)' = {} => Stays(s)
    <2> PICK slots : slots = again OBVIOUS
    <2>1. subs' = Rerun(subs, slots, 2, SecondSubs(slots, first')) BY <1>1
    <2> HIDE DEF again
    <2>2. slots \subseteq Mounted \cap watched.second BY <1>5
    <2>3. \A slot \in Mounted \ slots :
             slot \in EffectOf(slot).refetchedBy /\ slot \in watched.second => first'[slot] = first[slot]
      BY <1>1
    <2>4. StateShaped /\ SubsInv BY DEF PagesInv
    <2>5. watched' = watched /\ account' = account /\ detail' = detail BY <1>1, <1>2
    <2>6. /\ SubsInv'
          /\ \A s \in subs' : ~Pending(s) /\ ~s.cleaned /\ Leaked(s.slot)' = {} =>
                Stays(s) /\ ~(s.slot \in slots /\ s.level = 2)
      BY <1>3, <2>1, <2>2, <2>3, <2>4, <2>5, RefetchKeeps
    <2> QED BY <2>6
  <1> HIDE DEF again
  <1>7. StateShaped' BY <1>1, <1>2 DEF PagesInv, StateShaped
  <1>8. TimersInv' BY <1>1, <1>3 DEF PagesInv, TimersInv, TimersShaped, TimersPaired
  <1>9. Arrives'
    <2> SUFFICES ASSUME NEW s \in subs', ~Pending(s), ~s.cleaned, Leaked(s.slot)' = {}
                 PROVE  \/ NoneFor(timers', Len(timers'), s.slot, s.level) /\ Displayed(s)'
                        \/ LastFor(timers', Len(timers'), s.slot, s.level, s.key, s.seen)
      BY DEF Arrives
    <2>1. s \in subs /\ Leaked(s.slot) = {} BY <1>6 DEF Stays
    <2>2. \/ NoneFor(timers, Len(timers), s.slot, s.level) /\ Displayed(s)
          \/ LastFor(timers, Len(timers), s.slot, s.level, s.key, s.seen)
      BY <2>1 DEF PagesInv, Arrives
    <2> QED BY <1>1, <2>2 DEF Displayed
  <1>10. RecordsPaired' BY <1>1 DEF PagesInv, RecordsPaired
  <1> QED BY <1>6, <1>7, <1>8, <1>9, <1>10 DEF PagesInv

(***************************************************************************)
(* Pages that are mounted and unmounted.                                   *)
(***************************************************************************)

OpensFirst(F, slots, a, d) ==
    /\ \A r \in F :
         /\ DOMAIN r = SubFields /\ r.slot \in slots /\ r.level = 1
         /\ r.cleaned = FALSE /\ Pending(r) /\ r.key = KeyOf(r.slot, a, d)
         /\ r = Sub(r.slot, 1, KeyOf(r.slot, a, d))
    /\ \A slot \in slots : KeyOf(slot, a, d) # NoAccount =>
         \E r \in F :
            r.slot = slot /\ r.level = 1 /\ r.cleaned = FALSE /\ r.key = KeyOf(slot, a, d)

LEMMA FirstSubsAre ==
  ASSUME NEW slots, NEW a, NEW d, NEW F, F = FirstSubs(slots, a, d)
  PROVE  OpensFirst(F, slots, a, d)
  <1>1. ASSUME NEW r \in F
        PROVE  /\ DOMAIN r = SubFields /\ r.slot \in slots /\ r.level = 1
               /\ r.cleaned = FALSE /\ Pending(r) /\ r.key = KeyOf(r.slot, a, d)
               /\ r = Sub(r.slot, 1, KeyOf(r.slot, a, d))
    <2>1. PICK slot \in slots : r = Sub(slot, 1, KeyOf(slot, a, d)) BY DEF FirstSubs
    <2>2. PICK key : key = KeyOf(slot, a, d) OBVIOUS
    <2>3. r = Sub(slot, 1, key) BY <2>1, <2>2
    <2>4. /\ DOMAIN r = SubFields /\ r.slot = slot /\ r.level = 1 /\ r.cleaned = FALSE
          /\ Pending(r) /\ r.key = key
      BY <2>3, SubShape
    <2> QED BY <2>2, <2>3, <2>4
  <1>2. ASSUME NEW slot \in slots, KeyOf(slot, a, d) # NoAccount
        PROVE  \E r \in F :
                 r.slot = slot /\ r.level = 1 /\ r.cleaned = FALSE /\ r.key = KeyOf(slot, a, d)
    <2>1. PICK key : key = KeyOf(slot, a, d) OBVIOUS
    <2> DEFINE r == Sub(slot, 1, key)
    <2>2. r \in F BY <1>2, <2>1 DEF FirstSubs
    <2>3. r.slot = slot /\ r.level = 1 /\ r.cleaned = FALSE /\ r.key = key BY SubShape
    <2> QED BY <2>1, <2>2, <2>3
  <1> QED BY <1>1, <1>2 DEF OpensFirst

OpensSecond(G, slots, f) ==
    /\ \A r \in G :
         /\ DOMAIN r = SubFields /\ r.slot \in slots /\ r.slot \in watched.second /\ r.level = 2
         /\ r.cleaned = FALSE /\ Pending(r) /\ r.key = Refs(r.slot, f[r.slot])
         /\ r = Sub(r.slot, 2, Refs(r.slot, f[r.slot]))
    /\ \A slot \in slots \cap watched.second : f[slot] # NoValue =>
         \E r \in G :
            r.slot = slot /\ r.level = 2 /\ r.cleaned = FALSE /\ r.key = Refs(slot, f[slot])

LEMMA SecondSubsAre ==
  ASSUME NEW slots, NEW f, NEW G, G = SecondSubs(slots, f)
  PROVE  OpensSecond(G, slots, f)
  <1>1. ASSUME NEW r \in G
        PROVE  /\ DOMAIN r = SubFields /\ r.slot \in slots /\ r.slot \in watched.second /\ r.level = 2
               /\ r.cleaned = FALSE /\ Pending(r) /\ r.key = Refs(r.slot, f[r.slot])
               /\ r = Sub(r.slot, 2, Refs(r.slot, f[r.slot]))
    <2>1. PICK slot \in slots \cap watched.second : r = Sub(slot, 2, Refs(slot, f[slot]))
      BY DEF SecondSubs
    <2>2. PICK key : key = Refs(slot, f[slot]) OBVIOUS
    <2>3. r = Sub(slot, 2, key) BY <2>1, <2>2
    <2>4. /\ DOMAIN r = SubFields /\ r.slot = slot /\ r.level = 2 /\ r.cleaned = FALSE
          /\ Pending(r) /\ r.key = key
      BY <2>3, SubShape
    <2> QED BY <2>2, <2>3, <2>4
  <1>2. ASSUME NEW slot \in slots \cap watched.second, f[slot] # NoValue
        PROVE  \E r \in G :
                 r.slot = slot /\ r.level = 2 /\ r.cleaned = FALSE /\ r.key = Refs(slot, f[slot])
    <2>1. PICK key : key = Refs(slot, f[slot]) OBVIOUS
    <2> DEFINE r == Sub(slot, 2, key)
    <2>2. r \in G BY <1>2, <2>1 DEF SecondSubs
    <2>3. r.slot = slot /\ r.level = 2 /\ r.cleaned = FALSE /\ r.key = key BY SubShape
    <2> QED BY <2>1, <2>2, <2>3
  <1> QED BY <1>1, <1>2 DEF OpensSecond

HeldIn(S, slot, level, key) ==
    /\ \E s \in S : Holds(s, slot, level) /\ s.key = key
    /\ \A s \in S : Holds(s, slot, level) => s.key = key

\* The subscriptions M of the slots mounted, when App has account a and the
\* Disputes page the dispute d, and f is what the components received.
Subscribed(M, slots, a, d, f) ==
    /\ \A s \in M : /\ DOMAIN s = SubFields
                    /\ s.slot \in slots /\ s.level \in {1, 2} /\ s.cleaned \in BOOLEAN
    /\ \A slot \in slots : KeyOf(slot, a, d) # NoAccount => HeldIn(M, slot, 1, KeyOf(slot, a, d))
    /\ \A slot \in slots :
          slot \in EffectOf(slot).refetchedBy \cap watched.second /\ f[slot] # NoValue =>
              HeldIn(M, slot, 2, Refs(slot, f[slot]))
    /\ \A s, t \in M : Holds(s, t.slot, t.level) /\ ~t.cleaned => s = t

LEMMA SubsInvIs ==
  /\ SubsInv <=> Subscribed(subs, Mounted, account, detail, first)
  /\ SubsInv' <=> Subscribed(subs, Mounted, account, detail, first)'
  <1>1. \A slot, level, key : HeldIs(slot, level, key) <=> HeldIn(subs, slot, level, key)
    BY DEF HeldIs, HeldIn
  <1>2. \A slot, level, key : HeldIs(slot, level, key)' <=> HeldIn(subs, slot, level, key)'
    BY DEF HeldIs, HeldIn
  <1>3. SubsInv <=> Subscribed(subs, Mounted, account, detail, first)
    BY <1>1 DEF SubsInv, SubsShaped, HoldsFirst, HoldsSecond, HoldsOnce, Subscribed
  <1>4. SubsInv' <=> Subscribed(subs, Mounted, account, detail, first)'
    BY <1>2 DEF SubsInv, SubsShaped, HoldsFirst, HoldsSecond, HoldsOnce, Subscribed
  <1> QED BY <1>3, <1>4

MountsTo(S, slots, was, a, d, f, M) ==
    M = {s \in S : s.slot \in slots \cap was}
           \cup FirstSubs(slots \ (slots \cap was), a, d)
           \cup SecondSubs(slots \ (slots \cap was), f)

MountLeaves(S, stay, M) ==
    /\ \A s \in M : ~Pending(s) => s \in S /\ s.slot \in stay
    /\ \A s \in S : s.slot \in stay => s \in M

\* The slots that stay keep their subscriptions, the others get new ones.
LEMMA MountSubscribes ==
  ASSUME NEW slots, NEW was, NEW S, NEW a, NEW d0, NEW d, NEW f0, NEW f,
         Subscribed(S, was, a, d0, f0),
         \A slot \in slots \cap was : KeyOf(slot, a, d) = KeyOf(slot, a, d0) /\ f[slot] = f0[slot],
         NEW M, MountsTo(S, slots, was, a, d, f, M)
  PROVE  Subscribed(M, slots, a, d, f) /\ MountLeaves(S, slots \cap was, M)
  <1> DEFINE stay == slots \cap was
             kept == {s \in S : s.slot \in stay}
  <1>0. PICK U : U = slots \ stay OBVIOUS
  <1> PICK F, G : F = FirstSubs(U, a, d) /\ G = SecondSubs(U, f) OBVIOUS
  <1>b. OpensFirst(F, U, a, d) BY FirstSubsAre
  <1>c. OpensSecond(G, U, f) BY SecondSubsAre
  <1>1. M = kept \cup F \cup G BY <1>0 DEF MountsTo
  <1>2. \A r \in F : /\ DOMAIN r = SubFields /\ r.slot \in U /\ r.level = 1
                     /\ r.cleaned = FALSE /\ Pending(r) /\ r.key = KeyOf(r.slot, a, d)
                     /\ r = Sub(r.slot, 1, KeyOf(r.slot, a, d))
    BY <1>b DEF OpensFirst
  <1>3. \A slot \in U : KeyOf(slot, a, d) # NoAccount =>
           \E r \in F : r.slot = slot /\ r.level = 1 /\ r.cleaned = FALSE /\ r.key = KeyOf(slot, a, d)
    BY <1>b DEF OpensFirst
  <1>4. \A r \in G : /\ DOMAIN r = SubFields /\ r.slot \in U /\ r.level = 2
                     /\ r.cleaned = FALSE /\ Pending(r) /\ r.key = Refs(r.slot, f[r.slot])
                     /\ r = Sub(r.slot, 2, Refs(r.slot, f[r.slot]))
    BY <1>c DEF OpensSecond
  <1>5. \A slot \in U \cap watched.second : f[slot] # NoValue =>
           \E r \in G : r.slot = slot /\ r.level = 2 /\ r.cleaned = FALSE /\ r.key = Refs(slot, f[slot])
    BY <1>c DEF OpensSecond
  <1>6. /\ \A s \in S : /\ DOMAIN s = SubFields
                        /\ s.slot \in was /\ s.level \in {1, 2} /\ s.cleaned \in BOOLEAN
        /\ \A s, t \in S : Holds(s, t.slot, t.level) /\ ~t.cleaned => s = t
    BY DEF Subscribed
  <1>7. \A s \in M : /\ DOMAIN s = SubFields
                     /\ s.slot \in slots /\ s.level \in {1, 2} /\ s.cleaned \in BOOLEAN
    BY <1>0, <1>1, <1>2, <1>4, <1>6
  <1>8. \A slot \in stay : \A level, key : HeldIn(S, slot, level, key) => HeldIn(M, slot, level, key)
    <2> SUFFICES ASSUME NEW slot \in stay, NEW level, NEW key, HeldIn(S, slot, level, key)
                 PROVE  HeldIn(M, slot, level, key)
      OBVIOUS
    <2>1. PICK s \in S : Holds(s, slot, level) /\ s.key = key BY DEF HeldIn
    <2>2. s \in M BY <1>1, <2>1 DEF Holds
    <2>3. \A r \in M : Holds(r, slot, level) => r \in S BY <1>0, <1>1, <1>2, <1>4 DEF Holds
    <2> QED BY <2>1, <2>2, <2>3 DEF HeldIn
  <1>9. ASSUME NEW slot \in slots, KeyOf(slot, a, d) # NoAccount
        PROVE  HeldIn(M, slot, 1, KeyOf(slot, a, d))
    <2>1. PICK key : key = KeyOf(slot, a, d) OBVIOUS
    <2>2. CASE slot \in stay
      <3>1. HeldIn(S, slot, 1, key) BY <1>9, <2>1, <2>2 DEF Subscribed
      <3> QED BY <1>8, <2>1, <2>2, <3>1
    <2>3. CASE slot \notin stay
      <3>1. PICK s \in F : s.slot = slot /\ s.level = 1 /\ s.cleaned = FALSE /\ s.key = key
        BY <1>0, <1>3, <1>9, <2>1, <2>3
      <3>2. ASSUME NEW r \in M, Holds(r, slot, 1) PROVE r.key = key
        <4>1. r.slot = slot /\ r.level = 1 BY <3>2 DEF Holds
        <4>2. r \in F BY <1>1, <1>4, <2>3, <4>1
        <4> QED BY <1>2, <2>1, <4>1, <4>2
      <3>3. HeldIn(M, slot, 1, key) BY <1>1, <3>1, <3>2 DEF HeldIn, Holds
      <3> QED BY <2>1, <3>3
    <2> QED BY <2>2, <2>3
  <1>10. ASSUME NEW slot \in slots, slot \in EffectOf(slot).refetchedBy \cap watched.second,
                f[slot] # NoValue
         PROVE  HeldIn(M, slot, 2, Refs(slot, f[slot]))
    <2>1. PICK key : key = Refs(slot, f[slot]) OBVIOUS
    <2>2. CASE slot \in stay
      <3>1. HeldIn(S, slot, 2, key) BY <1>10, <2>1, <2>2 DEF Subscribed
      <3> QED BY <1>8, <2>1, <2>2, <3>1
    <2>3. CASE slot \notin stay
      <3>1. PICK s \in G : s.slot = slot /\ s.level = 2 /\ s.cleaned = FALSE /\ s.key = key
        BY <1>0, <1>5, <1>10, <2>1, <2>3
      <3>2. ASSUME NEW r \in M, Holds(r, slot, 2) PROVE r.key = key
        <4>1. r.slot = slot /\ r.level = 2 BY <3>2 DEF Holds
        <4>2. r \in G BY <1>1, <1>2, <2>3, <4>1
        <4> QED BY <1>4, <2>1, <4>1, <4>2
      <3>3. HeldIn(M, slot, 2, key) BY <1>1, <3>1, <3>2 DEF HeldIn, Holds
      <3> QED BY <2>1, <3>3
    <2> QED BY <2>2, <2>3
  <1>11. ASSUME NEW s \in M, NEW t \in M, Holds(s, t.slot, t.level), ~t.cleaned
         PROVE  s = t
    <2>1. s.slot = t.slot /\ s.level = t.level /\ ~s.cleaned BY <1>11 DEF Holds
    <2>2. CASE t \in kept
      <3>1. s \in kept BY <1>0, <1>1, <1>2, <1>4, <2>1, <2>2
      <3> QED BY <1>6, <1>11, <2>2, <3>1
    <2>3. CASE t \in F
      <3>1. t.slot \in U /\ t.level = 1 BY <1>2, <2>3
      <3>2. s \notin kept BY <1>0, <2>1, <3>1
      <3>3. ASSUME s \in G PROVE FALSE
        <4>1. s.level = 2 BY <1>4, <3>3
        <4> QED BY <2>1, <3>1, <4>1
      <3>4. s \in F BY <1>1, <3>2, <3>3
      <3> QED BY <1>2, <2>1, <2>3, <3>4
    <2>4. CASE t \in G
      <3>1. t.slot \in U /\ t.level = 2 BY <1>4, <2>4
      <3>2. s \notin kept BY <1>0, <2>1, <3>1
      <3>3. ASSUME s \in F PROVE FALSE
        <4>1. s.level = 1 BY <1>2, <3>3
        <4> QED BY <2>1, <3>1, <4>1
      <3>4. s \in G BY <1>1, <3>2, <3>3
      <3> QED BY <1>4, <2>1, <2>4, <3>4
    <2> QED BY <1>1, <2>2, <2>3, <2>4
  <1>12. Subscribed(M, slots, a, d, f) BY <1>7, <1>9, <1>10, <1>11 DEF Subscribed
  <1> QED BY <1>1, <1>2, <1>4, <1>12 DEF MountLeaves

RerunKeeps(M, R) ==
    /\ \A s \in R : ~Pending(s) /\ ~s.cleaned => s \in M
    /\ \A s \in M : s.cleaned => \E r \in R : r.slot = s.slot /\ r.cleaned

\* The account selected by a remounted selector, or by the user, runs the
\* effects keyed by account again.
LEMMA AccountReruns ==
  ASSUME NEW M, NEW slots \in SUBSET Slots, NEW a0, NEW a, NEW d, NEW f,
         Subscribed(M, slots, a0, d, f),
         NEW K, K = slots \cap Keyed("account"), NEW H, H = FirstSubs(K, a, d),
         NEW R, R = Rerun(M, K, 1, H)
  PROVE  Subscribed(R, slots, a, d, f) /\ RerunKeeps(M, R)
  <1>1. /\ \A s \in M : /\ DOMAIN s = SubFields
                        /\ s.slot \in slots /\ s.level \in {1, 2} /\ s.cleaned \in BOOLEAN
        /\ \A s, t \in M : Holds(s, t.slot, t.level) /\ ~t.cleaned => s = t
    BY DEF Subscribed
  <1>2. RerunLeaves(M, K, 1, H, R) BY <1>1, Reran
  <1>3. OpensFirst(H, K, a, d) BY FirstSubsAre
  <1>4. \A r \in R :
          \/ r \in H
          \/ r \in M /\ ~(r.slot \in K /\ r.level = 1)
          \/ /\ r.cleaned = TRUE /\ DOMAIN r = SubFields
             /\ r.slot \in K /\ r.level = 1
    BY <1>2 DEF RerunLeaves
  <1>5. /\ H \subseteq R
        /\ \A s \in M : ~(s.slot \in K /\ s.level = 1) => s \in R
        /\ \A s \in M : s.cleaned => \E r \in R : r.slot = s.slot /\ r.cleaned
    BY <1>2 DEF RerunLeaves
  <1>6. \A r \in H : /\ DOMAIN r = SubFields /\ r.slot \in K /\ r.level = 1
                     /\ r.cleaned = FALSE /\ Pending(r) /\ r.key = KeyOf(r.slot, a, d)
                     /\ r = Sub(r.slot, 1, KeyOf(r.slot, a, d))
    BY <1>3 DEF OpensFirst
  <1>7. \A slot \in K : KeyOf(slot, a, d) # NoAccount =>
           \E r \in H : r.slot = slot /\ r.level = 1 /\ r.cleaned = FALSE /\ r.key = KeyOf(slot, a, d)
    BY <1>3 DEF OpensFirst
  <1>8. \A r \in R : ~r.cleaned => r \in H \/ (r \in M /\ ~(r.slot \in K /\ r.level = 1))
    BY <1>4
  <1>9. \A s \in R : /\ DOMAIN s = SubFields
                     /\ s.slot \in slots /\ s.level \in {1, 2} /\ s.cleaned \in BOOLEAN
    <2> SUFFICES ASSUME NEW s \in R
                 PROVE  /\ DOMAIN s = SubFields
                        /\ s.slot \in slots /\ s.level \in {1, 2} /\ s.cleaned \in BOOLEAN
      OBVIOUS
    <2>1. CASE s \in H BY <1>6, <2>1
    <2>2. CASE s \in M BY <1>1, <2>2
    <2> QED BY <1>4, <2>1, <2>2
  <1>10. \A slot \in slots : \A level, key : level = 2 \/ slot \notin K =>
            (HeldIn(M, slot, level, key) => HeldIn(R, slot, level, key))
    <2> SUFFICES ASSUME NEW slot \in slots, NEW level, NEW key, level = 2 \/ slot \notin K,
                        HeldIn(M, slot, level, key)
                 PROVE  HeldIn(R, slot, level, key)
      OBVIOUS
    <2>1. PICK s \in M : Holds(s, slot, level) /\ s.key = key BY DEF HeldIn
    <2>2. s \in R BY <1>5, <2>1 DEF Holds
    <2>3. ASSUME NEW r \in R, Holds(r, slot, level) PROVE r \in M
      <3>1. r.slot = slot /\ r.level = level /\ ~r.cleaned BY <2>3 DEF Holds
      <3>2. ASSUME r \in H PROVE FALSE
        <4>1. r.slot \in K /\ r.level = 1 BY <1>6, <3>2
        <4> QED BY <3>1, <4>1
      <3> QED BY <1>8, <3>1, <3>2
    <2> QED BY <2>1, <2>2, <2>3 DEF HeldIn
  <1>11. ASSUME NEW slot \in slots, KeyOf(slot, a, d) # NoAccount
         PROVE  HeldIn(R, slot, 1, KeyOf(slot, a, d))
    <2>1. PICK key : key = KeyOf(slot, a, d) OBVIOUS
    <2>2. CASE slot \in K
      <3>1. PICK s \in H : s.slot = slot /\ s.level = 1 /\ s.cleaned = FALSE /\ s.key = key
        BY <1>7, <1>11, <2>1, <2>2
      <3>2. ASSUME NEW r \in R, Holds(r, slot, 1) PROVE r.key = key
        <4>1. r.slot = slot /\ r.level = 1 /\ ~r.cleaned BY <3>2 DEF Holds
        <4>2. r \in H BY <1>8, <2>2, <4>1
        <4> QED BY <1>6, <2>1, <4>1, <4>2
      <3>3. HeldIn(R, slot, 1, key) BY <1>5, <3>1, <3>2 DEF HeldIn, Holds
      <3> QED BY <2>1, <3>3
    <2>3. CASE slot \notin K
      <3>1. slot \notin Keyed("account") BY <2>3
      <3>2. EffectOf(slot).key # "account"
        <4>1. EffectOf(slot) \in Effects /\ EffectOf(slot).slot = slot BY SlotEffect
        <4> QED BY <3>1, <4>1 DEF Keyed
      <3>3. KeyOf(slot, a0, d) = KeyOf(slot, a, d) BY <3>2 DEF KeyOf
      <3>4. HeldIn(M, slot, 1, key) BY <1>11, <2>1, <3>3 DEF Subscribed
      <3> QED BY <1>10, <2>1, <2>3, <3>4
    <2> QED BY <2>2, <2>3
  <1>12. ASSUME NEW slot \in slots, slot \in EffectOf(slot).refetchedBy \cap watched.second,
                f[slot] # NoValue
         PROVE  HeldIn(R, slot, 2, Refs(slot, f[slot]))
    <2>1. PICK key : key = Refs(slot, f[slot]) OBVIOUS
    <2>2. HeldIn(M, slot, 2, key) BY <1>12, <2>1 DEF Subscribed
    <2> QED BY <1>10, <2>1, <2>2
  <1>13. ASSUME NEW s \in R, NEW t \in R, Holds(s, t.slot, t.level), ~t.cleaned
         PROVE  s = t
    <2>1. s.slot = t.slot /\ s.level = t.level /\ ~s.cleaned BY <1>13 DEF Holds
    <2>2. CASE s \in H /\ t \in H BY <1>6, <2>1, <2>2
    <2>3. CASE s \in M /\ t \in M BY <1>1, <1>13, <2>3
    <2>4. ~s.cleaned /\ ~t.cleaned BY <1>13, <2>1
    <2>5. CASE s \in H
      <3>1. t.slot \in K /\ t.level = 1 BY <1>6, <2>1, <2>5
      <3>2. t \in H BY <1>8, <2>4, <3>1
      <3> QED BY <2>2, <2>5, <3>2
    <2>6. CASE s \notin H
      <3>1. s \in M /\ ~(t.slot \in K /\ t.level = 1) BY <1>8, <2>1, <2>4, <2>6
      <3>2. t \notin H BY <1>6, <3>1
      <3>3. t \in M BY <1>8, <2>4, <3>2
      <3> QED BY <2>3, <3>1, <3>3
    <2> QED BY <2>5, <2>6
  <1>14. Subscribed(R, slots, a, d, f)
    <2>1. \A slot \in slots : KeyOf(slot, a, d) # NoAccount => HeldIn(R, slot, 1, KeyOf(slot, a, d))
      BY <1>11
    <2>2. \A slot \in slots :
             slot \in EffectOf(slot).refetchedBy \cap watched.second /\ f[slot] # NoValue =>
               HeldIn(R, slot, 2, Refs(slot, f[slot]))
      BY <1>12
    <2>3. \A s, t \in R : Holds(s, t.slot, t.level) /\ ~t.cleaned => s = t BY <1>13
    <2> QED BY <1>9, <2>1, <2>2, <2>3, Zenon DEF Subscribed
  <1>15. \A s \in R : ~Pending(s) /\ ~s.cleaned => s \in M BY <1>6, <1>8
  <1> QED BY <1>5, <1>14, <1>15 DEF RerunKeeps

\* Whatever is mounted and unmounted, and with whatever account, the pages
\* that stay keep their state and the others start with fresh state.
LEMMA RemountKeeps ==
  ASSUME PagesInv, Remounted, SessionShaped', watched' = watched,
         detail' \in Disputes \cup {NoDispute}, tab' \in Tabs,
         \A slot \in Mounted' \cap Mounted : EffectOf(slot).key = "dispute" => detail' = detail
  PROVE  PagesInv'
  <1> PICK is, was, a, a0, d, d0, f, f0 :
         /\ is = Mounted' /\ was = Mounted
         /\ a = account' /\ a0 = account /\ d = detail' /\ d0 = detail
         /\ f = first' /\ f0 = first
    OBVIOUS
  <1>1. is = MountedOn(apiState', keyringState', path', detail')
    BY DEF Mounted, MountedOn
  <1>2. PICK stay : stay = is \cap was OBVIOUS
  <1>3. /\ f = [slot \in Slots |-> IF slot \in stay THEN f0[slot] ELSE Empty(slot)]
        /\ second' = [slot \in Slots |-> IF slot \in stay THEN second[slot] ELSE <<>>]
        /\ timers' = TimersOf(stay)
    BY <1>1, <1>2 DEF Remounted
  <1>4. watched \in Views /\ watched' \in Views /\ was \subseteq Slots
    BY MountedSlots DEF PagesInv, StateShaped
  <1>5. is \subseteq Slots
    <2>1. watched.first \subseteq Slots BY <1>4, MountedSlots
    <2>2. is \subseteq watched.first BY <1>1 DEF MountedOn
    <2> QED BY <2>1, <2>2
  <1>6. Subscribed(subs, was, a0, d0, f0) BY SubsInvIs DEF PagesInv
  <1>7. ASSUME NEW slot \in stay
        PROVE  KeyOf(slot, a0, d) = KeyOf(slot, a0, d0) /\ f[slot] = f0[slot]
    <2>1. slot \in Mounted' \cap Mounted /\ slot \in Slots BY <1>2, <1>5
    <2>2. EffectOf(slot).key = "dispute" => d = d0 BY <2>1
    <2> QED BY <1>3, <1>7, <2>1, <2>2 DEF KeyOf
  <1>8. PICK M : M = {s \in subs : s.slot \in stay} \cup FirstSubs(is \ stay, a0, d)
                        \cup SecondSubs(is \ stay, f)
    OBVIOUS
  <1>9. Subscribed(M, is, a0, d, f) /\ MountLeaves(subs, stay, M)
    <2> PICK S : S = subs OBVIOUS
    <2>1. MountsTo(S, is, was, a0, d, f, M) BY <1>2, <1>8 DEF MountsTo
    <2>2. Subscribed(S, was, a0, d0, f0) BY <1>6
    <2>3. \A slot \in is \cap was : KeyOf(slot, a0, d) = KeyOf(slot, a0, d0) /\ f[slot] = f0[slot]
      BY <1>2, <1>7
    <2>4. Subscribed(M, is, a0, d, f) /\ MountLeaves(S, is \cap was, M)
      BY <2>1, <2>2, <2>3, MountSubscribes
    <2> QED BY <1>2, <2>4
  <1>10. PICK K, H : K = is \cap Keyed("account") /\ H = FirstSubs(K, a, d) OBVIOUS
  <1>11. subs' = IF a = a0 THEN M ELSE Rerun(M, K, 1, H)
    BY <1>1, <1>2, <1>8, <1>10 DEF Remounted
  <1>12. PICK R : R = subs' OBVIOUS
  <1>13. Subscribed(R, is, a, d, f) /\ RerunKeeps(M, R)
    <2>1. CASE a = a0
      <3>1. R = M BY <1>11, <1>12, <2>1
      <3> QED BY <1>9, <2>1, <3>1 DEF RerunKeeps
    <2>2. CASE a # a0
      <3>1. R = Rerun(M, K, 1, H) BY <1>11, <1>12, <2>2
      <3>2. is \in SUBSET Slots BY <1>5
      <3>3. Subscribed(M, is, a0, d, f) BY <1>9
      <3> QED BY <1>10, <3>1, <3>2, <3>3, AccountReruns
    <2> QED BY <2>1, <2>2
  <1>14. SubsInv'
    <2>1. Subscribed(subs, Mounted, account, detail, first)' BY <1>12, <1>13 DEF Subscribed, HeldIn, Holds
    <2> QED BY <2>1, SubsInvIs
  <1>15. StateShaped'
    <2>1. first' = [slot \in Slots |-> first'[slot]] BY <1>3
    <2>2. second' = [slot \in Slots |-> second'[slot]] BY <1>3
    <2> QED BY <1>4, <2>1, <2>2 DEF StateShaped, SessionShaped
  <1>16. PICK q : q = timers' OBVIOUS
  <1>17. KeptOf(q, stay, Len(timers))
    BY <1>3, <1>16, TimersOfKept DEF PagesInv, TimersInv, TimersShaped
  <1>18. Len(timers) \in Nat /\ DOMAIN timers = 1 .. Len(timers)
    BY SeqFacts DEF PagesInv, TimersInv, TimersShaped
  <1>19. IsSeq(q) /\ Len(q) <= Len(timers) /\ Len(q) \in Nat BY <1>17, SeqFacts DEF KeptOf
  <1>20. \A i \in DOMAIN q : \E j \in DOMAIN timers : q[i] = timers[j] /\ timers[j].slot \in stay
    BY <1>17, <1>18 DEF KeptOf
  <1>21. TimersShaped'
    <2>1. Len(q) <= MaxTimers
      BY <1>18, <1>19, PagesAssumption DEF PagesInv, TimersInv, TimersShaped
    <2>2. \A i \in DOMAIN q : q[i].slot \in is /\ q[i].level \in {1, 2}
      BY <1>2, <1>20 DEF PagesInv, TimersInv, TimersShaped
    <2> QED BY <1>16, <1>19, <2>1, <2>2 DEF TimersShaped
  <1>22. TimersPaired'
    <2> SUFFICES ASSUME NEW i \in DOMAIN q, q[i].level = 2
                 PROVE  \A k \in DOMAIN q[i].key : q[i].seen[k][1] = q[i].key[k]
      BY <1>16 DEF TimersPaired
    <2>1. PICK j \in DOMAIN timers : q[i] = timers[j] BY <1>20
    <2> QED BY <2>1 DEF PagesInv, TimersInv, TimersPaired
  <1>23. Arrives'
    <2> SUFFICES ASSUME NEW s \in R, ~Pending(s), ~s.cleaned, \A r \in R : ~(r.slot = s.slot /\ r.cleaned)
                 PROVE  \/ NoneFor(q, Len(q), s.slot, s.level) /\ Displayed(s)'
                        \/ LastFor(q, Len(q), s.slot, s.level, s.key, s.seen)
      BY <1>12, <1>16 DEF Arrives, Leaked
    <2>1. s \in M BY <1>13 DEF RerunKeeps
    <2>2. s \in subs /\ s.slot \in stay BY <1>9, <2>1 DEF MountLeaves
    <2>3. Leaked(s.slot) = {}
      <3>1. ASSUME NEW u \in subs, u.slot = s.slot, u.cleaned PROVE FALSE
        <4>1. u \in M BY <1>9, <2>2, <3>1 DEF MountLeaves
        <4>2. PICK r \in R : r.slot = u.slot /\ r.cleaned BY <1>13, <3>1, <4>1 DEF RerunKeeps
        <4> QED BY <3>1, <4>2
      <3> QED BY <3>1 DEF Leaked
    <2>4. \/ NoneFor(timers, Len(timers), s.slot, s.level) /\ Displayed(s)
          \/ LastFor(timers, Len(timers), s.slot, s.level, s.key, s.seen)
      BY <2>2, <2>3 DEF PagesInv, Arrives
    <2>5. s.slot \in Slots BY <1>2, <1>5, <2>2
    <2>6. first'[s.slot] = first[s.slot] /\ second'[s.slot] = second[s.slot]
      BY <1>3, <2>2, <2>5
    <2>7. Displayed(s)' = Displayed(s) BY <2>6 DEF Displayed
    <2> QED BY <1>17, <2>2, <2>4, <2>7 DEF KeptOf
  <1>24. RecordsPaired'
    <2> SUFFICES ASSUME NEW slot \in TwoLevel, NEW i \in DOMAIN second'[slot]
                 PROVE  second'[slot][i].record[1] = second'[slot][i].id
      BY DEF RecordsPaired
    <2>1. slot \in Slots BY DEF TwoLevel, Slots
    <2>2. CASE slot \in stay
      <3>1. second'[slot] = second[slot] BY <1>3, <2>1, <2>2
      <3> QED BY <3>1 DEF PagesInv, RecordsPaired
    <2>3. CASE slot \notin stay
      <3>1. second'[slot] = <<>> BY <1>3, <2>1, <2>3
      <3> QED BY <3>1, EmptyQueue
    <2> QED BY <2>2, <2>3
  <1> QED
    BY <1>14, <1>15, <1>21, <1>22, <1>23, <1>24 DEF PagesInv, TimersInv

\* An effect keyed by a dispute is mounted only while its dialog is open.
LEMMA DialogSlots ==
  ASSUME NEW slot \in Mounted, EffectOf(slot).key = "dispute", watched \in Views
  PROVE  Shown /\ detail # NoDispute /\ EffectOf(slot).path = path
  <1>1. slot \in Slots BY MountedSlots
  <1>2. EffectOf(slot) \in Effects BY <1>1, SlotEffect
  <1>3. \A e \in Effects : e.key = "dispute" => e.path # "sidebar"
    BY DEF Effects, PaymentsPage, PayHistoryPage, ResolversPage, AssignedDisputes,
           InvolvedDisputes, DisputeDetail, ProcessPaymentPage, SidebarBalance
  <1> QED BY <1>2, <1>3 DEF Mounted, MountedOn, Shown

LEMMA DialogSlotsNext ==
  ASSUME NEW slot \in Mounted', slot \in Mounted, EffectOf(slot).key = "dispute",
         watched \in Views, watched' = watched
  PROVE  Shows(apiState', keyringState') /\ detail' # NoDispute /\ path' = path
  <1>1. slot \in Slots BY MountedSlots
  <1>2. EffectOf(slot) \in Effects BY <1>1, SlotEffect
  <1>3. \A e \in Effects : e.key = "dispute" => e.path # "sidebar"
    BY DEF Effects, PaymentsPage, PayHistoryPage, ResolversPage, AssignedDisputes,
           InvolvedDisputes, DisputeDetail, ProcessPaymentPage, SidebarBalance
  <1>4. EffectOf(slot).path = path BY DialogSlots
  <1>5. Shows(apiState', keyringState') /\ detail' # NoDispute /\ EffectOf(slot).path = path'
    BY <1>2, <1>3 DEF Mounted, MountedOn
  <1> QED BY <1>4, <1>5

LEMMA SessionStepKeeps ==
  ASSUME PagesInv, SelectorAgrees, SessionStep
  PROVE  PagesInv' /\ SelectorAgrees'
  <1>1. SessionMoves BY DEF SessionStep, SessionMoves
  <1>2. /\ detail' = IF DisputesStay THEN detail ELSE NoDispute
        /\ tab' = IF DisputesStay THEN tab ELSE "Assigned Disputes"
        /\ Remounted /\ watched' = watched
    BY DEF SessionStep, chainVars
  <1>3. SessionShaped BY DEF PagesInv, StateShaped, SessionShaped
  <1>4. SessionShaped' /\ SelectorAgrees' BY <1>1, <1>3, SessionKeeps
  <1>5. watched \in Views BY DEF PagesInv, StateShaped
  <1>6. ASSUME NEW slot \in Mounted' \cap Mounted, EffectOf(slot).key = "dispute"
        PROVE  detail' = detail
    <2>1. Shows(apiState', keyringState') /\ path' = path
      BY <1>2, <1>5, <1>6, DialogSlotsNext
    <2>2. Shown BY <1>5, <1>6, DialogSlots
    <2> QED BY <1>2, <2>1, <2>2 DEF DisputesStay
  <1>7. detail' \in Disputes \cup {NoDispute} /\ tab' \in Tabs
    BY <1>2 DEF PagesInv, StateShaped, Tabs
  <1> QED BY <1>2, <1>4, <1>6, <1>7, RemountKeeps

LEMMA ViewDetailKeeps ==
  ASSUME PagesInv, NEW d \in Disputes \cup {NoDispute}, ViewDetail(d)
  PROVE  PagesInv'
  <1>1. /\ detail' = d /\ tab' = tab /\ watched' = watched /\ sessionVars' = sessionVars
        /\ Remounted
        /\ IF d = NoDispute THEN detail # NoDispute ELSE detail = NoDispute
    BY DEF ViewDetail, chainVars
  <1>2. SessionShaped' BY <1>1 DEF sessionVars, SessionShaped, PagesInv, StateShaped
  <1>3. watched \in Views BY DEF PagesInv, StateShaped
  <1>4. ASSUME NEW slot \in Mounted' \cap Mounted, EffectOf(slot).key = "dispute"
        PROVE  detail' = detail
    <2>1. detail' # NoDispute BY <1>1, <1>3, <1>4, DialogSlotsNext
    <2>2. detail # NoDispute BY <1>3, <1>4, DialogSlots
    <2> QED BY <1>1, <2>1, <2>2
  <1>5. tab' \in Tabs BY <1>1 DEF PagesInv, StateShaped
  <1> QED BY <1>1, <1>2, <1>4, <1>5, RemountKeeps

(***************************************************************************)
(* The theorems.                                                           *)
(***************************************************************************)

LEMMA PagesInitInv == Init => PagesInv /\ SelectorAgrees
  <1> SUFFICES ASSUME Init PROVE PagesInv /\ SelectorAgrees OBVIOUS
  <1>1. ~Shows(apiState, keyringState) BY DEF Init, SessionInit, Shows
  <1>2. Mounted = {} BY <1>1 DEF Mounted, MountedOn
  <1>3. StateShaped BY DEF Init, SessionInit, StateShaped, Tabs
  <1>4. SubsInv
    BY <1>2 DEF Init, SubsInv, SubsShaped, HoldsFirst, HoldsSecond, HoldsOnce
  <1>5. IsSeq(timers) /\ Len(timers) = 0 /\ DOMAIN timers = {} BY EmptyQueue DEF Init
  <1>6. TimersInv
    <2>1. 0 <= MaxTimers BY PagesAssumption
    <2> QED BY <1>5, <2>1 DEF TimersInv, TimersShaped, TimersPaired
  <1>7. Arrives BY DEF Init, Arrives
  <1>8. RecordsPaired
    <2>1. \A slot \in TwoLevel : second[slot] = <<>> BY DEF Init, TwoLevel, Slots
    <2> QED BY <2>1, EmptyQueue DEF RecordsPaired
  <1>9. SelectorAgrees BY <1>1 DEF SelectorAgrees, SelectorShown
  <1> QED BY <1>3, <1>4, <1>6, <1>7, <1>8, <1>9 DEF PagesInv

LEMMA PagesNextKeeps ==
  ASSUME PagesInv, SelectorAgrees, [Next]_vars
  PROVE  PagesInv' /\ SelectorAgrees'
  <1>1. CASE SessionStep BY <1>1, SessionStepKeeps
  <1>2. ASSUME NEW slot \in Lists, NEW k \in Keys, NEW r \in Records, ListGrows(slot, k, r)
        PROVE  PagesInv' /\ SelectorAgrees'
    <2>1. pageVars' = pageVars /\ sessionVars' = sessionVars /\ watched' = watched
      BY <1>2 DEF ListGrows
    <2>2. detail' = detail BY <2>1 DEF pageVars
    <2> QED BY <2>1, <2>2, ChainKeeps, MountedSame
  <1>3. ASSUME NEW r \in Records, RecordChanges(r) PROVE PagesInv' /\ SelectorAgrees'
    <2>1. pageVars' = pageVars /\ sessionVars' = sessionVars /\ watched' = watched
      BY <1>3 DEF RecordChanges
    <2>2. detail' = detail BY <2>1 DEF pageVars
    <2> QED BY <2>1, <2>2, ChainKeeps, MountedSame
  <1>4. ASSUME NEW s \in subs, Receive(s) PROVE PagesInv' /\ SelectorAgrees'
    <2>1. detail' = detail /\ sessionVars' = sessionVars /\ watched' = watched
      BY <1>4 DEF Receive, chainVars
    <2> QED BY <1>4, <2>1, ReceiveKeeps, MountedSame
  <1>5. CASE Deliver
    <2>1. detail' = detail /\ sessionVars' = sessionVars /\ watched' = watched
      BY <1>5 DEF Deliver, chainVars
    <2> QED BY <1>5, <2>1, DeliverKeeps, MountedSame
  <1>6. ASSUME NEW t \in Tabs, ChooseTab(t) PROVE PagesInv' /\ SelectorAgrees'
    <2>1. detail' = detail /\ sessionVars' = sessionVars /\ watched' = watched
      BY <1>6 DEF ChooseTab, chainVars
    <2> QED BY <1>6, <2>1, ChooseTabKeeps, MountedSame
  <1>7. ASSUME NEW d \in Disputes \cup {NoDispute}, ViewDetail(d) PROVE PagesInv' /\ SelectorAgrees'
    <2>1. sessionVars' = sessionVars BY <1>7 DEF ViewDetail
    <2>2. SelectorAgrees' BY <2>1 DEF sessionVars, SelectorAgrees
    <2> QED BY <1>7, <2>2, ViewDetailKeeps
  <1>8. CASE UNCHANGED vars
    <2>1. pageVars' = pageVars /\ sessionVars' = sessionVars /\ watched' = watched
      BY <1>8 DEF vars, chainVars
    <2>2. detail' = detail BY <2>1 DEF pageVars
    <2> QED BY <2>1, <2>2, ChainKeeps, MountedSame
  <1> QED BY <1>1, <1>2, <1>3, <1>4, <1>5, <1>6, <1>7, <1>8 DEF Next

\* The inductive invariant: what is mounted is subscribed to once, and the
\* last callback waiting for a subscription, or the state when none waits,
\* has what it received.
THEOREM PagesSound == Spec => [](PagesInv /\ SelectorAgrees)
  <1>1. Init => PagesInv /\ SelectorAgrees BY PagesInitInv
  <1>2. PagesInv /\ SelectorAgrees /\ [Next]_vars => PagesInv' /\ SelectorAgrees'
    BY PagesNextKeeps
  <1> QED BY <1>1, <1>2, PTL DEF Spec

\* Type correctness: subscriptions belong to effects that are mounted.
THEOREM PagesTyped == Spec => []PagesTypeOK
  <1>1. PagesInv => PagesTypeOK
    BY DEF PagesInv, StateShaped, SubsInv, SubsShaped, TimersInv, TimersShaped, PagesTypeOK
  <1> QED BY <1>1, PagesSound, PTL

\* The account the selector shows is the one the pages are given.
THEOREM SelectorsAgree == Spec => []SelectorAgrees
  BY PagesSound, PTL

\* Each mounted effect holds one subscription, the current one, and what it
\* brought is what the page shows, unless an earlier one leaked.
THEOREM SubscriptionsCurrent == Spec => []OneCurrentSubscription
  <1>1. PagesInv => HoldsOneSubscription
    <2> SUFFICES ASSUME PagesInv PROVE HoldsOneSubscription OBVIOUS
    <2>1. ASSUME NEW slot, NEW level, NEW key, HeldIs(slot, level, key)
          PROVE  {s.key : s \in {t \in subs : t.slot = slot /\ t.level = level /\ ~t.cleaned}} = {key}
      BY <2>1 DEF HeldIs, Holds
    <2>2. ASSUME NEW slot \in Mounted, KeyOf(slot, account, detail) # NoAccount
          PROVE  {s.key : s \in {t \in subs : t.slot = slot /\ t.level = 1 /\ ~t.cleaned}}
                   = {KeyOf(slot, account, detail)}
      <3> PICK key : key = KeyOf(slot, account, detail) OBVIOUS
      <3>1. HeldIs(slot, 1, key) BY <2>2 DEF PagesInv, SubsInv, HoldsFirst
      <3> QED BY <2>1, <3>1
    <2>3. ASSUME NEW slot \in Mounted, slot \in EffectOf(slot).refetchedBy \cap watched.second,
                 first[slot] # NoValue
          PROVE  {s.key : s \in {t \in subs : t.slot = slot /\ t.level = 2 /\ ~t.cleaned}}
                   = {Refs(slot, first[slot])}
      <3> PICK key : key = Refs(slot, first[slot]) OBVIOUS
      <3>1. HeldIs(slot, 2, key) BY <2>3 DEF PagesInv, SubsInv, HoldsSecond
      <3> QED BY <2>1, <3>1
    <2>4. \A slot \in Mounted : \A s, t \in subs :
             s.slot = slot /\ t.slot = slot /\ s.level = t.level /\ ~s.cleaned /\ ~t.cleaned => s = t
      BY DEF PagesInv, SubsInv, HoldsOnce, Holds
    <2> QED BY <2>2, <2>3, <2>4 DEF HoldsOneSubscription
  <1>2. PagesInv => ShowsItsSubscription
    <2> SUFFICES ASSUME PagesInv, NEW s \in subs, ~Pending(s), ~s.cleaned,
                        ~Waiting(s.slot, s.level), Leaked(s.slot) = {}
                 PROVE  Displayed(s)
      BY DEF ShowsItsSubscription, Displayed
    <2>1. DOMAIN timers = 1 .. Len(timers) BY SeqFacts DEF PagesInv, TimersInv, TimersShaped
    <2>2. ~LastFor(timers, Len(timers), s.slot, s.level, s.key, s.seen)
      BY <2>1 DEF LastFor, About, Waiting
    <2> QED BY <2>2 DEF PagesInv, Arrives
  <1> QED BY <1>1, <1>2, PagesSound, PTL DEF OneCurrentSubscription

\* Every record is shown under its own id.
THEOREM RecordsAlwaysPaired == Spec => []RecordsPaired
  <1>1. PagesInv => RecordsPaired BY DEF PagesInv
  <1> QED BY <1>1, PagesSound, PTL
=============================================================================
