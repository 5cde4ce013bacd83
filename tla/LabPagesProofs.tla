--------------------------- MODULE LabPagesProofs ---------------------------
(* The kitties pallet by itself, for any parameters and hash collisions:    *)
(* kitties listed and sold fairly. Then the pages over it, for any API,     *)
(* accounts, inputs and views: the status line is about the last start      *)
(* unless an earlier one escaped, arguments fit their fields, the call      *)
(* shown exists, and what pages and chain store is typed.                   *)
EXTENDS LabPages, BalancesProofs

(***************************************************************************)
(* Lists of identifiers.                                                   *)
(***************************************************************************)

\* The place looked for exists in a list that has the identifier.
LEMMA PositionFound ==
  ASSUME NEW S, NEW s \in Seq(S), NEW id, \E i \in DOMAIN s : s[i] = id
  PROVE  /\ Position(s, id) \in 1 .. Len(s)
         /\ s[Position(s, id)] = id
  <1> DEFINE T == {i \in 1 .. Len(s) : s[i] = id}
             R == OpToRel(<, Nat)
  <1>1. DOMAIN s = 1 .. Len(s) /\ Len(s) \in Nat
    BY LenProperties
  <1>2. T \subseteq Nat /\ T # {}
    BY <1>1
  <1>3. PICK i \in T : \A j \in T : <<j, i>> \notin R
    <2> HIDE DEF T, R
    <2>1. IsWellFoundedOn(R, Nat) BY NatLessThanWellFounded DEF R
    <2> QED BY <1>2, <2>1, WFMin
  <1>4. \A j \in T : ~ (j < i)
    <2> SUFFICES ASSUME NEW j \in T, j < i PROVE FALSE
      OBVIOUS
    <2>1. <<j, i>> \in R
      BY <1>2 DEF OpToRel
    <2> QED BY <1>3, <2>1
  <1>5. i \in DOMAIN s /\ s[i] = id /\ \A j \in DOMAIN s : s[j] = id => i <= j
    BY <1>1, <1>4
  <1>6. Position(s, id) \in DOMAIN s /\ s[Position(s, id)] = id
    BY <1>5 DEF Position
  <1> QED BY <1>1, <1>6

\* What is removed is gone from its place only.
LEMMA SwapRemovedKeeps ==
  ASSUME NEW S, NEW s \in Seq(S), NEW i \in 1 .. Len(s)
  PROVE  /\ SwapRemoved(s, i) \in Seq(S)
         /\ Len(SwapRemoved(s, i)) = Len(s) - 1
         /\ \A j \in DOMAIN SwapRemoved(s, i) : \E k \in DOMAIN s : SwapRemoved(s, i)[j] = s[k]
         /\ \A k \in DOMAIN s : s[k] # s[i] =>
               \E j \in DOMAIN SwapRemoved(s, i) : SwapRemoved(s, i)[j] = s[k]
  <1> DEFINE n == Len(s)
             r == SwapRemoved(s, i)
  <1>1. n \in Nat /\ n > 0 /\ n - 1 \in Nat /\ DOMAIN s = 1 .. n /\ s \in [1 .. n -> S]
    BY LenProperties
  <1>2. r = [j \in 1 .. n - 1 |-> IF j = i THEN s[n] ELSE s[j]]
    BY DEF SwapRemoved
  <1>3. r \in [1 .. n - 1 -> S]
    BY <1>1, <1>2
  <1>4. r \in Seq(S) /\ Len(r) = n - 1
    <2>1. r \in Seq(S) BY <1>1, <1>3, SeqDef
    <2>2. DOMAIN r = 1 .. n - 1 BY <1>3
    <2>3. Len(r) \in Nat /\ 1 .. Len(r) = 1 .. n - 1
      BY <2>1, <2>2, LenProperties
    <2> HIDE DEF r, n
    <2>4. \A k, l \in Nat : 1 .. k = 1 .. l => k = l
      <3> SUFFICES ASSUME NEW k \in Nat, NEW l \in Nat, 1 .. k = 1 .. l PROVE k = l
        OBVIOUS
      <3>1. k = 0 <=> l = 0 OBVIOUS
      <3>2. CASE k > 0 /\ l > 0
        <4>1. k \in 1 .. l /\ l \in 1 .. k BY <3>2
        <4> QED BY <4>1
      <3> QED BY <3>1, <3>2
    <2> QED BY <1>1, <2>1, <2>3, <2>4
  <1>5. \A j \in DOMAIN r : \E k \in DOMAIN s : r[j] = s[k]
    BY <1>1, <1>2
  <1>6. ASSUME NEW k \in DOMAIN s, s[k] # s[i]
        PROVE  \E j \in DOMAIN r : r[j] = s[k]
    <2>1. CASE k = n
      <3>1. i \in 1 .. n - 1 BY <1>1, <1>6, <2>1
      <3> QED BY <1>2, <2>1, <3>1
    <2>2. CASE k # n
      <3>1. k \in 1 .. n - 1 /\ k # i BY <1>1, <1>6, <2>2
      <3> QED BY <1>2, <3>1
    <2> QED BY <2>1, <2>2
  <1> QED BY <1>4, <1>5, <1>6

(***************************************************************************)
(* The inductive invariant.                                                *)
(***************************************************************************)

KittyTypes ==
    /\ DOMAIN kitties \subseteq KittyId
    /\ \A id \in DOMAIN kitties : kitties[id] \in Kitty
    /\ kittiesOwned \in [Accounts -> Seq(KittyId)]
    /\ kittyCnt \in 0 .. MaxCount
    /\ random \in Random

KittiesInv == Sound(free, locks) /\ KittyTypes /\ KittiesListed

LEMMA KittiesInitInv == KittiesInit => KittiesInv
  <1> SUFFICES ASSUME KittiesInit PROVE KittiesInv
    OBVIOUS
  <1>1. Sound(free, locks) BY InitSound DEF KittiesInit
  <1>2. DOMAIN kitties = {} BY DEF KittiesInit
  <1>3. /\ kittiesOwned = [a \in Accounts |-> <<>>]
        /\ <<>> \in Seq(KittyId) /\ Len(<<>>) = 0 /\ DOMAIN <<>> = {}
    BY EmptySeq DEF KittiesInit
  <1>4. KittyTypes
    BY <1>2, <1>3, KittiesAssumption DEF KittyTypes, KittiesInit
  <1>5. KittiesListed
    BY <1>2, <1>3, KittiesAssumption DEF KittiesListed
  <1> QED BY <1>1, <1>4, <1>5 DEF KittiesInv

LEMMA Inserted ==
  ASSUME NEW id, NEW kitty, Insert(id, kitty)
  PROVE  /\ DOMAIN kitties' = DOMAIN kitties \cup {id}
         /\ kitties'[id] = kitty
         /\ \A x \in DOMAIN kitties : x # id => kitties'[x] = kitties[x]
  BY DEF Insert

\* An identifier appended is listed, and those listed before still are.
LEMMA Listed ==
  ASSUME NEW s \in Seq(KittyId), NEW id \in KittyId
  PROVE  /\ Append(s, id) \in Seq(KittyId)
         /\ Len(Append(s, id)) = Len(s) + 1 /\ Len(s) \in Nat
         /\ \E i \in DOMAIN Append(s, id) : Append(s, id)[i] = id
         /\ \A i \in DOMAIN s : \E j \in DOMAIN Append(s, id) : Append(s, id)[j] = s[i]
         /\ \A j \in DOMAIN Append(s, id) :
               Append(s, id)[j] = id \/ \E i \in DOMAIN s : Append(s, id)[j] = s[i]
  <1> DEFINE r == Append(s, id)
             n == Len(s)
  <1>1. n \in Nat /\ DOMAIN s = 1 .. n
    BY LenProperties
  <1>2. /\ r \in Seq(KittyId) /\ Len(r) = n + 1
        /\ \A i \in 1 .. n : r[i] = s[i]
        /\ r[n + 1] = id
    BY AppendProperties
  <1>3. DOMAIN r = 1 .. n + 1
    BY <1>2, LenProperties
  <1> HIDE DEF r, n
  <1>4. n + 1 \in DOMAIN r /\ 1 .. n \subseteq DOMAIN r
    BY <1>1, <1>3
  <1>5. \A j \in DOMAIN r : j = n + 1 \/ j \in 1 .. n
    BY <1>1, <1>3
  <1>6. \E i \in DOMAIN r : r[i] = id
    BY <1>2, <1>4
  <1>7. \A i \in DOMAIN s : \E j \in DOMAIN r : r[j] = s[i]
    BY <1>1, <1>2, <1>4
  <1>8. \A j \in DOMAIN r : r[j] = id \/ \E i \in DOMAIN s : r[j] = s[i]
    BY <1>1, <1>2, <1>5
  <1> QED BY <1>1, <1>2, <1>6, <1>7, <1>8 DEF r, n

(***************************************************************************)
(* Minting.                                                                *)
(***************************************************************************)

LEMMA MintKeeps ==
  ASSUME KittyTypes, KittiesListed, NEW a \in Accounts, NEW dna \in SUBSET Bits,
         Mint(a, dna), random' = random
  PROVE  /\ KittyTypes' /\ KittiesListed'
         /\ DOMAIN kitties \subseteq DOMAIN kitties'
         /\ \A x \in DOMAIN kitties : kitties'[x].owner # kitties[x].owner => kitties'[x].price = {}
  <1> DEFINE kitty == [dna |-> dna, price |-> {}, gender |-> random.gender, owner |-> a]
             id == HashOf(kitty)
  <1>1. /\ Insert(id, kitty) /\ Room(a) /\ kittyCnt < MaxCount /\ kittyCnt' = kittyCnt + 1
        /\ kittiesOwned' = [kittiesOwned EXCEPT ![a] = Append(@, id)]
    BY DEF Mint
  <1>2. random.gender \in Gender
    BY DEF KittyTypes, Random
  <1>3. kitty \in Kitty /\ id \in KittyId
    BY <1>2 DEF Kitty, KittyId, HashOf, Price
  <1>4. kitty.price = {} /\ kitty.owner = a
    OBVIOUS
  <1> HIDE DEF kitty, id
  <1>5. /\ DOMAIN kitties' = DOMAIN kitties \cup {id}
        /\ kitties'[id] = kitty
        /\ \A x \in DOMAIN kitties : x # id => kitties'[x] = kitties[x]
    BY <1>1, Inserted
  <1>6. kittiesOwned[a] \in Seq(KittyId)
    BY DEF KittyTypes
  <1>7. /\ kittiesOwned' \in [Accounts -> Seq(KittyId)]
        /\ kittiesOwned'[a] = Append(kittiesOwned[a], id)
        /\ \A b \in Accounts : b # a => kittiesOwned'[b] = kittiesOwned[b]
    BY <1>1, <1>3, <1>6, Listed DEF KittyTypes
  <1>8. KittyTypes'
    <2>1. kittyCnt' \in 0 .. MaxCount
      BY <1>1, KittiesAssumption DEF KittyTypes
    <2>2. DOMAIN kitties' \subseteq KittyId /\ \A x \in DOMAIN kitties' : kitties'[x] \in Kitty
      BY <1>3, <1>5 DEF KittyTypes
    <2> QED BY <1>7, <2>1, <2>2 DEF KittyTypes
  <1>9. KittiesListed'
    <2> DEFINE r == Append(kittiesOwned[a], id)
               New(b, x) == \E i \in DOMAIN kittiesOwned'[b] : kittiesOwned'[b][i] = x
    <2>a. /\ \E i \in DOMAIN r : r[i] = id
          /\ \A i \in DOMAIN kittiesOwned[a] : \E j \in DOMAIN r : r[j] = kittiesOwned[a][i]
          /\ \A j \in DOMAIN r : r[j] = id \/ \E i \in DOMAIN kittiesOwned[a] : r[j] = kittiesOwned[a][i]
      BY <1>3, <1>6, Listed
    <2> HIDE DEF r
    <2>b. kittiesOwned'[a] = r
      BY <1>7 DEF r
    <2>1. \A b \in Accounts, x \in KittyId : ListedFor(b, x) => New(b, x)
      <3> SUFFICES ASSUME NEW b \in Accounts, NEW x \in KittyId, ListedFor(b, x)
                   PROVE  New(b, x)
        OBVIOUS
      <3>1. CASE b = a
        BY <2>a, <2>b, <3>1 DEF ListedFor
      <3>2. CASE b # a
        BY <1>7, <3>2 DEF ListedFor
      <3> QED BY <3>1, <3>2
    <2>2. New(a, id)
      BY <2>a, <2>b
    <2>3. \A x \in DOMAIN kitties' : New(kitties'[x].owner, x)
      <3> SUFFICES ASSUME NEW x \in DOMAIN kitties' PROVE New(kitties'[x].owner, x)
        OBVIOUS
      <3> HIDE DEF New
      <3>1. CASE x = id
        BY <1>4, <1>5, <2>2, <3>1
      <3>2. CASE x # id
        <4>1. x \in DOMAIN kitties /\ kitties'[x] = kitties[x]
          BY <1>5, <3>2
        <4>2. kitties[x].owner \in Accounts /\ x \in KittyId /\ ListedFor(kitties[x].owner, x)
          BY <4>1 DEF KittyTypes, Kitty, KittiesListed
        <4> QED BY <2>1, <4>1, <4>2
      <3> QED BY <3>1, <3>2
    <2>4. \A b \in Accounts : \A i \in DOMAIN kittiesOwned'[b] : kittiesOwned'[b][i] \in DOMAIN kitties'
      <3> SUFFICES ASSUME NEW b \in Accounts, NEW i \in DOMAIN kittiesOwned'[b]
                   PROVE  kittiesOwned'[b][i] \in DOMAIN kitties'
        OBVIOUS
      <3>1. \A j \in DOMAIN kittiesOwned[b] : kittiesOwned[b][j] \in DOMAIN kitties
        BY DEF KittiesListed
      <3>2. CASE b = a
        BY <1>5, <2>a, <2>b, <3>1, <3>2
      <3>3. CASE b # a
        BY <1>5, <1>7, <3>1, <3>3
      <3> QED BY <3>2, <3>3
    <2>5. \A b \in Accounts : Len(kittiesOwned'[b]) <= MaxKittyOwned
      <3> SUFFICES ASSUME NEW b \in Accounts PROVE Len(kittiesOwned'[b]) <= MaxKittyOwned
        OBVIOUS
      <3>1. Len(kittiesOwned[b]) <= MaxKittyOwned
        BY DEF KittiesListed
      <3>2. CASE b = a
        <4>1. Len(kittiesOwned'[a]) = Len(kittiesOwned[a]) + 1 /\ Len(kittiesOwned[a]) \in Nat
          BY <1>3, <1>6, <1>7, Listed
        <4>2. Len(kittiesOwned[a]) < MaxKittyOwned
          BY <1>1 DEF Room
        <4> QED BY <3>2, <4>1, <4>2, KittiesAssumption
      <3>3. CASE b # a
        BY <1>7, <3>1, <3>3
      <3> QED BY <3>2, <3>3
    <2> QED BY <2>3, <2>4, <2>5 DEF KittiesListed, ListedFor
  <1> QED BY <1>4, <1>5, <1>8, <1>9

(***************************************************************************)
(* Changing hands.                                                         *)
(***************************************************************************)

LEMMA HandedOver ==
  ASSUME KittyTypes, KittiesListed, NEW id \in DOMAIN kitties, NEW to \in Accounts,
         kitties[id].owner # to, TransferKittyTo(id, to), random' = random
  PROVE  /\ KittyTypes' /\ KittiesListed'
         /\ DOMAIN kitties' = DOMAIN kitties
         /\ kitties'[id].owner = to /\ kitties'[id].price = {}
         /\ \A x \in DOMAIN kitties : x # id => kitties'[x] = kitties[x]
  <1> DEFINE from == kitties[id].owner
             kitty == [kitties[id] EXCEPT !.owner = to, !.price = {}]
             i == Position(kittiesOwned[from], id)
             r == SwapRemoved(kittiesOwned[from], i)
             q == Append(kittiesOwned[to], id)
             New(b, x) == \E j \in DOMAIN kittiesOwned'[b] : kittiesOwned'[b][j] = x
  <1>1. /\ Insert(id, kitty) /\ Room(to) /\ kittyCnt' = kittyCnt
        /\ kittiesOwned' = [kittiesOwned EXCEPT
                              ![from] = SwapRemoved(@, Position(@, id)), ![to] = Append(@, id)]
        /\ \E j \in DOMAIN kittiesOwned[from] : kittiesOwned[from][j] = id
    BY DEF TransferKittyTo
  <1>2. /\ from \in Accounts /\ id \in KittyId /\ from # to
        /\ kittiesOwned[from] \in Seq(KittyId) /\ kittiesOwned[to] \in Seq(KittyId)
    BY DEF KittyTypes, Kitty
  <1>3. kitty \in Kitty /\ kitty.owner = to /\ kitty.price = {}
    BY DEF KittyTypes, Kitty, Price
  <1>4. i \in 1 .. Len(kittiesOwned[from]) /\ kittiesOwned[from][i] = id
    BY <1>1, <1>2, PositionFound
  <1>5. /\ r \in Seq(KittyId) /\ Len(r) = Len(kittiesOwned[from]) - 1
        /\ \A j \in DOMAIN r : \E k \in DOMAIN kittiesOwned[from] : r[j] = kittiesOwned[from][k]
        /\ \A k \in DOMAIN kittiesOwned[from] : kittiesOwned[from][k] # id =>
               \E j \in DOMAIN r : r[j] = kittiesOwned[from][k]
    <2> HIDE DEF i
    <2> QED BY <1>2, <1>4, SwapRemovedKeeps, ZenonT(40)
  <1>6. /\ q \in Seq(KittyId) /\ Len(q) = Len(kittiesOwned[to]) + 1
        /\ Len(kittiesOwned[to]) \in Nat
        /\ \E j \in DOMAIN q : q[j] = id
        /\ \A k \in DOMAIN kittiesOwned[to] : \E j \in DOMAIN q : q[j] = kittiesOwned[to][k]
        /\ \A j \in DOMAIN q : q[j] = id \/ \E k \in DOMAIN kittiesOwned[to] : q[j] = kittiesOwned[to][k]
    BY <1>2, Listed, ZenonT(40)
  <1>7. /\ kittiesOwned' \in [Accounts -> Seq(KittyId)]
        /\ kittiesOwned'[from] = r /\ kittiesOwned'[to] = q
        /\ \A b \in Accounts : b # from /\ b # to => kittiesOwned'[b] = kittiesOwned[b]
    <2>1. kittiesOwned' = [kittiesOwned EXCEPT ![from] = r, ![to] = q]
      BY <1>1, <1>2 DEF KittyTypes
    <2> HIDE DEF r, q, from
    <2> QED BY <1>2, <1>5, <1>6, <2>1 DEF KittyTypes
  <1> HIDE DEF from, kitty, i, r, q
  <1>8. /\ DOMAIN kitties' = DOMAIN kitties
        /\ kitties'[id] = kitty
        /\ \A x \in DOMAIN kitties : x # id => kitties'[x] = kitties[x]
    <2>1. Insert(id, kitty) BY <1>1
    <2> QED BY <2>1, Inserted
  <1>9. KittyTypes'
    BY <1>1, <1>3, <1>7, <1>8 DEF KittyTypes
  <1>10. \A b \in Accounts, x \in KittyId : x # id /\ ListedFor(b, x) => New(b, x)
    <2> SUFFICES ASSUME NEW b \in Accounts, NEW x \in KittyId, x # id, ListedFor(b, x)
                 PROVE  New(b, x)
      OBVIOUS
    <2>1. PICK k \in DOMAIN kittiesOwned[b] : kittiesOwned[b][k] = x
      BY DEF ListedFor
    <2>2. CASE b = from BY <1>5, <1>7, <2>1, <2>2
    <2>3. CASE b = to BY <1>6, <1>7, <2>1, <2>3
    <2>4. CASE b # from /\ b # to BY <1>7, <2>1, <2>4
    <2> QED BY <2>2, <2>3, <2>4
  <1>11. New(to, id)
    BY <1>6, <1>7
  <1>12. \A x \in DOMAIN kitties' : New(kitties'[x].owner, x)
    <2> SUFFICES ASSUME NEW x \in DOMAIN kitties' PROVE New(kitties'[x].owner, x)
      OBVIOUS
    <2> HIDE DEF New
    <2>1. CASE x = id
      BY <1>3, <1>8, <1>11, <2>1
    <2>2. CASE x # id
      <3>1. kitties[x].owner \in Accounts /\ x \in KittyId /\ ListedFor(kitties[x].owner, x)
        BY <1>8 DEF KittyTypes, Kitty, KittiesListed
      <3> QED BY <1>8, <1>10, <2>2, <3>1
    <2> QED BY <2>1, <2>2
  <1>13. ASSUME NEW b \in Accounts
         PROVE  /\ \A j \in DOMAIN kittiesOwned'[b] : kittiesOwned'[b][j] \in DOMAIN kitties'
                /\ Len(kittiesOwned'[b]) <= MaxKittyOwned
    <2>1. \A c \in Accounts : /\ \A j \in DOMAIN kittiesOwned[c] : kittiesOwned[c][j] \in DOMAIN kitties
                              /\ Len(kittiesOwned[c]) <= MaxKittyOwned
      BY DEF KittiesListed
    <2>2. CASE b = from
      <3>1. Len(kittiesOwned[from]) \in Nat BY <1>2, LenProperties
      <3>2. Len(r) <= MaxKittyOwned
        BY <1>2, <1>5, <2>1, <3>1, KittiesAssumption
      <3>3. \A j \in DOMAIN r : r[j] \in DOMAIN kitties
        BY <1>2, <1>5, <2>1
      <3> QED BY <1>7, <1>8, <2>2, <3>2, <3>3
    <2>3. CASE b = to
      <3>1. Len(kittiesOwned[to]) < MaxKittyOwned BY <1>1 DEF Room
      <3>2. Len(q) <= MaxKittyOwned
        BY <1>6, <3>1, KittiesAssumption
      <3>3. \A j \in DOMAIN q : q[j] \in DOMAIN kitties
        BY <1>2, <1>6, <2>1
      <3> QED BY <1>7, <1>8, <2>3, <3>2, <3>3
    <2>4. CASE b # from /\ b # to
      BY <1>7, <1>8, <2>1, <2>4
    <2> QED BY <2>2, <2>3, <2>4
  <1>14. KittiesListed'
    BY <1>12, <1>13 DEF KittiesListed, ListedFor
  <1> QED BY <1>3, <1>8, <1>9, <1>14

(***************************************************************************)
(* The calls.                                                              *)
(***************************************************************************)

\* What a step may do to kitties and to tokens.
SaleStep ==
    /\ \A id \in DOMAIN kitties :
         /\ id \in DOMAIN kitties'
         /\ kitties'[id].owner # kitties[id].owner => kitties'[id].price = {}
    /\ free' # free => \E id \in DOMAIN kitties : SoldIn(id)

LEMMA MintSteps ==
  ASSUME KittiesInv, NEW a \in Accounts, CreateKitty(a) \/ \E p1, p2 \in DOMAIN kitties : BreedKitty(a, p1, p2)
  PROVE  KittiesInv' /\ SaleStep
  <1>1. UNCHANGED <<balanceVars, random>> /\ \E dna \in SUBSET Bits : Mint(a, dna)
    <2>1. random.dna \in SUBSET Bits /\ \A p \in DOMAIN kitties : kitties[p].dna \in SUBSET Bits
      BY DEF KittiesInv, KittyTypes, Random, Kitty
    <2>2. \A p1, p2 \in DOMAIN kitties : BreedDna(p1, p2) \in SUBSET Bits
      BY <2>1 DEF BreedDna
    <2> QED BY <2>1, <2>2 DEF CreateKitty, BreedKitty
  <1>2. free' = free /\ locks' = locks /\ random' = random
    BY <1>1 DEF balanceVars
  <1> QED BY <1>1, <1>2, MintKeeps DEF KittiesInv, SaleStep

LEMMA PriceSteps ==
  ASSUME KittiesInv, NEW a \in Accounts, NEW id \in DOMAIN kitties,
         NEW price \in {{}} \cup {{p} : p \in Prices}, SetPrice(a, id, price)
  PROVE  KittiesInv' /\ SaleStep
  <1> DEFINE kitty == [kitties[id] EXCEPT !.price = price]
  <1>1. /\ Insert(id, kitty)
        /\ free' = free /\ locks' = locks
        /\ kittiesOwned' = kittiesOwned /\ kittyCnt' = kittyCnt /\ random' = random
    BY DEF SetPrice, balanceVars
  <1>2. price \in Price
    BY KittiesAssumption DEF Price, Balance
  <1>3. kitty \in Kitty /\ kitty.owner = kitties[id].owner
    BY <1>2 DEF KittiesInv, KittyTypes, Kitty
  <1> HIDE DEF kitty
  <1>4. /\ DOMAIN kitties' = DOMAIN kitties
        /\ kitties'[id] = kitty
        /\ \A x \in DOMAIN kitties : x # id => kitties'[x] = kitties[x]
    BY <1>1, Inserted
  <1>5. \A x \in DOMAIN kitties : kitties'[x].owner = kitties[x].owner
    BY <1>3, <1>4
  <1>6. KittyTypes'
    BY <1>1, <1>3, <1>4 DEF KittiesInv, KittyTypes
  <1>7. KittiesListed'
    BY <1>1, <1>4, <1>5 DEF KittiesInv, KittiesListed, ListedFor
  <1>8. SaleStep
    BY <1>1, <1>4, <1>5 DEF SaleStep
  <1> QED BY <1>1, <1>6, <1>7, <1>8 DEF KittiesInv

LEMMA TransferSteps ==
  ASSUME KittiesInv, NEW a \in Accounts, NEW to \in Accounts, NEW id \in DOMAIN kitties,
         Transfer(a, to, id)
  PROVE  KittiesInv' /\ SaleStep
  <1>1. /\ kitties[id].owner # to /\ TransferKittyTo(id, to) /\ random' = random
        /\ free' = free /\ locks' = locks
    BY DEF Transfer, IsKittyOwner, balanceVars
  <1> QED BY <1>1, HandedOver DEF KittiesInv, SaleStep

LEMMA BuySteps ==
  ASSUME KittiesInv, NEW a \in Accounts, NEW id \in DOMAIN kitties, NEW bid \in Prices,
         BuyKitty(a, id, bid)
  PROVE  KittiesInv' /\ SaleStep
  <1> DEFINE seller == kitties[id].owner
  <1>1. /\ seller # a /\ \E ask \in kitties[id].price : ask <= bid
        /\ CanTransfer(free, locks, a, seller, bid)
        /\ free' = Moved(free, a, seller, bid) /\ locks' = locks
        /\ TransferKittyTo(id, a) /\ random' = random
    BY DEF BuyKitty
  <1>2. seller \in Accounts /\ bid \in Balance /\ kitties[id].price \subseteq Nat
    BY KittiesAssumption DEF KittiesInv, KittyTypes, Kitty, Price, Balance
  <1> HIDE DEF seller
  <1>3. Sound(free', locks')
    BY <1>1, <1>2, MovedSound DEF KittiesInv
  <1>4. /\ KittyTypes' /\ KittiesListed'
        /\ DOMAIN kitties' = DOMAIN kitties
        /\ kitties'[id].owner = a /\ kitties'[id].price = {}
        /\ \A x \in DOMAIN kitties : x # id => kitties'[x] = kitties[x]
    BY <1>1, HandedOver DEF KittiesInv, seller
  <1>5. ASSUME free' # free PROVE SoldIn(id)
    <2>1. ~ Noop(a, seller, bid)
      BY <1>1, <1>5 DEF Moved
    <2>2. free' = [b \in Accounts |-> IF b = seller THEN free[seller] + bid
                                     ELSE IF b = a THEN free[a] - bid ELSE free[b]]
      BY <1>1, <1>2, <2>1 DEF Moved, KittiesInv, Sound
    <2>3. free[a] \in Nat /\ free[seller] \in Nat /\ bid \in Nat
      BY <1>2, BalancesAssumption DEF KittiesInv, Sound, Balance
    <2>4. /\ free'[seller] = free[seller] + bid /\ free'[a] = free[a] - bid
          /\ \A b \in Accounts \ {a, seller} : free'[b] = free[b]
      BY <1>1, <1>2, <2>2
    <2>5. \E ask \in kitties[id].price : free'[seller] >= free[seller] + ask
      BY <1>1, <1>2, <2>3, <2>4
    <2>6. free'[a] + free'[seller] = free[a] + free[seller]
      BY <2>3, <2>4
    <2> QED BY <1>1, <1>4, <2>4, <2>5, <2>6 DEF SoldIn, seller
  <1> QED BY <1>3, <1>4, <1>5 DEF KittiesInv, SaleStep

LEMMA KittiesNextKeeps ==
  ASSUME KittiesInv, [KittiesNext]_kittyVars
  PROVE  KittiesInv' /\ [SaleStep]_kittyVars
  <1>1. CASE UNCHANGED kittyVars
    BY <1>1 DEF kittyVars, balanceVars, KittiesInv, KittyTypes, KittiesListed, ListedFor
  <1>2. CASE NextBlock
    <2>1. UNCHANGED <<free, locks, kitties, kittiesOwned, kittyCnt>> /\ random' \in Random
      BY <1>2 DEF NextBlock, balanceVars
    <2> QED BY <2>1 DEF KittiesInv, KittyTypes, KittiesListed, ListedFor, SaleStep
  <1>3. ASSUME NEW a \in Accounts, KittyCalls(a)
        PROVE  KittiesInv' /\ SaleStep
    BY <1>3, MintSteps, PriceSteps, TransferSteps, BuySteps DEF KittyCalls
  <1> QED BY <1>1, <1>2, <1>3 DEF KittiesNext

\* Accounts stay free of dust and the pallet's storage is typed, for any
\* parameters and random values.
THEOREM KittiesSafe == KittiesSpec => [](NoDust /\ KittiesTypeOK)
  <1>1. KittiesInv => NoDust /\ KittiesTypeOK
    BY DEF KittiesInv, KittyTypes, KittiesTypeOK, BalancesTypeOK, Sound, NoDust
  <1> QED BY <1>1, KittiesInitInv, KittiesNextKeeps, PTL DEF KittiesSpec

\* Mints, transfers and sales in any order, some refused half-way or of one
\* kitty twice in a block, leave every kitty in its owner's list, and nothing
\* but stored kitties in lists within the bound (lib.rs:180-333, 343-370).
THEOREM KittiesOwned == KittiesSpec => []KittiesListed
  <1>1. KittiesInv => KittiesListed BY DEF KittiesInv
  <1> QED BY <1>1, KittiesInitInv, KittiesNextKeeps, PTL DEF KittiesSpec

\* Tokens move only against a kitty that was for sale, at its owner's price
\* or above, and what changes hands is not for sale.
THEOREM KittiesSoldFairly == KittiesSpec => SaleFair
  <1>1. KittiesInv /\ [KittiesNext]_kittyVars => [SaleStep]_kittyVars
    BY KittiesNextKeeps
  <1> QED BY <1>1, KittiesInitInv, KittiesNextKeeps, PTL DEF KittiesSpec, SaleFair, SaleStep

(***************************************************************************)
(* The button.                                                             *)
(***************************************************************************)

Settled(i) == sends[i].phase \in Ended /\ ~sends[i].due

SendFields == {"button", "instance", "type", "palletRpc", "callable", "fields", "inputs",
               "args", "about", "from", "phase", "due", "escaped", "inBlock"}
Phases == {"account", "signing", "sent", "watched"} \cup Ended

\* Earlier starts of the button pressed last are settled or escaped.
SendsInv ==
    /\ IsSeq(sends)
    /\ Len(sends) <= MaxSends
    /\ \A i \in DOMAIN sends :
         /\ DOMAIN sends[i] = SendFields
         /\ sends[i].type \in Types /\ sends[i].phase \in Phases /\ sends[i].from \in Accounts
         /\ sends[i].due \in BOOLEAN
         /\ sends[i].due => sends[i].phase = "watched" \/ sends[i].escaped
         /\ i # Len(sends) /\ sends[i].button = sends[Len(sends)].button => sends[i].escaped \/ Settled(i)

\* A button holds handles of its own starts.
HandleInv ==
    /\ DOMAIN handle = Buttons
    /\ \A b \in Buttons :
         \/ handle[b] \in {0, Promise}
         \/ handle[b] \in DOMAIN sends /\ sends[handle[b]].button = b

TxInv ==
    /\ SendsInv
    /\ HandleInv
    /\ status \in 0 .. Len(sends)
    /\ StatusIsLatest
    /\ ArgsFit

\* What a start keeps for good.
SameStart(i) ==
    /\ DOMAIN sends'[i] = SendFields
    /\ sends'[i].button = sends[i].button
    /\ sends'[i].type = sends[i].type
    /\ sends'[i].from = sends[i].from
    /\ sends'[i].fields = sends[i].fields
    /\ sends'[i].inputs = sends[i].inputs
    /\ sends'[i].args = sends[i].args

\* Any step that starts nothing, and reports of nothing that is settled.
LEMMA Kept ==
  ASSUME TxInv, IsSeq(sends'), Len(sends') = Len(sends),
         \A i \in DOMAIN sends :
           /\ SameStart(i)
           /\ sends'[i].escaped = sends[i].escaped
           /\ sends'[i].phase \in Phases
           /\ sends'[i].due \in BOOLEAN
           /\ sends'[i].due => sends'[i].phase = "watched" \/ sends'[i].escaped
           /\ Settled(i) => Settled(i)',
         status' = status \/ (status' \in DOMAIN sends /\ ~Settled(status')),
         DOMAIN handle' = Buttons,
         \A b \in Buttons :
           \/ handle'[b] \in {0, Promise, handle[b]}
           \/ handle'[b] \in DOMAIN sends /\ sends[handle'[b]].button = b
  PROVE  TxInv'
  <1>1. Len(sends) \in Nat /\ DOMAIN sends = 1 .. Len(sends) /\ DOMAIN sends' = DOMAIN sends
    <2>1. IsSeq(sends) BY DEF TxInv, SendsInv
    <2>2. IsSeq(sends') OBVIOUS
    <2>3. Len(sends) \in Nat /\ DOMAIN sends = 1 .. Len(sends) BY <2>1, SeqFacts
    <2>4. DOMAIN sends' = 1 .. Len(sends') BY <2>2, SeqFacts
    <2> QED BY <2>3, <2>4
  <1>2. SendsInv'
    BY <1>1 DEF TxInv, SendsInv, SameStart, Types, Phases, Ended
  <1>3. HandleInv'
    BY <1>1 DEF TxInv, HandleInv, SameStart, Promise
  <1>4. status' \in 0 .. Len(sends')
    BY <1>1 DEF TxInv
  <1>5. StatusIsLatest'
    <2>1. CASE status' = status
      BY <1>1, <2>1 DEF TxInv, StatusIsLatest, SameStart
    <2>2. CASE status' \in DOMAIN sends /\ ~Settled(status')
      <3>1. status' = Len(sends) \/ sends[status'].button # sends[Len(sends)].button \/ sends[status'].escaped
        BY <1>1, <2>2 DEF TxInv, SendsInv
      <3>2. /\ sends'[status'].button = sends[status'].button
            /\ sends'[status'].escaped = sends[status'].escaped
            /\ Len(sends) \in DOMAIN sends => sends'[Len(sends)].button = sends[Len(sends)].button
        BY <2>2 DEF SameStart
      <3>3. Len(sends) \in DOMAIN sends
        BY <1>1, <2>2
      <3> QED BY <1>1, <3>1, <3>2, <3>3 DEF StatusIsLatest
    <2> QED BY <2>1, <2>2
  <1>6. ArgsFit'
    <2> SUFFICES ASSUME NEW i \in DOMAIN sends,
                        sends[i].type \notin {"RPC", "UNCHECKED-SUDO-TX"}
                 PROVE  /\ DOMAIN sends[i].args = DOMAIN sends[i].fields
                        /\ \A n \in DOMAIN sends[i].fields :
                             \/ sends[i].args[n] = <<sends[i].fields[n].type, InputOf(sends[i].inputs, n)>>
                             \/ /\ sends[i].args[n] = Null
                                /\ \/ sends[i].fields[n].optional
                                   \/ InputOf(sends[i].inputs, n) \in Falsy \ NotGiven
      BY <1>1 DEF ArgsFit, SameStart, InputOf, Null
    <2> QED BY DEF TxInv, ArgsFit
  <1> QED BY <1>2, <1>3, <1>4, <1>5, <1>6 DEF TxInv

\* A start is rewritten.
LEMMA Rewritten ==
  ASSUME TxInv, NEW i \in DOMAIN sends, NEW r, sends' = [sends EXCEPT ![i] = r]
  PROVE  /\ IsSeq(sends') /\ Len(sends') = Len(sends)
         /\ sends'[i] = r
         /\ \A j \in DOMAIN sends : j # i => sends'[j] = sends[j]
  <1>1. Len(sends) \in Nat /\ DOMAIN sends = 1 .. Len(sends)
    <2>1. IsSeq(sends) BY DEF TxInv, SendsInv
    <2> QED BY <2>1, SeqFacts
  <1> DEFINE n == Len(sends)
             e == [sends EXCEPT ![i] = r]
  <1>2. e = [j \in 1 .. n |-> e[j]]
    BY <1>1
  <1>3. n \in Nat BY <1>1
  <1>4. sends' = e OBVIOUS
  <1>5. e[i] = r /\ \A j \in DOMAIN sends : j # i => e[j] = sends[j] OBVIOUS
  <1> HIDE DEF n, e
  <1>6. IsSeq(e) /\ Len(e) = n
    BY <1>2, <1>3, FunctionIsSeq
  <1> QED BY <1>4, <1>5, <1>6 DEF n

\* Unchanged starts and status, unchanged or emptied handles.
LEMMA StartsStay ==
  ASSUME TxInv, sends' = sends, status' = status, HandleInv' PROVE TxInv'
  <1>1. SendsInv' BY DEF TxInv, SendsInv, Settled, Ended, IsSeq, Types, Phases
  <1>2. StatusIsLatest' BY DEF TxInv, StatusIsLatest
  <1>3. ArgsFit' BY DEF TxInv, ArgsFit
  <1>4. status' \in 0 .. Len(sends') BY DEF TxInv
  <1> QED BY <1>1, <1>2, <1>3, <1>4 DEF TxInv

LEMMA StartsUnchanged ==
  ASSUME TxInv, UNCHANGED <<sends, status, handle>> PROVE TxInv'
  <1>1. sends' = sends /\ status' = status /\ handle' = handle
    OBVIOUS
  <1>2. HandleInv'
    BY <1>1 DEF TxInv, HandleInv, Promise
  <1> QED BY <1>1, <1>2, StartsStay

LEMMA TxUnchanged ==
  ASSUME TxInv, UNCHANGED txVars PROVE TxInv'
  BY StartsUnchanged DEF txVars

LEMMA ReplacedKeeps ==
  ASSUME TxInv, NEW B, Replaced(B) PROVE TxInv'
  <1>1. sends' = sends /\ status' = status
    BY DEF Replaced
  <1>2. HandleInv'
    <2>1. DOMAIN handle' = Buttons BY DEF Replaced
    <2>2. \A b \in Buttons : handle'[b] \in {0, handle[b]} BY DEF Replaced
    <2> QED BY <1>1, <2>1, <2>2 DEF TxInv, HandleInv, Promise
  <1> QED BY <1>1, <1>2, StartsStay

LEMMA InBlockKeeps ==
  ASSUME TxInv, NEW i \in DOMAIN sends, sends' = [sends EXCEPT ![i].inBlock = TRUE],
         UNCHANGED <<status, handle>>
  PROVE  TxInv'
  <1> DEFINE r == [sends[i] EXCEPT !.inBlock = TRUE]
  <1>1. DOMAIN sends[i] = SendFields BY DEF TxInv, SendsInv
  <1>2. sends' = [sends EXCEPT ![i] = r] OBVIOUS
  <1>3. /\ IsSeq(sends') /\ Len(sends') = Len(sends) /\ sends'[i] = r
        /\ \A j \in DOMAIN sends : j # i => sends'[j] = sends[j]
    <2> HIDE DEF r
    <2> QED BY <1>2, Rewritten
  <1>4. \A j \in DOMAIN sends :
           /\ SameStart(j)
           /\ sends'[j].escaped = sends[j].escaped
           /\ sends'[j].due = sends[j].due
           /\ sends'[j].phase = sends[j].phase
    <2> TAKE j \in DOMAIN sends
    <2>1. CASE j = i
      BY <2>1, <1>1, <1>3 DEF SameStart, SendFields
    <2>2. CASE j # i
      BY <2>2, <1>3 DEF SameStart, TxInv, SendsInv
    <2> QED BY <2>1, <2>2
  <1>5. \A j \in DOMAIN sends :
           /\ sends'[j].phase \in Phases
           /\ sends'[j].due \in BOOLEAN
           /\ sends'[j].due => sends'[j].phase = "watched" \/ sends'[j].escaped
           /\ Settled(j) => Settled(j)'
    BY <1>4 DEF TxInv, SendsInv, Settled
  <1>6. DOMAIN handle' = Buttons /\ \A b \in Buttons : handle'[b] \in {0, Promise, handle[b]}
    BY DEF TxInv, HandleInv
  <1> QED BY <1>3, <1>4, <1>5, <1>6, Kept

\* The next value of a start, its phase, what the status line and its handle become.
LEMMA OneKept ==
  ASSUME TxInv, NEW i \in DOMAIN sends, ~Settled(i), NEW phase \in Phases, NEW due \in BOOLEAN,
         sends' = [sends EXCEPT ![i].phase = phase, ![i].due = due],
         due => phase = "watched" \/ sends[i].escaped,
         status' \in {status, i},
         NEW value \in {0, Promise, i},
         handle' = handle \/ handle' = Stored(i, value)
  PROVE  TxInv'
  <1> DEFINE r == [sends[i] EXCEPT !.phase = phase, !.due = due]
  <1>1. DOMAIN sends[i] = SendFields BY DEF TxInv, SendsInv
  <1>2. sends' = [sends EXCEPT ![i] = r] OBVIOUS
  <1>3. /\ IsSeq(sends') /\ Len(sends') = Len(sends) /\ sends'[i] = r
        /\ \A j \in DOMAIN sends : j # i => sends'[j] = sends[j]
    <2> HIDE DEF r
    <2> QED BY <1>2, Rewritten
  <1>4. /\ SameStart(i) /\ sends'[i].escaped = sends[i].escaped
        /\ sends'[i].due = due /\ sends'[i].phase = phase
    BY <1>1, <1>3 DEF SameStart, SendFields
  <1>5. \A j \in DOMAIN sends :
           /\ SameStart(j)
           /\ sends'[j].escaped = sends[j].escaped
           /\ sends'[j].phase \in Phases
           /\ sends'[j].due \in BOOLEAN
           /\ sends'[j].due => sends'[j].phase = "watched" \/ sends'[j].escaped
           /\ Settled(j) => Settled(j)'
    <2> TAKE j \in DOMAIN sends
    <2>1. CASE j = i
      BY <2>1, <1>4
    <2>2. CASE j # i
      BY <2>2, <1>3 DEF SameStart, TxInv, SendsInv, Settled
    <2> QED BY <2>1, <2>2
  <1>6. status' = status \/ (status' \in DOMAIN sends /\ ~Settled(i) /\ status' = i)
    OBVIOUS
  <1>7. /\ DOMAIN handle' = Buttons
        /\ \A b \in Buttons :
             \/ handle'[b] \in {0, Promise, handle[b]}
             \/ handle'[b] \in DOMAIN sends /\ sends[handle'[b]].button = b
    BY DEF TxInv, HandleInv, Stored
  <1>8. status' = status \/ (status' \in DOMAIN sends /\ ~Settled(status'))
    BY <1>6
  <1> QED BY <1>3, <1>5, <1>7, <1>8, Kept

\* A start moves on before its first value.
LEMMA PhaseKept ==
  ASSUME TxInv, NEW i \in DOMAIN sends, sends[i].phase \in {"account", "signing", "sent"},
         NEW phase \in Phases, Phase(i, phase), status' \in {status, i},
         NEW value \in {0, Promise, i}, handle' = handle \/ handle' = Stored(i, value)
  PROVE  TxInv'
  <1> DEFINE s == sends[i]
  <1>1. /\ DOMAIN s = SendFields /\ s.due \in BOOLEAN
        /\ s.due => s.phase = "watched" \/ s.escaped
    BY DEF TxInv, SendsInv
  <1>2. sends' = [sends EXCEPT ![i].phase = phase, ![i].due = s.due]
    <2>1. sends' = [sends EXCEPT ![i] = [s EXCEPT !.phase = phase]] BY DEF Phase
    <2>2. [s EXCEPT !.phase = phase] = [s EXCEPT !.phase = phase, !.due = s.due]
      BY <1>1 DEF SendFields
    <2>3. sends' = [sends EXCEPT ![i] = [s EXCEPT !.phase = phase, !.due = s.due]]
      <3> HIDE DEF s
      <3> QED BY <2>1, <2>2
    <2> QED BY <2>3
  <1>3. ~Settled(i) BY DEF Settled, Ended
  <1>4. s.due => phase = "watched" \/ sends[i].escaped BY <1>1
  <1> QED BY <1>1, <1>2, <1>3, <1>4, OneKept

LEMMA StepKeeps ==
  ASSUME TxInv, TxButtonStep PROVE TxInv'
  <1>1. CASE LoadSudoKey
    <2>1. UNCHANGED <<sends, status, handle>> BY <1>1 DEF LoadSudoKey
    <2> QED BY <2>1, StartsUnchanged
  <1>2. ASSUME NEW i \in DOMAIN sends,
               \/ GetFromAcct(i) \/ Throw(i) \/ Sign(i) \/ Refuse(i)
               \/ FirstValue(i) \/ NextValue(i) \/ ResHandler(i)
        PROVE  TxInv'
    <2> DEFINE s == sends[i]
    <2>1. /\ DOMAIN s = SendFields /\ s.phase \in Phases /\ s.due \in BOOLEAN
          /\ s.due => s.phase = "watched" \/ s.escaped
      BY DEF TxInv, SendsInv
    <2>2. {"signing", "over", "sent", "watched"} \subseteq Phases
      BY DEF Phases, Ended
    <2>4. CASE GetFromAcct(i)
      <3>1. sends[i].phase \in {"account", "signing", "sent"} /\ Phase(i, "signing")
        BY <2>4 DEF GetFromAcct, InPhase
      <3>2. status' = status /\ (handle' = handle \/ handle' = Stored(i, Promise))
        BY <2>4 DEF GetFromAcct
      <3> QED BY <2>2, <3>1, <3>2, PhaseKept
    <2>5. CASE Throw(i)
      <3>1. sends[i].phase \in {"account", "signing", "sent"} /\ Phase(i, "over")
        BY <2>5 DEF Throw, InPhase
      <3>2. status' = status /\ handle' = handle
        BY <2>5 DEF Throw
      <3> QED BY <2>2, <3>1, <3>2, PhaseKept
    <2>6. CASE Sign(i)
      <3>1. sends[i].phase \in {"account", "signing", "sent"} /\ Phase(i, "sent")
        BY <2>6 DEF Sign, InPhase
      <3>2. status' = status /\ handle' = handle
        BY <2>6 DEF Sign
      <3> QED BY <2>2, <3>1, <3>2, PhaseKept
    <2>7. CASE Refuse(i)
      <3>1. sends[i].phase \in {"account", "signing", "sent"} /\ Phase(i, "over")
        BY <2>7 DEF Refuse, InPhase
      <3>2. status' = i /\ (handle' = handle \/ handle' = Stored(i, 0))
        BY <2>7 DEF Refuse
      <3> QED BY <2>2, <3>1, <3>2, PhaseKept
    <2>8. CASE FirstValue(i)
      <3>1. s.phase = "sent" BY <2>8 DEF FirstValue, InPhase
      <3>2. ~Settled(i) BY <3>1 DEF Settled, Ended
      <3>3. /\ sends' = [sends EXCEPT ![i].phase = "watched", ![i].due = TRUE]
            /\ status' = status /\ (handle' = handle \/ handle' = Stored(i, i))
        BY <2>8 DEF FirstValue
      <3> QED BY <2>2, <3>2, <3>3, OneKept
    <2>9. CASE NextValue(i)
      <3>1. s.phase = "watched" BY <2>9 DEF NextValue, InPhase
      <3>2. sends' = [sends EXCEPT ![i].phase = "watched", ![i].due = TRUE]
        <4>1. [s EXCEPT !.due = TRUE] = [s EXCEPT !.phase = "watched", !.due = TRUE]
          BY <2>1, <3>1 DEF SendFields
        <4>2. sends' = [sends EXCEPT ![i] = [s EXCEPT !.due = TRUE]]
          BY <2>9 DEF NextValue
        <4>3. sends' = [sends EXCEPT ![i] = [s EXCEPT !.phase = "watched", !.due = TRUE]]
          <5> HIDE DEF s
          <5> QED BY <4>1, <4>2
        <4> QED BY <4>3
      <3>3. ~Settled(i) BY <3>1 DEF Settled, Ended
      <3>4. handle' = handle /\ status' = status BY <2>9 DEF NextValue
      <3> QED BY <2>2, <3>2, <3>3, <3>4, OneKept
    <2>10. CASE ResHandler(i)
      <3>1. s.due BY <2>10 DEF ResHandler
      <3>2. sends' = [sends EXCEPT ![i].phase = s.phase, ![i].due = FALSE]
        <4>1. [s EXCEPT !.due = FALSE] = [s EXCEPT !.phase = s.phase, !.due = FALSE]
          BY <2>1 DEF SendFields
        <4>2. sends' = [sends EXCEPT ![i] = [s EXCEPT !.due = FALSE]]
          BY <2>10 DEF ResHandler
        <4>3. sends' = [sends EXCEPT ![i] = [s EXCEPT !.phase = s.phase, !.due = FALSE]]
          <5> HIDE DEF s
          <5> QED BY <4>1, <4>2
        <4> QED BY <4>3
      <3>3. ~Settled(i) BY <3>1 DEF Settled
      <3>4. handle' = handle /\ status' = i BY <2>10 DEF ResHandler
      <3> QED BY <2>1, <3>2, <3>3, <3>4, OneKept
    <2> QED BY <1>2, <2>4, <2>5, <2>6, <2>7, <2>8, <2>9, <2>10
  <1> QED BY <1>1, <1>2 DEF TxButtonStep

\* What a press does to the earlier starts: each is stopped or it escapes,
\* if it is of the same button and not settled.
LEMMA Pressed ==
  ASSUME TxInv, NEW b \in Buttons
  PROVE  /\ IsSeq(Unsubscribed(b)) /\ Len(Unsubscribed(b)) = Len(sends)
         /\ \A i \in DOMAIN sends :
              LET s == sends[i]
                  t == Unsubscribed(b)[i]
              IN  /\ DOMAIN t = SendFields /\ t.phase \in Phases /\ t.from = s.from
                  /\ t.due \in BOOLEAN
                  /\ t.due => t.phase = "watched" \/ t.escaped
                  /\ t.button = s.button /\ t.type = s.type /\ t.fields = s.fields
                  /\ t.inputs = s.inputs /\ t.args = s.args
                  /\ s.button = b => t.escaped \/ (t.phase \in Ended /\ ~t.due)
  <1>1. Len(sends) \in Nat /\ DOMAIN sends = 1 .. Len(sends)
    <2>1. IsSeq(sends) BY DEF TxInv, SendsInv
    <2> QED BY <2>1, SeqFacts
  <1>2. IsSeq(Unsubscribed(b)) /\ Len(Unsubscribed(b)) = Len(sends)
    <2> DEFINE e == Unsubscribed(b)
               n == Len(sends)
    <2>1. e = [i \in 1 .. n |-> e[i]] BY <1>1 DEF Unsubscribed
    <2>2. n \in Nat BY <1>1
    <2> HIDE DEF e, n
    <2>3. IsSeq(e) /\ Len(e) = n BY <2>1, <2>2, FunctionIsSeq
    <2> QED BY <2>3 DEF e, n
  <1> SUFFICES ASSUME NEW i \in DOMAIN sends
               PROVE  LET s == sends[i]
                          t == Unsubscribed(b)[i]
                      IN  /\ DOMAIN t = SendFields /\ t.phase \in Phases /\ t.from = s.from
                          /\ t.due \in BOOLEAN
                          /\ t.due => t.phase = "watched" \/ t.escaped
                          /\ t.button = s.button /\ t.type = s.type /\ t.fields = s.fields
                          /\ t.inputs = s.inputs /\ t.args = s.args
                          /\ s.button = b => t.escaped \/ (t.phase \in Ended /\ ~t.due)
    BY <1>2
  <1> DEFINE s == sends[i]
             t == Unsubscribed(b)[i]
  <1>3. /\ DOMAIN s = SendFields /\ s.phase \in Phases /\ s.due \in BOOLEAN
        /\ s.due => s.phase = "watched" \/ s.escaped
    BY DEF TxInv, SendsInv
  <1>4. t = [s EXCEPT !.phase = IF handle[b] = i THEN "stopped" ELSE @,
                      !.escaped = @ \/ Escapes(b, i)]
    BY DEF Unsubscribed
  <1>5. /\ DOMAIN t = SendFields /\ t.due = s.due
        /\ t.phase = IF handle[b] = i THEN "stopped" ELSE s.phase
        /\ t.escaped = (s.escaped \/ Escapes(b, i))
        /\ t.button = s.button /\ t.type = s.type /\ t.fields = s.fields
        /\ t.inputs = s.inputs /\ t.args = s.args /\ t.from = s.from
    <2> HIDE DEF s, t
    <2> QED BY <1>3, <1>4 DEF SendFields
  <1>6. Escapes(b, i) <=> s.button = b /\ s.phase \notin Ended /\ (handle[b] # i \/ s.due)
    BY DEF Escapes
  <1>7. handle[b] = i => s.button = b
    <2>1. Len(sends) <= MaxSends BY DEF TxInv, SendsInv
    <2>2. i # 0 /\ i # Promise BY <1>1, <2>1, TxButtonAssumption DEF Promise
    <2> QED BY <2>2 DEF TxInv, HandleInv
  <1> HIDE DEF s, t
  <1>8. t.due => t.phase = "watched" \/ t.escaped
    BY <1>3, <1>5, <1>6, <1>7 DEF Ended
  <1>9. s.button = b => t.escaped \/ (t.phase \in Ended /\ ~t.due)
    BY <1>3, <1>5, <1>6, <1>7 DEF Ended
  <1>10. t.phase \in Phases
    BY <1>3, <1>5 DEF Phases, Ended
  <1> QED BY <1>3, <1>5, <1>8, <1>9, <1>10 DEF s, t

\* Arguments built from filled fields fit them.
LEMMA Fitting ==
  ASSUME NEW fields, NEW inputs, AllParamsFilled(fields, inputs)
  PROVE  LET args == TransformParams(fields, inputs, TRUE)
         IN  /\ DOMAIN args = DOMAIN fields
             /\ \A n \in DOMAIN fields :
                  \/ args[n] = <<fields[n].type, InputOf(inputs, n)>>
                  \/ args[n] = Null /\ (fields[n].optional \/ InputOf(inputs, n) \in Falsy \ NotGiven)
  <1> DEFINE args == TransformParams(fields, inputs, TRUE)
  <1>1. args = [n \in DOMAIN fields |->
                  IF InputOf(inputs, n) \in Falsy THEN Null
                  ELSE <<fields[n].type, InputOf(inputs, n)>>]
    BY DEF TransformParams
  <1>2. \A n \in DOMAIN fields : fields[n].optional \/ InputOf(inputs, n) \notin NotGiven
    BY DEF AllParamsFilled
  <1> HIDE DEF args
  <1>3. ASSUME NEW n \in DOMAIN fields
        PROVE  \/ args[n] = <<fields[n].type, InputOf(inputs, n)>>
               \/ args[n] = Null /\ (fields[n].optional \/ InputOf(inputs, n) \in Falsy \ NotGiven)
    BY <1>1, <1>2
  <1> QED BY <1>1, <1>3 DEF args

LEMMA PressKeeps ==
  ASSUME TxInv, NEW b \in Buttons, NEW type \in Types, NEW attrs, NEW who \in Accounts,
         Press(b, type, attrs, who)
  PROVE  TxInv'
  <1> DEFINE n == Len(sends)
             e == Unsubscribed(b)
             r == sends'[n + 1]
             args == Arguments(type, attrs)
  <1>1. n \in Nat /\ DOMAIN sends = 1 .. n
    <2>1. IsSeq(sends) BY DEF TxInv, SendsInv
    <2> QED BY <2>1, SeqFacts
  <1>2. IsSeq(e) /\ Len(e) = n
    BY Pressed
  <1>3. PICK elt : /\ sends' = Append(e, elt)
                   /\ DOMAIN elt = SendFields /\ elt.button = b /\ elt.type = type
                   /\ elt.fields = attrs.paramFields /\ elt.inputs = attrs.inputParams
                   /\ elt.args = args /\ elt.due = FALSE
                   /\ elt.from = who /\ elt.phase \in Phases
    BY DEF Press, SendFields, Phases, Ended
  <1>4. /\ IsSeq(sends') /\ Len(sends') = n + 1
        /\ \A i \in 1 .. n : sends'[i] = e[i]
        /\ r = elt
    <2> HIDE DEF e, n
    <2> QED BY <1>2, <1>3, Appended
  <1>5. DOMAIN sends' = 1 .. n + 1
    <2>1. IsSeq(sends') BY <1>4
    <2> QED BY <1>4, <2>1, SeqFacts
  <1>6. n < MaxSends /\ status' = n + 1 /\ handle' = [handle EXCEPT ![b] = IF @ = Promise THEN @ ELSE 0]
    BY <1>4 DEF Press
  <1>7. \A i \in 1 .. n :
           /\ DOMAIN e[i] = SendFields /\ e[i].phase \in Phases /\ e[i].from = sends[i].from
           /\ e[i].due \in BOOLEAN
           /\ e[i].due => e[i].phase = "watched" \/ e[i].escaped
           /\ e[i].button = sends[i].button /\ e[i].type = sends[i].type
           /\ e[i].fields = sends[i].fields
           /\ e[i].inputs = sends[i].inputs /\ e[i].args = sends[i].args
           /\ sends[i].button = b => e[i].escaped \/ (e[i].phase \in Ended /\ ~e[i].due)
    BY <1>1, Pressed
  <1> HIDE DEF e
  <1>8. SendsInv'
    <2> SUFFICES ASSUME NEW i \in 1 .. n + 1
                 PROVE  /\ DOMAIN sends'[i] = SendFields
                        /\ sends'[i].type \in Types /\ sends'[i].phase \in Phases
                        /\ sends'[i].from \in Accounts
                        /\ sends'[i].due \in BOOLEAN
                        /\ sends'[i].due => sends'[i].phase = "watched" \/ sends'[i].escaped
                        /\ i # n + 1 /\ sends'[i].button = r.button
                             => sends'[i].escaped \/ (sends'[i].phase \in Ended /\ ~sends'[i].due)
      BY <1>1, <1>4, <1>5, <1>6, TxButtonAssumption DEF SendsInv, Settled, SendFields, Ended, Types, Phases
    <2>1. CASE i = n + 1
      BY <1>3, <1>4, <2>1
    <2>2. CASE i \in 1 .. n
      <3>1. sends[i].type \in Types /\ sends[i].from \in Accounts
        BY <1>1, <2>2 DEF TxInv, SendsInv
      <3> QED BY <1>3, <1>4, <1>7, <2>2, <3>1
    <2> QED BY <1>1, <2>1, <2>2
  <1>9. HandleInv'
    <2> SUFFICES ASSUME NEW c \in Buttons
                 PROVE  \/ handle'[c] \in {0, Promise}
                        \/ handle'[c] \in 1 .. n + 1 /\ sends'[handle'[c]].button = c
      BY <1>5, <1>6 DEF TxInv, HandleInv, Promise
    <2>1. handle'[c] \in {0, Promise, handle[c]}
      BY <1>6 DEF TxInv, HandleInv
    <2>2. handle[c] \in {0, Promise} \/ (handle[c] \in 1 .. n /\ sends[handle[c]].button = c)
      BY <1>1 DEF TxInv, HandleInv
    <2>3. \A i \in 1 .. n : i \in 1 .. n + 1 /\ sends'[i].button = sends[i].button
      BY <1>1, <1>4, <1>7
    <2> QED BY <2>1, <2>2, <2>3
  <1>10. status' \in 0 .. Len(sends') /\ StatusIsLatest'
    BY <1>1, <1>4, <1>6 DEF StatusIsLatest
  <1>11. ArgsFit'
    <2> DEFINE Fits(s) == s.type \notin {"RPC", "UNCHECKED-SUDO-TX"} =>
                 /\ DOMAIN s.args = DOMAIN s.fields
                 /\ \A k \in DOMAIN s.fields :
                      \/ s.args[k] = <<s.fields[k].type, InputOf(s.inputs, k)>>
                      \/ s.args[k] = Null /\ (s.fields[k].optional \/ InputOf(s.inputs, k) \in Falsy \ NotGiven)
    <2>1. \A i \in 1 .. n : Fits(sends[i])
      BY <1>1 DEF TxInv, ArgsFit
    <2>2. \A i \in 1 .. n : Fits(sends'[i])
      <3> TAKE i \in 1 .. n
      <3>1. /\ sends'[i].type = sends[i].type /\ sends'[i].fields = sends[i].fields
            /\ sends'[i].inputs = sends[i].inputs /\ sends'[i].args = sends[i].args
        BY <1>4, <1>7
      <3> QED BY <2>1, <3>1
    <2>3. Fits(r)
      <3>1. AllParamsFilled(attrs.paramFields, attrs.inputParams)
        BY DEF Press, Enabled
      <3>2. CASE type \notin {"RPC", "UNCHECKED-SUDO-TX"}
        <4>1. args = TransformParams(attrs.paramFields, attrs.inputParams, TRUE)
          BY <3>2 DEF Arguments
        <4>2. /\ DOMAIN args = DOMAIN attrs.paramFields
              /\ \A k \in DOMAIN attrs.paramFields :
                   \/ args[k] = <<attrs.paramFields[k].type, InputOf(attrs.inputParams, k)>>
                   \/ /\ args[k] = Null
                      /\ \/ attrs.paramFields[k].optional
                         \/ InputOf(attrs.inputParams, k) \in Falsy \ NotGiven
          <5> HIDE DEF args
          <5> QED BY <3>1, <4>1, Fitting
        <4> HIDE DEF args
        <4> QED BY <1>3, <1>4, <4>2
      <3>3. CASE type \in {"RPC", "UNCHECKED-SUDO-TX"}
        BY <1>3, <1>4, <3>3
      <3> QED BY <3>2, <3>3
    <2>4. \A i \in 1 .. n + 1 : Fits(sends'[i])
      BY <1>1, <2>2, <2>3
    <2> QED BY <1>5, <2>4 DEF ArgsFit, InputOf, Null, Falsy, NotGiven
  <1> QED BY <1>8, <1>9, <1>10, <1>11 DEF TxInv

(***************************************************************************)
(* The interactor.                                                         *)
(***************************************************************************)

\* The menus belong to the type and the pallet chosen.
InteractorInv ==
    /\ interxType \in InteractionTypes
    /\ palletRPCs = PalletsOf(interxType)
    /\ DOMAIN formState = {"palletRpc", "callable", "inputParams"}
    /\ formState.palletRpc # "" =>
         /\ Known(interxType, formState.palletRpc)
         /\ callables = DOMAIN Api[interxType][formState.palletRpc]
    /\ CallExists

LEMMA InteractorInitially ==
  InteractorInit => InteractorInv
  <1> SUFFICES ASSUME InteractorInit PROVE InteractorInv OBVIOUS
  <1>1. /\ formState.palletRpc = "" /\ formState.inputParams = <<>>
        /\ DOMAIN formState = {"palletRpc", "callable", "inputParams"}
    BY DEF InteractorInit, InitFormState
  <1>2. interxType = "EXTRINSIC" /\ palletRPCs = PalletsOf(interxType) /\ thrown = FALSE
    BY DEF InteractorInit
  <1>3. DOMAIN <<>> \subseteq DOMAIN paramFields
    OBVIOUS
  <1>4. CallExists
    BY <1>1, <1>2, <1>3 DEF CallExists
  <1> QED BY <1>1, <1>2, <1>4 DEF InteractorInv, InteractionTypes

LEMMA InteractorUnchanged ==
  ASSUME InteractorInv, UNCHANGED interactorVars PROVE InteractorInv'
  BY DEF InteractorInv, interactorVars, CallExists, PalletsOf, Known, Exists, FieldsOf, InteractionTypes

\* A choice of a known pallet, or none, and of a callable of it, or none.
LEMMA Chosen ==
  ASSUME interxType' \in InteractionTypes, Effects,
         NEW p, NEW callable,
         formState' = [palletRpc |-> p, callable |-> callable, inputParams |-> <<>>],
         p # "" => Known(interxType', p),
         p # "" /\ callable # "" => Exists(interxType', p, callable)
  PROVE  InteractorInv'
  <1>1. /\ formState'.palletRpc = p /\ formState'.callable = callable
        /\ formState'.inputParams = <<>>
        /\ DOMAIN formState' = {"palletRpc", "callable", "inputParams"}
    OBVIOUS
  <1>2. palletRPCs' = PalletsOf(interxType')
    BY DEF Effects
  <1>3. ~thrown'
    BY <1>1 DEF Effects
  <1>4. p # "" => callables' = DOMAIN Api[interxType'][p]
    BY <1>1 DEF Effects
  <1>5. p # "" /\ callable # "" => paramFields' = FieldsOf(interxType', p, callable)
    BY <1>1, <1>3 DEF Effects
  <1>6. DOMAIN <<>> \subseteq DOMAIN paramFields'
    BY NothingIn
  <1>7. CallExists'
    BY <1>1, <1>3, <1>5, <1>6 DEF CallExists, Known, Exists, FieldsOf
  <1> QED BY <1>1, <1>2, <1>4, <1>7 DEF InteractorInv, PalletsOf, Known, InteractionTypes

LEMMA InteractorKeeps ==
  ASSUME InteractorInv, TxInv, NEW texts, NEW who \in Accounts, InteractorStep(texts, who)
  PROVE  InteractorInv' /\ TxInv'
  <1>1. CASE \E type \in InteractionTypes :
               /\ OnInterxTypeChange(type)
               /\ IF GroupOf(type) = GroupOf(interxType) THEN UNCHANGED txVars
                  ELSE Replaced(GroupOf(interxType))
    <2>1. InteractorInv'
      BY <1>1, Chosen DEF OnInterxTypeChange, InitFormState
    <2>2. TxInv'
      BY <1>1, TxUnchanged, ReplacedKeeps
    <2> QED BY <2>1, <2>2
  <1>2. CASE \E p \in palletRPCs : ChoosePallet(p) /\ UNCHANGED txVars
    <2>1. PICK p \in palletRPCs : ChoosePallet(p) BY <1>2
    <2>2. Known(interxType, p) BY DEF InteractorInv, PalletsOf, Known
    <2>3. InteractorInv'
      <3>1. interxType' = interxType /\ interxType \in InteractionTypes
        BY <2>1 DEF ChoosePallet, InteractorInv
      <3>2. Known(interxType', p) BY <2>2, <3>1
      <3> QED BY <2>1, <3>1, <3>2, Chosen DEF ChoosePallet
    <2> QED BY <1>2, <2>3, TxUnchanged
  <1>3. CASE \E callable \in callables : ChooseCallable(callable) /\ UNCHANGED txVars
    <2>1. PICK callable \in callables : ChooseCallable(callable) BY <1>3
    <2> DEFINE p == formState.palletRpc
    <2>2. interxType' = interxType /\ interxType \in InteractionTypes
      BY <2>1 DEF ChooseCallable, InteractorInv
    <2>3. formState' = [palletRpc |-> p, callable |-> callable, inputParams |-> <<>>]
      BY <2>1 DEF ChooseCallable, InteractorInv
    <2>4. p # "" => Known(interxType', p) /\ Exists(interxType', p, callable)
      BY <2>2 DEF InteractorInv, Known, Exists
    <2>5. InteractorInv'
      <3>1. Effects BY <2>1 DEF ChooseCallable
      <3> HIDE DEF p
      <3> QED BY <2>2, <2>3, <2>4, <3>1, Chosen
    <2> QED BY <1>3, <2>5, TxUnchanged
  <1>4. CASE \E i \in DOMAIN paramFields, text \in texts : Input(i, text) /\ UNCHANGED txVars
    <2>1. PICK i \in DOMAIN paramFields, text \in texts : Input(i, text) BY <1>4
    <2>2. /\ formState'.palletRpc = formState.palletRpc
          /\ formState'.callable = formState.callable
          /\ DOMAIN formState'.inputParams = DOMAIN formState.inputParams \cup {i}
          /\ DOMAIN formState' = DOMAIN formState
      BY <2>1 DEF Input, InteractorInv
    <2>3. UNCHANGED <<interxType, palletRPCs, callables, paramFields, thrown>>
      BY <2>1 DEF Input
    <2>4. InteractorInv'
      BY <2>2, <2>3 DEF InteractorInv, CallExists, PalletsOf, Known, Exists, FieldsOf, InteractionTypes
    <2> QED BY <1>4, <2>4, TxUnchanged
  <1>5. CASE \E b \in Buttons : Submit(b, who)
    <2>1. InteractorInv' BY <1>5, InteractorUnchanged DEF Submit
    <2>2. \A b \in GroupOf(interxType) : SubmitType(b) \in Types
      BY DEF InteractorInv, InteractionTypes, GroupOf, SubmitType, Types
    <2>3. TxInv' BY <1>5, <2>2, PressKeeps DEF Submit
    <2> QED BY <2>1, <2>3
  <1> QED BY <1>1, <1>2, <1>3, <1>4, <1>5 DEF InteractorStep

(***************************************************************************)
(* The pages.                                                              *)
(***************************************************************************)

PagesInv == TxInv /\ InteractorInv /\ account \in Accounts

LEMMA PagesInitially == Init => PagesInv
  <1> SUFFICES ASSUME Init PROVE PagesInv OBVIOUS
  <1>1. sends = <<>> /\ handle = [b \in Buttons |-> 0] /\ status = 0
    BY DEF Init, TxButtonInit
  <1>2. IsSeq(sends) /\ Len(sends) = 0 /\ DOMAIN sends = {}
    BY <1>1 DEF IsSeq
  <1>3. TxInv
    BY <1>1, <1>2, TxButtonAssumption DEF TxInv, SendsInv, HandleInv, StatusIsLatest, ArgsFit
  <1>4. account \in Accounts
    BY ViewsAssumption DEF Init
  <1> QED BY <1>3, <1>4, InteractorInitially DEF Init, PagesInv

\* A modal that closes takes its button with it.
LEMMA ModalKeeps ==
  ASSUME TxInv, NEW page, ModalReplaced(page) PROVE TxInv'
  BY TxUnchanged, ReplacedKeeps DEF ModalReplaced

LEMMA UserKeeps ==
  ASSUME PagesInv, PageUser PROVE PagesInv'
  <1> USE DEF PagesInv
  <1>6. account \in Accounts /\ account' = account /\ "SIGNED-TX" \in Types /\ "UNCHECKED-SUDO-TX" \in Types
    BY DEF PageUser, Types
  <1>1. CASE On("kitties") /\ KittiesUser /\ UNCHANGED <<claimsPage, typed, interactorVars>>
    <2>1. TxInv'
      BY <1>1, <1>6, TxUnchanged, ReplacedKeeps, PressKeeps, ButtonsAssumption
      DEF KittiesUser, OpenModal, CloseModal, FormChange, TransferKitty, CreateKittyButton
    <2> QED BY <1>1, <1>6, <2>1, InteractorUnchanged
  <1>2. CASE On("claims") /\ ClaimsUser /\ UNCHANGED <<kittiesPage, typed, interactorVars>>
    <2>1. TxInv'
      BY <1>2, <1>6, TxUnchanged, PressKeeps, ButtonsAssumption DEF ClaimsUser, ChooseFile, ClaimButton
    <2> QED BY <1>2, <1>6, <2>1, InteractorUnchanged
  <1>3. CASE InteractorStep(Texts, account)
    BY <1>3, <1>6, InteractorKeeps
  <1>4. CASE UNCHANGED <<txVars, kittiesPage, claimsPage, interactorVars>>
    BY <1>4, <1>6, TxUnchanged, InteractorUnchanged
  <1>5. CASE /\ \/ On("transfer") /\ TransferButton
                \/ On("upgrade") /\ UpgradeButton
                \/ On("template") /\ StoreSomething
             /\ UNCHANGED <<kittiesPage, claimsPage, typed, interactorVars>>
    <2>1. TxInv'
      BY <1>5, <1>6, PressKeeps, ButtonsAssumption DEF TransferButton, UpgradeButton, StoreSomething
    <2> QED BY <1>5, <1>6, <2>1, InteractorUnchanged
  <1> QED BY <1>1, <1>2, <1>3, <1>4, <1>5 DEF PageUser

LEMMA MirrorKeeps ==
  ASSUME PagesInv, Mirror PROVE PagesInv'
  <1>1. UNCHANGED txVars \/ \E page : ModalReplaced(page)
    <2>1. CASE KittiesMirror
      BY <2>1, Zenon DEF KittiesMirror, KittyCount, ServeEntries, FetchArrives, KittiesArrive
    <2>2. CASE ~KittiesMirror
      BY <2>2, Zenon DEF Mirror, ClaimsMirror, BufferToDigest, ProofArrives
    <2> QED BY <2>1, <2>2
  <1>2. UNCHANGED interactorVars BY DEF Mirror
  <1>3. account' = account BY DEF Mirror, labVars
  <1>4. TxInv /\ InteractorInv BY DEF PagesInv
  <1>5. TxInv'
    <2>1. CASE UNCHANGED txVars BY <1>4, <2>1, TxUnchanged
    <2>2. CASE \E page : ModalReplaced(page) BY <1>4, <2>2, ModalKeeps
    <2> QED BY <1>1, <2>1, <2>2
  <1>6. InteractorInv' BY <1>2, <1>4, InteractorUnchanged
  <1> QED BY <1>3, <1>4, <1>5, <1>6 DEF PagesInv

LEMMA NextKeeps ==
  ASSUME PagesInv, [Next]_vars PROVE PagesInv'
  <1>1. CASE \E a \in Accounts : SelectAccount(a)
    BY <1>1, ModalKeeps, InteractorUnchanged DEF SelectAccount, PagesInv
  <1>2. CASE PageUser BY <1>2, UserKeeps
  <1>3. CASE Mirror BY <1>3, MirrorKeeps
  <1>4. CASE Statuses
    BY <1>4, StepKeeps, InteractorUnchanged DEF Statuses, PagesInv, labVars
  <1>5. CASE (\E i \in DOMAIN sends : InBlock(i)) /\ UNCHANGED <<pageVars, labVars>>
    <2>1. TxInv' BY <1>5, InBlockKeeps DEF InBlock, PagesInv
    <2>2. UNCHANGED interactorVars BY <1>5 DEF pageVars
    <2>3. account' = account BY <1>5 DEF labVars
    <2> QED BY <2>1, <2>2, <2>3, InteractorUnchanged DEF PagesInv
  <1>6. CASE Foreign /\ UNCHANGED <<txVars, pageVars, view, moves, account, typed>>
    BY <1>6, TxUnchanged, InteractorUnchanged DEF pageVars, PagesInv
  <1>7. CASE UNCHANGED vars
    BY <1>7, TxUnchanged, InteractorUnchanged DEF vars, pageVars, labVars, PagesInv
  <1> QED BY <1>1, <1>2, <1>3, <1>4, <1>5, <1>6, <1>7 DEF Next

LEMMA PagesKept == Spec => []PagesInv
  <1>1. PagesInv /\ [Next]_vars => PagesInv' BY NextKeeps
  <1> QED BY <1>1, PagesInitially, PTL DEF Spec

(***************************************************************************)
(* The pallets behind the pages.                                           *)
(***************************************************************************)

StoredInv ==
    /\ KittiesInv
    /\ something \in SUBSET (0 .. MaxU32)
    /\ block \in 1 .. MaxBlock
    /\ \A d \in DOMAIN proofs : proofs[d].owner \in Accounts /\ proofs[d].block \in 1 .. MaxBlock

LEMMA StoredInitially == Init => StoredInv
  <1> SUFFICES ASSUME Init PROVE StoredInv OBVIOUS
  <1>1. KittiesInit /\ proofs = <<>> /\ block = 1 /\ something = {}
    BY DEF Init, ClaimsInit, TemplateInit
  <1> QED BY <1>1, KittiesInitInv, ClaimsAssumption DEF StoredInv

LEMMA KittiesUnchanged ==
  ASSUME KittiesInv, UNCHANGED kittyVars PROVE KittiesInv'
  BY KittiesNextKeeps

LEMMA OthersUnchanged ==
  ASSUME StoredInv, UNCHANGED <<claimVars, something>>, KittiesInv' PROVE StoredInv'
  BY DEF StoredInv, claimVars

\* A call of the kitties pallet, by its owner or of a user without a page.
LEMMA KittyCallKeeps ==
  ASSUME StoredInv,
         NEW a \in Accounts,
         \/ KittyCall(KittiesNext)
         \/ KittyCall(CreateKitty(a))
         \/ \E to \in Accounts : \E id : KittyCall(Transfer(a, to, id))
  PROVE  StoredInv' /\ [SaleStep]_kittyVars
  <1>1. UNCHANGED <<claimVars, something>> BY DEF KittyCall
  <1>2. KittiesInv BY DEF StoredInv
  <1>3. CASE KittyCall(KittiesNext)
    BY <1>1, <1>2, <1>3, KittiesNextKeeps, OthersUnchanged DEF KittyCall
  <1>4. CASE KittyCall(CreateKitty(a))
    BY <1>1, <1>2, <1>4, MintSteps, OthersUnchanged DEF KittyCall
  <1>5. CASE \E to \in Accounts : \E id : KittyCall(Transfer(a, to, id))
    <2>1. PICK to \in Accounts : \E id : Transfer(a, to, id) BY <1>5 DEF KittyCall
    <2>2. PICK id : Transfer(a, to, id) BY <2>1
    <2>3. id \in DOMAIN kitties BY <2>2 DEF Transfer, IsKittyOwner
    <2> QED BY <1>1, <1>2, <2>2, <2>3, TransferSteps, OthersUnchanged
  <1> QED BY <1>3, <1>4, <1>5

LEMMA ClaimCallKeeps ==
  ASSUME StoredInv, NEW a \in Accounts, NEW d,
         ClaimCall(CreateClaim(a, d)) \/ ClaimCall(RevokeClaim(a, d)) \/ ClaimCall(NewBlock)
  PROVE  StoredInv' /\ [SaleStep]_kittyVars
  <1>1. UNCHANGED <<kittyVars, something>> BY DEF ClaimCall
  <1>2. KittiesInv' BY <1>1, KittiesUnchanged DEF StoredInv
  <1>3. block' \in 1 .. MaxBlock
    BY ClaimsAssumption DEF ClaimCall, CreateClaim, RevokeClaim, NewBlock, StoredInv
  <1>4. \A x \in DOMAIN proofs' : proofs'[x].owner \in Accounts /\ proofs'[x].block \in 1 .. MaxBlock
    BY DEF ClaimCall, CreateClaim, RevokeClaim, NewBlock, StoredInv
  <1> QED BY <1>1, <1>2, <1>3, <1>4 DEF StoredInv

LEMMA TemplateCallKeeps ==
  ASSUME StoredInv,
         (\E n \in 0 .. MaxU32 : TemplateCall(DoSomething(n))) \/ TemplateCall(CauseError)
  PROVE  StoredInv' /\ [SaleStep]_kittyVars
  <1>1. UNCHANGED <<kittyVars, claimVars>> BY DEF TemplateCall
  <1>2. KittiesInv' BY <1>1, KittiesUnchanged DEF StoredInv
  <1>3. something' \in SUBSET (0 .. MaxU32)
    <2>1. MaxU32 \in Nat /\ something \in SUBSET (0 .. MaxU32)
      BY TemplateAssumption DEF StoredInv
    <2>2. CASE \E n \in 0 .. MaxU32 : TemplateCall(DoSomething(n))
      <3>1. PICK n \in 0 .. MaxU32 : something' = {n} BY <2>2 DEF TemplateCall, DoSomething
      <3> QED BY <3>1
    <2>3. CASE TemplateCall(CauseError)
      <3>1. PICK old \in something : old < MaxU32 /\ something' = {old + 1}
        BY <2>3 DEF TemplateCall, CauseError
      <3>2. old \in 0 .. MaxU32 BY <2>1
      <3>3. old + 1 \in 0 .. MaxU32 BY <2>1, <3>1, <3>2
      <3> QED BY <3>1, <3>3
    <2> QED BY <2>2, <2>3
  <1> QED BY <1>1, <1>2, <1>3 DEF StoredInv, claimVars

LEMMA ChainUnchanged ==
  ASSUME StoredInv, UNCHANGED Chain PROVE StoredInv' /\ [SaleStep]_kittyVars
  <1>1. UNCHANGED kittyVars /\ UNCHANGED <<claimVars, something>> BY DEF Chain
  <1> QED BY <1>1, KittiesUnchanged, OthersUnchanged DEF StoredInv

\* The chain changes by the calls of buttons, whose signers are accounts, and
\* by those of others.
LEMMA StoredKept ==
  ASSUME PagesInv, StoredInv, [Next]_vars PROVE StoredInv' /\ [SaleStep]_kittyVars
  <1>1. CASE \E i \in DOMAIN sends : InBlock(i)
    <2>1. PICK i \in DOMAIN sends : InBlock(i) BY <1>1
    <2> DEFINE s == sends[i]
    <2>2. s.from \in Accounts BY DEF PagesInv, TxInv, SendsInv
    <2>3. Number(s.args[1]) \in 0 .. MaxU32 BY TemplateAssumption DEF Number
    <2>4. \/ KittyCall(CreateKitty(s.from))
          \/ \E to \in Accounts : \E id : KittyCall(Transfer(s.from, to, id))
          \/ \E d : ClaimCall(CreateClaim(s.from, d)) \/ ClaimCall(RevokeClaim(s.from, d))
          \/ \E n \in 0 .. MaxU32 : TemplateCall(DoSomething(n))
          \/ UNCHANGED Chain
      BY <2>1, <2>3 DEF InBlock
    <2> HIDE DEF s
    <2> QED BY <2>2, <2>4, KittyCallKeeps, ClaimCallKeeps, TemplateCallKeeps, ChainUnchanged
  <1>2. CASE Foreign
    <2>1. account \in Accounts BY DEF PagesInv
    <2>2. \/ KittyCall(KittiesNext)
          \/ \E a \in Accounts : \/ KittyCall(CreateKitty(a))
                                 \/ \E to \in Accounts : \E id : KittyCall(Transfer(a, to, id))
          \/ ClaimCall(NewBlock)
          \/ \E a \in Accounts : \E d : ClaimCall(CreateClaim(a, d)) \/ ClaimCall(RevokeClaim(a, d))
          \/ (\E n \in 0 .. MaxU32 : TemplateCall(DoSomething(n))) \/ TemplateCall(CauseError)
      BY <1>2 DEF Foreign
    <2> QED BY <2>1, <2>2, KittyCallKeeps, ClaimCallKeeps, TemplateCallKeeps
  <1>3. CASE UNCHANGED Chain
    BY <1>3, ChainUnchanged
  <1>4. (\E i \in DOMAIN sends : InBlock(i)) \/ Foreign \/ UNCHANGED Chain
    BY DEF Next, vars, Chain, SelectAccount, PageUser, Mirror, Statuses
  <1> QED BY <1>1, <1>2, <1>3, <1>4

\* A modal is open only over a card of the account shown.
KittiesPageFields == {"cnt", "fetches", "shown", "kittyHashes", "subs", "kitties", "modal", "targets"}
ModalInv ==
    /\ DOMAIN kittiesPage = KittiesPageFields
    /\ kittiesPage.modal # 0 => Mine(account, kittiesPage.kitties, kittiesPage.modal)

LEMMA ModalInitially == Init => ModalInv
  BY DEF Init, KittiesPageInit, ModalInv, KittiesPageFields

\* Cards drawn again keep a modal only over the account's own.
LEMMA CardsKeep ==
  ASSUME NEW page, DOMAIN page = KittiesPageFields, NEW a, account' = a,
         kittiesPage' = CardsOf(a, page)
  PROVE  ModalInv'
  <1>1. /\ DOMAIN kittiesPage' = KittiesPageFields
        /\ kittiesPage'.kitties = page.kitties
        /\ kittiesPage'.modal = IF Mine(a, page.kitties, page.modal) THEN page.modal ELSE 0
    BY DEF CardsOf, KittiesPageFields
  <1> QED BY <1>1 DEF ModalInv, Mine

LEMMA ModalKept ==
  ASSUME ModalInv, [Next]_vars PROVE ModalInv'
  <1>1. CASE \E a \in Accounts : SelectAccount(a)
    BY <1>1, CardsKeep DEF SelectAccount, ModalInv
  <1>2. CASE kittiesPage' = kittiesPage /\ account' = account
    BY <1>2 DEF ModalInv, Mine
  <1>3. CASE KittiesUser /\ account' = account
    <2>1. CASE \E i \in DOMAIN kittiesPage.kitties : OpenModal(i)
      <3>1. PICK i : /\ Mine(account, kittiesPage.kitties, i)
                     /\ kittiesPage' = [kittiesPage EXCEPT !.modal = i]
        BY <2>1 DEF OpenModal
      <3>2. /\ DOMAIN kittiesPage' = KittiesPageFields
            /\ kittiesPage'.kitties = kittiesPage.kitties /\ kittiesPage'.modal = i
        BY <3>1 DEF ModalInv, KittiesPageFields
      <3> QED BY <1>3, <3>1, <3>2 DEF ModalInv, Mine
    <2>2. CASE CloseModal
      <3>1. DOMAIN kittiesPage' = KittiesPageFields /\ kittiesPage'.modal = 0
        BY <2>2 DEF CloseModal, ModalInv, KittiesPageFields
      <3> QED BY <3>1 DEF ModalInv
    <2>3. CASE \E target \in Accounts : FormChange(target)
      <3>1. /\ DOMAIN kittiesPage' = KittiesPageFields
            /\ kittiesPage'.kitties = kittiesPage.kitties
            /\ kittiesPage'.modal = kittiesPage.modal
        BY <2>3 DEF FormChange, ModalInv, KittiesPageFields
      <3> QED BY <1>3, <3>1 DEF ModalInv, Mine
    <2>4. CASE TransferKitty \/ CreateKittyButton
      BY <1>2, <1>3, <2>4 DEF TransferKitty, CreateKittyButton
    <2> QED BY <1>3, <2>1, <2>2, <2>3, <2>4 DEF KittiesUser
  <1>4. CASE KittiesMirror /\ account' = account
    <2>1. CASE KittyCount \/ \E i \in DOMAIN kittiesPage.fetches : ServeEntries(i) \/ FetchArrives(i)
      <3>1. /\ DOMAIN kittiesPage' = KittiesPageFields
            /\ kittiesPage'.kitties = kittiesPage.kitties
            /\ kittiesPage'.modal = kittiesPage.modal
        BY <2>1 DEF KittyCount, ServeEntries, FetchArrives, ModalInv, KittiesPageFields
      <3> QED BY <1>4, <3>1 DEF ModalInv, Mine
    <2>2. CASE \E s \in kittiesPage.subs : KittiesArrive(s)
      <3>1. PICK s : KittiesArrive(s) BY <2>2
      <3> DEFINE page == [kittiesPage EXCEPT
                            !.subs = (@ \ {s}) \cup {[s EXCEPT !.seen = KittyValues(s.key)]},
                            !.kitties = KittyValues(s.key)]
      <3>2. kittiesPage' = CardsOf(account, page) BY <3>1 DEF KittiesArrive
      <3>3. DOMAIN page = KittiesPageFields BY DEF ModalInv
      <3> HIDE DEF page
      <3> QED BY <1>4, <3>2, <3>3, CardsKeep
    <2> QED BY <1>4, <2>1, <2>2 DEF KittiesMirror
  <1>5. \/ \E a \in Accounts : SelectAccount(a)
        \/ kittiesPage' = kittiesPage /\ account' = account
        \/ (KittiesUser \/ KittiesMirror) /\ account' = account
    BY DEF Next, vars, labVars, pageVars, PageUser, Mirror, Statuses
  <1> QED BY <1>1, <1>2, <1>3, <1>4, <1>5

LabInv == PagesInv /\ StoredInv /\ ModalInv

LEMMA LabKept == Spec => []LabInv /\ [][SaleStep]_kittyVars
  <1>1. Init => LabInv
    BY PagesInitially, StoredInitially, ModalInitially DEF LabInv
  <1>2. LabInv /\ [Next]_vars => LabInv' /\ [SaleStep]_kittyVars
    BY NextKeeps, StoredKept, ModalKept DEF LabInv
  <1> QED BY <1>1, <1>2, PTL DEF Spec

(* What the pallets store, what was started and what the buttons hold stay *)
(* typed on every page, and a modal is open over a card of the account's   *)
(* own only, which is what its button gives away (KittyCards.js:20-57).    *)
THEOREM LabTyped == Spec => []LabTypeOK
  <1>1. ASSUME LabInv PROVE LabTypeOK
    <2>1. KittiesTypeOK
      BY <1>1 DEF LabInv, StoredInv, KittiesInv, KittyTypes, KittiesTypeOK, BalancesTypeOK, Sound
    <2>2. Len(sends) \in Nat /\ DOMAIN sends = 1 .. Len(sends) /\ Len(sends) <= MaxSends
      <3>1. IsSeq(sends) BY <1>1 DEF LabInv, PagesInv, TxInv, SendsInv
      <3> QED BY <1>1, <3>1, SeqFacts DEF LabInv, PagesInv, TxInv, SendsInv
    <2>3. \A b \in Buttons : handle[b] \in 0 .. Promise
      BY <1>1, <2>2, TxButtonAssumption DEF LabInv, PagesInv, TxInv, HandleInv, Promise
    <2>4. status \in 0 .. MaxSends
      BY <1>1, <2>2, TxButtonAssumption DEF LabInv, PagesInv, TxInv
    <2>5. \A i \in DOMAIN sends :
            sends[i].type \in Types /\ sends[i].phase \in Phases /\ sends[i].from \in Accounts
      BY <1>1 DEF LabInv, PagesInv, TxInv, SendsInv
    <2> QED BY <1>1, <2>1, <2>3, <2>4, <2>5 DEF LabInv, StoredInv, ModalInv, LabTypeOK, Phases
  <1> QED BY <1>1, LabKept, PTL

(* The register of the kitties stays exact, and kitties change hands       *)
(* fairly, however the pages' transactions, pressed on what was shown then,*)
(* and other users' calls follow one another in the blocks.                *)
THEOREM LabKittiesListed == Spec => []KittiesListed
  <1>1. LabInv => KittiesListed BY DEF LabInv, StoredInv, KittiesInv
  <1> QED BY <1>1, LabKept, PTL

(* The same of the sales (lib.rs:206-248, 358-364).                        *)
THEOREM LabKittiesSold == Spec => SaleFair
  BY LabKept, PTL DEF SaleFair, SaleStep

(* On every page, for any accounts, API, inputs and number of presses, the *)
(* status line is about the last start, or about one that escaped or is of *)
(* another button (TxButton.js:81, 103-105, 140-144).                      *)
THEOREM StatusHonest == Spec => []StatusIsLatest
  <1>1. PagesInv => StatusIsLatest BY DEF PagesInv, TxInv
  <1> QED BY <1>1, PagesKept, PTL

(* Whatever is typed, every argument sent is its own field's, as its type  *)
(* wants it (TxButton.js:157-208).                                         *)
THEOREM ArgumentsFit == Spec => []ArgsFit
  <1>1. PagesInv => ArgsFit BY DEF PagesInv, TxInv
  <1> QED BY <1>1, PagesKept, PTL

(* For any API, no choice in the interactor throws, and what its buttons   *)
(* would send exists, with its own fields (Interactor.js:29-144).          *)
THEOREM InteractorSound == Spec => []CallExists
  <1>1. PagesInv => CallExists BY DEF PagesInv, InteractorInv
  <1> QED BY <1>1, PagesKept, PTL
=============================================================================
