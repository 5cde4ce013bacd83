----------------------------- MODULE DataFacts -----------------------------
(***************************************************************************)
(* Facts about data that know nothing of the system: sequences of anything *)
(* (the lists of transactions, whose elements have no type worth naming),  *)
(* the sum of a function over a finite set (the stakes of a resolver, the  *)
(* supply of tokens), and how a counted part of a list grows.              *)
(***************************************************************************)
EXTENDS Naturals, Sequences, Functions, SequenceTheorems, FiniteSetTheorems, TLAPS

IsSeq(s) == \E S : s \in Seq(S)

LEMMA SeqFacts ==
  ASSUME NEW s, IsSeq(s)
  PROVE  Len(s) \in Nat /\ DOMAIN s = 1 .. Len(s)
  <1>1. PICK S : s \in Seq(S) BY DEF IsSeq
  <1> QED BY <1>1, LenProperties

\* A function over an initial segment is a sequence.
LEMMA FunctionIsSeq ==
  ASSUME NEW n \in Nat, NEW e, e = [i \in 1 .. n |-> e[i]]
  PROVE  IsSeq(e) /\ Len(e) = n
  <1> DEFINE S == {e[i] : i \in 1 .. n}
  <1>1. e \in [1 .. n -> S]
    <2>1. \A i \in 1 .. n : e[i] \in S OBVIOUS
    <2> HIDE DEF S
    <2> QED BY <2>1
  <1> HIDE DEF S
  <1>2. e \in Seq(S) BY <1>1, SeqDef
  <1>3. Len(e) \in Nat /\ 1 .. Len(e) = 1 .. n
    BY <1>1, <1>2, LenProperties
  <1>4. \A k, l \in Nat : 1 .. k = 1 .. l => k = l
    <2> SUFFICES ASSUME NEW k \in Nat, NEW l \in Nat, 1 .. k = 1 .. l PROVE k = l
      OBVIOUS
    <2>1. k = 0 <=> l = 0 OBVIOUS
    <2>2. CASE k > 0 /\ l > 0
      <3>1. k \in 1 .. l /\ l \in 1 .. k BY <2>2
      <3> QED BY <3>1
    <2> QED BY <2>1, <2>2
  <1> QED BY <1>2, <1>3, <1>4 DEF IsSeq

LEMMA NothingIn == \A S : DOMAIN <<>> \subseteq S
  <1>1. <<>> \in Seq({1}) /\ Len(<<>>) = 0 OBVIOUS
  <1>2. DOMAIN <<>> = 1 .. 0 BY <1>1, LenProperties
  <1> QED BY <1>2

LEMMA Appended ==
  ASSUME NEW s, IsSeq(s), NEW elt
  PROVE  /\ IsSeq(Append(s, elt)) /\ Len(Append(s, elt)) = Len(s) + 1
         /\ \A i \in 1 .. Len(s) : Append(s, elt)[i] = s[i]
         /\ Append(s, elt)[Len(s) + 1] = elt
  <1>1. PICK S : s \in Seq(S) BY DEF IsSeq
  <1>2. s \in Seq(S \cup {elt}) BY <1>1, SeqMonotonic
  <1> QED BY <1>2, AppendProperties DEF IsSeq

LEMMA Tailed ==
  ASSUME NEW s, IsSeq(s), s # <<>>
  PROVE  /\ Len(s) >= 1 /\ Head(s) = s[1]
         /\ IsSeq(Tail(s)) /\ Len(Tail(s)) = Len(s) - 1
         /\ \A i \in 1 .. Len(s) - 1 : Tail(s)[i] = s[i + 1]
  <1>1. PICK S : s \in Seq(S) BY DEF IsSeq
  <1>2. Len(s) \in Nat /\ Len(s) # 0 BY <1>1
  <1>3. Head(s) = s[1] BY <1>1, <1>2
  <1> QED BY <1>1, <1>2, <1>3, HeadTailProperties DEF IsSeq

-----------------------------------------------------------------------------
(* Sums.  SumFunctionOnSet is a fold that chooses the elements one by one; *)
(* on a finite set its recursion has one solution, so that the sum may be  *)
(* taken apart at any element.                                             *)

\* Induction on the naturals: a set that has 0 and successors.
LEMMA NatSetInduction ==
  ASSUME NEW T, 0 \in T, \A n \in Nat : n \in T => n + 1 \in T
  PROVE  \A n \in Nat : n \in T
  <1> SUFFICES ASSUME Nat \ T # {} PROVE FALSE OBVIOUS
  <1>1. PICK n \in Nat \ T : \A y \in Nat \ T : ~ (<<y, n>> \in OpToRel(<, Nat))
    BY NatLessThanWellFounded, WFMin
  <1>2. \A m \in Nat : m < n => <<m, n>> \in OpToRel(<, Nat) BY <1>1 DEF OpToRel
  <1>3. n \in Nat /\ n # 0 BY <1>1
  <1>4. n - 1 \in Nat /\ n - 1 < n /\ (n - 1) + 1 = n BY <1>3
  <1>5. n - 1 \in T BY <1>1, <1>2, <1>4
  <1> QED BY <1>1, <1>4, <1>5

AnyOf(s) == CHOOSE x \in s : TRUE
SumStep(f, h, s) == IF s = {} THEN 0 ELSE f[AnyOf(s)] + h[s \ {AnyOf(s)}]
SumsBelow(f, D, h) == h = [s \in D |-> SumStep(f, h, s)]
Sums(f, S, h) == SumsBelow(f, SUBSET S, h)

LEMMA AnyOfIn == ASSUME NEW s, s # {} PROVE AnyOf(s) \in s
  BY DEF AnyOf

LEMMA Smaller ==
  ASSUME NEW s, IsFiniteSet(s), NEW x \in s
  PROVE  /\ IsFiniteSet(s \ {x}) /\ Cardinality(s) \in Nat /\ Cardinality(s \ {x}) \in Nat
         /\ Cardinality(s) = Cardinality(s \ {x}) + 1
  <1>1. IsFiniteSet(s \ {x}) /\ Cardinality(s \ {x}) = Cardinality(s) - 1 BY FS_RemoveElement
  <1>2. Cardinality(s) \in Nat /\ Cardinality(s \ {x}) \in Nat BY <1>1, FS_CardinalityType
  <1> QED BY <1>1, <1>2

\* The recursion of the fold has a solution on the subsets of a finite set.
LEMMA SumsExist ==
  ASSUME NEW f, NEW S, IsFiniteSet(S)
  PROVE  \E h : Sums(f, S, h)
  <1> DEFINE Upto(n) == {s \in SUBSET S : Cardinality(s) <= n}
             T == {n \in Nat : \E h : SumsBelow(f, Upto(n), h)}
  <1>1. \A s \in SUBSET S : IsFiniteSet(s) /\ Cardinality(s) \in Nat /\ Cardinality(s) <= Cardinality(S)
    BY FS_Subset, FS_CardinalityType
  <1>2. 0 \in T
    <2>1. \A s \in Upto(0) : s = {} BY <1>1, FS_EmptySet
    <2>2. SumsBelow(f, Upto(0), [s \in Upto(0) |-> 0])
      <3> DEFINE h == [s \in Upto(0) |-> 0]
      <3>1. \A s \in Upto(0) : SumStep(f, h, s) = 0 BY <2>1 DEF SumStep
      <3> HIDE DEF Upto
      <3>2. [s \in Upto(0) |-> SumStep(f, h, s)] = [s \in Upto(0) |-> 0] BY <3>1
      <3> QED BY <3>2 DEF Sums, SumsBelow
    <2> QED BY <2>2
  <1>3. ASSUME NEW n \in Nat, n \in T PROVE n + 1 \in T
    <2>1. PICK h : SumsBelow(f, Upto(n), h) BY <1>3
    <2> DEFINE g == [s \in Upto(n + 1) |-> SumStep(f, h, s)]
    <2>2. \A s \in Upto(n) : s \in Upto(n + 1) BY <1>1
    <2>3. \A s \in Upto(n) : g[s] = h[s] BY <2>1, <2>2 DEF Sums, SumsBelow
    <2>4. ASSUME NEW s \in Upto(n + 1), s # {} PROVE s \ {AnyOf(s)} \in Upto(n)
      <3>1. AnyOf(s) \in s BY <2>4, AnyOfIn
      <3>2. IsFiniteSet(s) /\ s \in SUBSET S /\ Cardinality(s) <= n + 1 BY <1>1
      <3>3. Cardinality(s) = Cardinality(s \ {AnyOf(s)}) + 1 /\ Cardinality(s \ {AnyOf(s)}) \in Nat
        BY <3>1, <3>2, Smaller
      <3> QED BY <3>2, <3>3
    <2> HIDE DEF Upto
    <2>5. \A s \in Upto(n + 1) : SumStep(f, g, s) = SumStep(f, h, s)
      <3> HIDE DEF g
      <3> QED BY <2>3, <2>4 DEF SumStep
    <2>6. g = [s \in Upto(n + 1) |-> SumStep(f, g, s)]
      <3>1. g = [s \in Upto(n + 1) |-> SumStep(f, h, s)] OBVIOUS
      <3> HIDE DEF g
      <3> QED BY <2>5, <3>1
    <2>7. SumsBelow(f, Upto(n + 1), g)
      <3> HIDE DEF g
      <3> QED BY <2>6 DEF Sums, SumsBelow
    <2> HIDE DEF g
    <2> QED BY <2>7
  <1>4. \A n \in Nat : n \in T
    <2> HIDE DEF T
    <2> QED BY <1>2, <1>3, NatSetInduction
  <1>5. Cardinality(S) \in Nat BY FS_CardinalityType
  <1>6. Upto(Cardinality(S)) = SUBSET S BY <1>1
  <1> QED BY <1>4, <1>5, <1>6 DEF Sums

\* ... and only one.
LEMMA SumsUnique ==
  ASSUME NEW f, NEW g, NEW S, IsFiniteSet(S), NEW U, U \subseteq S,
         \A x \in U : f[x] = g[x],
         NEW h, Sums(f, S, h), NEW k, Sums(g, U, k)
  PROVE  h[U] = k[U]
  <1> DEFINE T == {n \in Nat : \A s \in SUBSET U : Cardinality(s) = n => h[s] = k[s]}
  <1>1. \A s \in SUBSET U : s \in SUBSET S /\ IsFiniteSet(s) /\ Cardinality(s) \in Nat
    BY FS_Subset, FS_CardinalityType
  <1>2. \A s \in SUBSET U : h[s] = SumStep(f, h, s) /\ k[s] = SumStep(g, k, s)
    BY <1>1 DEF Sums, SumsBelow
  <1>3. 0 \in T
    <2>1. ASSUME NEW s \in SUBSET U, Cardinality(s) = 0 PROVE h[s] = k[s]
      <3>1. s = {} BY <1>1, <2>1, FS_EmptySet
      <3> QED BY <1>2, <3>1 DEF SumStep
    <2> QED BY <2>1
  <1>4. ASSUME NEW n \in Nat, n \in T PROVE n + 1 \in T
    <2>1. ASSUME NEW s \in SUBSET U, Cardinality(s) = n + 1 PROVE h[s] = k[s]
      <3>1. s # {} BY <2>1, FS_EmptySet
      <3>2. AnyOf(s) \in s BY <3>1, AnyOfIn
      <3>3. s \ {AnyOf(s)} \in SUBSET U /\ Cardinality(s \ {AnyOf(s)}) = n
        BY <1>1, <2>1, <3>2, Smaller
      <3>4. h[s \ {AnyOf(s)}] = k[s \ {AnyOf(s)}] BY <1>4, <3>3
      <3>5. f[AnyOf(s)] = g[AnyOf(s)] BY <3>2
      <3> QED BY <1>2, <3>1, <3>4, <3>5 DEF SumStep
    <2> QED BY <2>1
  <1>5. \A n \in Nat : n \in T
    <2> HIDE DEF T
    <2> QED BY <1>3, <1>4, NatSetInduction
  <1> QED BY <1>1, <1>5

LEMMA SumIs ==
  ASSUME NEW f, NEW S, IsFiniteSet(S), NEW h, Sums(f, S, h)
  PROVE  SumFunctionOnSet(f, S) = h[S]
  <1> DEFINE k == CHOOSE g : g = [s \in SUBSET S |-> IF s = {} THEN 0
                                ELSE LET x == CHOOSE y \in s : TRUE IN f[x] + g[s \ {x}]]
  <1>1. SumFunctionOnSet(f, S) = k[S]
    BY DEF SumFunctionOnSet, FoldFunctionOnSet, MapThenFoldSet
  <1>2. h = [s \in SUBSET S |-> IF s = {} THEN 0
                 ELSE LET x == CHOOSE y \in s : TRUE IN f[x] + h[s \ {x}]]
    BY DEF Sums, SumsBelow, SumStep, AnyOf
  <1>3. k = [s \in SUBSET S |-> IF s = {} THEN 0
                 ELSE LET x == CHOOSE y \in s : TRUE IN f[x] + k[s \ {x}]]
    BY <1>2
  <1>4. Sums(f, S, k) BY <1>3 DEF Sums, SumsBelow, SumStep, AnyOf
  <1> HIDE DEF k
  <1>5. S \subseteq S /\ \A x \in S : f[x] = f[x] OBVIOUS
  <1>6. h[S] = k[S] BY <1>4, <1>5, SumsUnique
  <1> QED BY <1>1, <1>6

LEMMA SumEmpty == \A f : SumFunctionOnSet(f, {}) = 0
  <1> TAKE f
  <1>1. IsFiniteSet({}) BY FS_EmptySet
  <1>2. PICK h : Sums(f, {}, h) BY <1>1, SumsExist
  <1>3. h[{}] = 0 BY <1>2 DEF Sums, SumsBelow, SumStep
  <1> QED BY <1>1, <1>2, <1>3, SumIs

LEMMA SumUnfold ==
  ASSUME NEW f, NEW S, IsFiniteSet(S), S # {}
  PROVE  SumFunctionOnSet(f, S) = f[AnyOf(S)] + SumFunctionOnSet(f, S \ {AnyOf(S)})
  <1>1. PICK h : Sums(f, S, h) BY SumsExist
  <1>2. SumFunctionOnSet(f, S) = h[S] BY <1>1, SumIs
  <1> DEFINE U == S \ {AnyOf(S)}
  <1>3. U \subseteq S /\ IsFiniteSet(U) BY FS_Subset
  <1>4. PICK k : Sums(f, U, k) BY <1>3, SumsExist
  <1>5. SumFunctionOnSet(f, U) = k[U] BY <1>3, <1>4, SumIs
  <1>6. h[U] = k[U]
    <2> HIDE DEF U
    <2>1. \A x \in U : f[x] = f[x] OBVIOUS
    <2> QED BY <1>1, <1>3, <1>4, <2>1, SumsUnique, SMTT(30)
  <1>7. h[S] = f[AnyOf(S)] + h[U] BY <1>1 DEF Sums, SumsBelow, SumStep
  <1> QED BY <1>2, <1>5, <1>6, <1>7

LEMMA SumEqual ==
  ASSUME NEW f, NEW g, NEW S, IsFiniteSet(S), \A x \in S : f[x] = g[x]
  PROVE  SumFunctionOnSet(f, S) = SumFunctionOnSet(g, S)
  <1>1. PICK h : Sums(f, S, h) BY SumsExist
  <1>2. PICK k : Sums(g, S, k) BY SumsExist
  <1>3. S \subseteq S OBVIOUS
  <1>4. h[S] = k[S] BY <1>1, <1>2, <1>3, SumsUnique
  <1> QED BY <1>1, <1>2, <1>4, SumIs

\* A sum may be taken apart at any of its elements.
LEMMA SumRemove ==
  ASSUME NEW f, NEW S, IsFiniteSet(S), \A x \in S : f[x] \in Int
  PROVE  /\ SumFunctionOnSet(f, S) \in Int
         /\ \A x \in S : SumFunctionOnSet(f, S) = f[x] + SumFunctionOnSet(f, S \ {x})
  <1> DEFINE Sum(s) == SumFunctionOnSet(f, s)
             P(s) == Sum(s) \in Int /\ \A x \in s : Sum(s) = f[x] + Sum(s \ {x})
             T == {n \in Nat : \A s \in SUBSET S : Cardinality(s) <= n => P(s)}
  <1>1. \A s \in SUBSET S : IsFiniteSet(s) /\ Cardinality(s) \in Nat
    BY FS_Subset, FS_CardinalityType
  <1>2. \A s \in SUBSET S : s # {} => AnyOf(s) \in s /\ Sum(s) = f[AnyOf(s)] + Sum(s \ {AnyOf(s)})
    BY <1>1, AnyOfIn, SumUnfold
  <1>3. 0 \in T
    <2>1. P({}) BY SumEmpty
    <2> HIDE DEF P
    <2> QED BY <1>1, <2>1, FS_EmptySet
  <1>4. \A s \in SUBSET S : \A x \in s : /\ s \ {x} \in SUBSET S
                                         /\ Cardinality(s) = Cardinality(s \ {x}) + 1
                                         /\ Cardinality(s \ {x}) \in Nat
    BY <1>1, Smaller
  <1>5. ASSUME NEW n \in Nat, n \in T PROVE n + 1 \in T
    <2>1. ASSUME NEW s \in SUBSET S, Cardinality(s) = n + 1 PROVE P(s)
      <3> DEFINE c == AnyOf(s)
      <3>1. s # {} BY <2>1, FS_EmptySet
      <3>2. c \in s /\ Sum(s) = f[c] + Sum(s \ {c}) BY <1>2, <3>1
      <3> HIDE DEF c
      <3>3. \A x \in s : P(s \ {x})
        <4> TAKE x \in s
        <4>1. Cardinality(s \ {x}) = n /\ s \ {x} \in SUBSET S BY <1>4, <2>1
        <4> HIDE DEF P
        <4> QED BY <1>5, <4>1
      <3>4. f[c] \in Int BY <3>2
      <3>5. Sum(s) \in Int BY <3>2, <3>3, <3>4
      <3>6. ASSUME NEW x \in s PROVE Sum(s) = f[x] + Sum(s \ {x})
        <4>1. CASE x = c BY <3>2, <4>1
        <4>2. CASE x # c
          <5>1. x \in s \ {c} /\ c \in s \ {x} BY <3>2, <4>2
          <5>2. Sum(s \ {c}) = f[x] + Sum((s \ {c}) \ {x}) BY <3>2, <3>3, <5>1
          <5>3. Sum(s \ {x}) = f[c] + Sum((s \ {x}) \ {c}) BY <3>3, <5>1
          <5>4. (s \ {c}) \ {x} = (s \ {x}) \ {c} OBVIOUS
          <5>5. PICK U : U = (s \ {c}) \ {x} OBVIOUS
          <5>6. s \ {c} \in SUBSET S /\ Cardinality(s \ {c}) = n BY <1>4, <2>1, <3>2
          <5>7. Sum(U) \in Int
            <6>1. /\ U \in SUBSET S /\ Cardinality(U) \in Nat
                  /\ Cardinality(s \ {c}) = Cardinality(U) + 1
              BY <1>4, <5>1, <5>5, <5>6
            <6>2. Cardinality(U) <= n BY <5>6, <6>1
            <6>3. P(U)
              <7> HIDE DEF P
              <7> QED BY <1>5, <6>1, <6>2
            <6> QED BY <6>3
          <5>8. f[x] \in Int OBVIOUS
          <5>9. PICK v \in Int : v = Sum(U) BY <5>7
          <5>10. Sum(s) = f[c] + (f[x] + v) /\ Sum(s \ {x}) = f[c] + v
            BY <3>2, <5>2, <5>3, <5>4, <5>5, <5>9
          <5>11. f[c] + (f[x] + v) = f[x] + (f[c] + v) BY <3>4, <5>8
          <5> HIDE DEF Sum
          <5> QED BY <5>10, <5>11
        <4> QED BY <4>1, <4>2
      <3> QED BY <3>5, <3>6
    <2>2. \A s \in SUBSET S : Cardinality(s) <= n + 1 => Cardinality(s) <= n \/ Cardinality(s) = n + 1
      BY <1>1
    <2> HIDE DEF P
    <2> QED BY <1>5, <2>1, <2>2
  <1>6. \A n \in Nat : n \in T
    <2> HIDE DEF T
    <2> QED BY <1>3, <1>5, NatSetInduction
  <1> QED BY <1>1, <1>6

-----------------------------------------------------------------------------
(* Lists that grow at their end.                                           *)

\* Sums over the beginning of a list depend on that beginning only.
LEMMA SumSame ==
  ASSUME NEW n \in Nat, NEW f, NEW g, \A i \in 1 .. n : f[i] = g[i]
  PROVE  SumFunctionOnSet(f, 1 .. n) = SumFunctionOnSet(g, 1 .. n)
  <1>1. IsFiniteSet(1 .. n) BY FS_Interval
  <1> QED BY <1>1, SumEqual

\* One more entry adds itself to the sum.
LEMMA SumAppended ==
  ASSUME NEW n \in Nat, NEW f, NEW g, \A i \in 1 .. n + 1 : g[i] \in Int,
         \A i \in 1 .. n : f[i] = g[i]
  PROVE  /\ SumFunctionOnSet(f, 1 .. n) \in Int
         /\ SumFunctionOnSet(g, 1 .. n + 1) = SumFunctionOnSet(f, 1 .. n) + g[n + 1]
  <1>1. SumFunctionOnSet(f, 1 .. n) \in Int
    <2>1. IsFiniteSet(1 .. n) BY FS_Interval
    <2>2. \A i \in 1 .. n : f[i] \in Int OBVIOUS
    <2> QED BY <2>1, <2>2, SumRemove
  <1>2. SumFunctionOnSet(g, 1 .. n + 1) = g[n + 1] + SumFunctionOnSet(g, 1 .. n)
    <2> DEFINE S == 1 .. n + 1
    <2>1. IsFiniteSet(S) BY FS_Interval
    <2>2. \A i \in S : g[i] \in Int OBVIOUS
    <2>3. n + 1 \in S /\ S \ {n + 1} = 1 .. n OBVIOUS
    <2> HIDE DEF S
    <2>4. SumFunctionOnSet(g, S) = g[n + 1] + SumFunctionOnSet(g, S \ {n + 1})
      BY <2>1, <2>2, <2>3, SumRemove
    <2> QED BY <2>3, <2>4 DEF S
  <1>3. SumFunctionOnSet(f, 1 .. n) = SumFunctionOnSet(g, 1 .. n) BY SumSame
  <1>4. g[n + 1] \in Int OBVIOUS
  <1>5. \A x, y \in Int : x + y = y + x OBVIOUS
  <1> QED BY <1>1, <1>2, <1>3, <1>4, <1>5

\* How many positions of a list that got one more entry are selected.
LEMMA CountAppended ==
  ASSUME NEW n \in Nat, NEW A, NEW B, A \subseteq 1 .. n, B \subseteq 1 .. n + 1,
         \A i \in 1 .. n : i \in A <=> i \in B
  PROVE  /\ Cardinality(A) \in Nat
         /\ Cardinality(B) = IF n + 1 \in B THEN Cardinality(A) + 1 ELSE Cardinality(A)
  <1>1. IsFiniteSet(A)
    <2>1. IsFiniteSet(1 .. n) BY FS_Interval
    <2> QED BY <2>1, FS_Subset
  <1>2. Cardinality(A) \in Nat BY <1>1, FS_CardinalityType
  <1>2a. \A i \in B : i \in 1 .. n \/ i = n + 1
    <2>1. \A i \in 1 .. n + 1 : i \in 1 .. n \/ i = n + 1 OBVIOUS
    <2> QED BY <2>1
  <1>3. CASE n + 1 \in B
    <2>1. B = A \cup {n + 1} BY <1>2a, <1>3
    <2>2. n + 1 \notin A OBVIOUS
    <2>3. Cardinality(A \cup {n + 1}) = Cardinality(A) + 1 BY <1>1, <2>2, FS_AddElement
    <2> QED BY <1>2, <1>3, <2>1, <2>3
  <1>4. CASE n + 1 \notin B
    <2>1. B = A BY <1>2a, <1>4
    <2> QED BY <1>2, <1>4, <2>1
  <1> QED BY <1>3, <1>4
=============================================================================
