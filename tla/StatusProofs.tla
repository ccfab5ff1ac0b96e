---------------------------- MODULE StatusProofs ----------------------------
(***************************************************************************)
(* Facts about the worst and the best of a sequence of statuses, about the *)
(* comparisons Python makes of them, and about the sums of their counts.   *)
(***************************************************************************)
EXTENDS TestResults, FiniteSetTheorems, WellFoundedInduction, TLAPS

\* The least number that is not in T, if there is one: how the proofs about a
\* recursive function proceed.
LEMMA NoLeast ==
    ASSUME NEW T \in SUBSET Nat, \A n \in T : \E k \in T : k < n
    PROVE  T = {}
<1>. SUFFICES ASSUME T # {} PROVE FALSE
  OBVIOUS
<1>1. PICK n \in T : \A k \in T : ~ (<<k, n>> \in OpToRel(<, Nat))
  BY NatLessThanWellFounded, WFMin
<1>2. PICK k \in T : k < n
  OBVIOUS
<1>3. <<k, n>> \in OpToRel(<, Nat)
  <2>1. k \in Nat /\ n \in Nat
    OBVIOUS
  <2>. QED  BY <1>2, <2>1, Zenon DEF OpToRel
<1>. QED  BY <1>1, <1>3

\* The greatest and the least number of a set.
LEMMA GreatestOf ==
    ASSUME NEW n \in Nat, NEW S \in SUBSET (0..n), S # {}
    PROVE  \E i \in S : \A j \in S : i >= j
<1> DEFINE T == {k \in Nat : \E i \in S : k = n - i}
<1>1. T \subseteq Nat /\ T # {}
  <2>1. \A i \in S : n - i \in T
    OBVIOUS
  <2> QED BY <2>1
<1>2. PICK x \in T : \A y \in T : ~ (<<y, x>> \in OpToRel(<, Nat))
  <2> HIDE DEF T
  <2> QED BY <1>1, NatLessThanWellFounded, WFMin
<1>3. ASSUME NEW y \in T PROVE x <= y
  <2>1. x \in Nat /\ y \in Nat
    OBVIOUS
  <2>2. y < x => <<y, x>> \in OpToRel(<, Nat)
    BY <2>1, Zenon DEF OpToRel
  <2>3. ~ (y < x)
    BY <1>2, <2>2, Zenon
  <2> QED BY <2>1, <2>3
<1>4. PICK i \in S : x = n - i
  OBVIOUS
<1>5. ASSUME NEW j \in S PROVE i >= j
  <2>1. n - j \in T
    OBVIOUS
  <2> QED BY <2>1, <1>3, <1>4
<1> QED BY <1>5

LEMMA MaxOf ==
    ASSUME NEW n \in Nat, NEW S \in SUBSET (0..n), S # {}
    PROVE  Max(S) \in S /\ \A j \in S : j <= Max(S)
<1>1. \E i \in S : \A j \in S : i >= j
  BY GreatestOf
<1>2. Max(S) \in S /\ \A j \in S : Max(S) >= j
  BY <1>1 DEF Max
<1>. QED  BY <1>2

LEMMA LeastOf ==
    ASSUME NEW S \in SUBSET Nat, S # {}
    PROVE  \E i \in S : \A j \in S : i <= j
<1>2. PICK x \in S : \A y \in S : ~ (<<y, x>> \in OpToRel(<, Nat))
  BY NatLessThanWellFounded, WFMin
<1>3. ASSUME NEW y \in S PROVE x <= y
  <2>1. x \in Nat /\ y \in Nat
    OBVIOUS
  <2>2. y < x => <<y, x>> \in OpToRel(<, Nat)
    BY <2>1, Zenon DEF OpToRel
  <2>3. ~ (y < x)
    BY <1>2, <2>2, Zenon
  <2> QED BY <2>1, <2>3
<1> QED BY <1>3

LEMMA MinOf ==
    ASSUME NEW S \in SUBSET Nat, S # {}
    PROVE  Min(S) \in S /\ \A j \in S : Min(S) <= j
<1>1. \E i \in S : \A j \in S : i <= j
  BY LeastOf
<1>2. Min(S) \in S /\ \A j \in S : Min(S) =< j
  BY <1>1 DEF Min
<1>. QED  BY <1>2

\* The function that max() computes, of the first n elements.
WorstUpTo(seq, n, f) == f = [i \in 1..n |-> IF i = 1 THEN seq[1]
                                            ELSE IF Greater(seq[i], f[i - 1]) THEN seq[i]
                                            ELSE f[i - 1]]

LEMMA WorstFcnExists ==
    ASSUME NEW seq, Len(seq) \in Nat
    PROVE  \E f : WorstUpTo(seq, Len(seq), f)
<1>. DEFINE T == {n \in Nat : ~ \E f : WorstUpTo(seq, n, f)}
<1>1. ASSUME NEW n \in T PROVE \E k \in T : k < n
  <2>1. CASE n = 0
    <3>. DEFINE f == [i \in 1..0 |-> 0]
    <3>1. WorstUpTo(seq, 0, f)
      BY DEF WorstUpTo
    <3>. QED  BY <2>1, <3>1
  <2>2. CASE n # 0
    <3>. SUFFICES ASSUME n - 1 \notin T PROVE FALSE
      <4>1. n - 1 \in T => n - 1 < n
        OBVIOUS
      <4>. QED  BY <4>1
    <3>1. n \in Nat /\ n - 1 \in Nat
      BY <2>2
    <3>2. PICK g : WorstUpTo(seq, n - 1, g)
      BY <3>1
    <3>. DEFINE last == IF n = 1 THEN seq[1] ELSE IF Greater(seq[n], g[n - 1]) THEN seq[n] ELSE g[n - 1]
                f == [i \in 1..n |-> IF i = n THEN last ELSE g[i]]
    <3>3. WorstUpTo(seq, n, f)
      <4>1. f = [i \in 1..n |-> f[i]]
        OBVIOUS
      <4>2. ASSUME NEW i \in 1..n
            PROVE  f[i] = IF i = 1 THEN seq[1] ELSE IF Greater(seq[i], f[i - 1]) THEN seq[i] ELSE f[i - 1]
        <5>1. CASE i = n
          <6>1. i # 1 => f[i - 1] = g[i - 1]
            BY <3>1, <5>1
          <6>. QED  BY <5>1, <6>1
        <5>2. CASE i # n
          <6>1. i \in 1..(n - 1) /\ f[i] = g[i] /\ (i # 1 => f[i - 1] = g[i - 1])
            BY <3>1, <5>2
          <6>. QED  BY <3>2, <6>1 DEF WorstUpTo
        <5>. QED  BY <5>1, <5>2
      <4>. HIDE DEF f
      <4>. QED  BY <4>1, <4>2 DEF WorstUpTo
    <3>. HIDE DEF f
    <3>. QED  BY <3>3
  <2>. QED  BY <2>1, <2>2
<1>2. T = {}
  <2>1. T \in SUBSET Nat
    OBVIOUS
  <2>. HIDE DEF T
  <2>. QED  BY <1>1, <2>1, NoLeast
<1>. QED  BY <1>2

\* What max() returns is one of the elements.
LEMMA WorstIsOne ==
    ASSUME NEW S, NEW seq \in Seq(S), seq # <<>>
    PROVE  Worst(seq) \in S
<1>. DEFINE f == CHOOSE f : WorstUpTo(seq, Len(seq), f)
<1>1. Worst(seq) = f[Len(seq)]
  BY DEF Worst, WorstUpTo
<1>2. WorstUpTo(seq, Len(seq), f)
  BY WorstFcnExists
<1>. HIDE DEF f
<1>3. Len(seq) \in Nat \ {0} /\ \A i \in 1..Len(seq) : seq[i] \in S
  OBVIOUS
<1>4. \A n \in 1..Len(seq) : f[n] = IF n = 1 THEN seq[1]
                                    ELSE IF Greater(seq[n], f[n - 1]) THEN seq[n] ELSE f[n - 1]
  BY <1>2 DEF WorstUpTo
<1>. DEFINE T == {n \in 1..Len(seq) : f[n] \notin S}
<1>5. ASSUME NEW n \in T PROVE \E k \in T : k < n
  <2>1. n # 1
    BY <1>3, <1>4
  <2>2. n - 1 \in 1..Len(seq) /\ n - 1 < n
    BY <2>1, <1>3
  <2>3. f[n - 1] \notin S
    BY <1>3, <1>4, <2>1
  <2>. QED  BY <2>2, <2>3
<1>6. T = {}
  <2>1. T \in SUBSET Nat
    BY <1>3
  <2>. HIDE DEF T
  <2>. QED  BY <1>5, <2>1, NoLeast
<1>. QED  BY <1>1, <1>3, <1>6

LEMMA ElementIn == ASSUME NEW S, NEW s \in Seq(S), NEW i \in DOMAIN s PROVE s[i] \in S
OBVIOUS

\* skip and notrun are the least of all.
RankOf(s) == IF s \in NoChange THEN -1 ELSE Value(s)

\* Whichever operand Python asks, and whatever the fractions are, a comparison of
\* two statuses is one of their ranks (status.py, Status.__lt__ and the others).
THEOREM StatusesAreOrdered ==
    ASSUME NEW a \in ALL, NEW b \in ALL
    PROVE  /\ Less(a, b) <=> RankOf(a) < RankOf(b)
           /\ Greater(a, b) <=> RankOf(a) > RankOf(b)
           /\ AtMost(a, b) <=> RankOf(a) <= RankOf(b)
           /\ AtLeast(a, b) <=> RankOf(a) >= RankOf(b)
           /\ Equal(a, b) => RankOf(a) = RankOf(b)
<1>1. \A s \in ALL : Value(s) \in Nat /\ (s \in NoChange => Value(s) = 0)
  BY DEF ALL, Ranked, Value, NoChange
<1>2. \A s \in ALL : Counted(s) = IF s \in NoChange THEN 0 ELSE 1
  BY DEF Counted
<1>3. Less(a, b) <=> RankOf(a) < RankOf(b)
  BY <1>1, <1>2 DEF Less, Reflected, GT, GE, RankOf
<1>4. Greater(a, b) <=> RankOf(a) > RankOf(b)
  BY <1>1, <1>2 DEF Greater, Reflected, GT, GE, RankOf
<1>5. AtMost(a, b) <=> RankOf(a) <= RankOf(b)
  BY <1>1, <1>2 DEF AtMost, Reflected, GT, GE, RankOf
<1>6. AtLeast(a, b) <=> RankOf(a) >= RankOf(b)
  BY <1>1, <1>2 DEF AtLeast, Reflected, GT, GE, RankOf
<1>7. Equal(a, b) => RankOf(a) = RankOf(b)
  BY <1>1, <1>2 DEF Equal, RankOf
<1>. QED  BY <1>3, <1>4, <1>5, <1>6, <1>7

LEMMA RankIsInt == \A s \in ALL : RankOf(s) \in Int
BY DEF RankOf, ALL, Ranked, Value, NoChange

LEMMA BestOfTwo == ASSUME NEW x, NEW y PROVE Best(<<x, y>>) = IF Less(y, x) THEN y ELSE x
<1>. DEFINE seq == <<x, y>>
            BestFcn(f) == f = [n \in 1..Len(seq) |-> IF n = 1 THEN seq[1] ELSE IF Less(seq[n], f[n - 1]) THEN seq[n] ELSE f[n - 1]]
            g == [n \in 1..2 |-> IF n = 1 THEN x ELSE IF Less(y, x) THEN y ELSE x]
            f == CHOOSE f : BestFcn(f)
<1>1. Len(seq) = 2 /\ seq[1] = x /\ seq[2] = y
  OBVIOUS
<1>2. BestFcn(g)
  <2>1. \A n \in 1..2 : n = 1 \/ n = 2
    OBVIOUS
  <2>2. \A n \in 1..2 : g[n] = IF n = 1 THEN seq[1] ELSE IF Less(seq[n], g[n - 1]) THEN seq[n] ELSE g[n - 1]
    BY <1>1, <2>1
  <2>. QED  BY <1>1, <2>2
<1>3. Best(seq) = f[2]
  BY <1>1 DEF Best
<1>4. BestFcn(f)
  <2>. HIDE DEF g
  <2>. QED  BY <1>2
<1>. HIDE DEF f
<1>5. f[1] = x /\ f[2] = IF Less(y, f[1]) THEN y ELSE f[1]
  BY <1>1, <1>4
<1>. QED  BY <1>3, <1>5

\* No status in the sequence is worse than what max() returns.
LEMMA WorstIsGreatest ==
    ASSUME NEW seq \in Seq(ALL), NEW i \in DOMAIN seq
    PROVE  RankOf(seq[i]) <= RankOf(Worst(seq))
<1>. DEFINE f == CHOOSE f : WorstUpTo(seq, Len(seq), f)
<1>1. Worst(seq) = f[Len(seq)]
  BY DEF Worst, WorstUpTo
<1>2. WorstUpTo(seq, Len(seq), f)
  BY WorstFcnExists
<1>. HIDE DEF f
<1>3. Len(seq) \in Nat \ {0} /\ i \in 1..Len(seq) /\ \A k \in 1..Len(seq) : seq[k] \in ALL
  OBVIOUS
<1>4. \A n \in 1..Len(seq) : f[n] = IF n = 1 THEN seq[1]
                                    ELSE IF Greater(seq[n], f[n - 1]) THEN seq[n] ELSE f[n - 1]
  BY <1>2 DEF WorstUpTo
<1>. DEFINE T == {n \in 1..Len(seq) : ~(f[n] \in ALL /\ \A k \in 1..n : RankOf(seq[k]) <= RankOf(f[n]))}
<1>5. ASSUME NEW n \in T PROVE \E k \in T : k < n
  <2>. SUFFICES ASSUME n # 1 => n - 1 \notin T PROVE FALSE
    <3>1. n # 1 => n - 1 < n
      OBVIOUS
    <3>2. n = 1 => 1 \notin T
      <4>1. f[1] = seq[1]
        BY <1>3, <1>4
      <4>. QED  BY <1>3, <4>1, RankIsInt
    <3>. QED  BY <3>1, <3>2
  <2>1. n # 1
    BY <1>3, <1>4, RankIsInt
  <2>2. n - 1 \in 1..Len(seq) /\ f[n - 1] \in ALL /\ seq[n] \in ALL
        /\ \A k \in 1..(n - 1) : RankOf(seq[k]) <= RankOf(f[n - 1])
    BY <2>1, <1>3
  <2>3. f[n] = IF Greater(seq[n], f[n - 1]) THEN seq[n] ELSE f[n - 1]
    BY <1>4, <2>1
  <2>4. Greater(seq[n], f[n - 1]) <=> RankOf(seq[n]) > RankOf(f[n - 1])
    BY <2>2, StatusesAreOrdered
  <2>5. \A k \in 1..n : k = n \/ k \in 1..(n - 1)
    OBVIOUS
  <2>6. RankOf(seq[n]) \in Int /\ RankOf(f[n - 1]) \in Int /\ \A k \in 1..(n - 1) : RankOf(seq[k]) \in Int
    BY <1>3, <2>2, RankIsInt
  <2>. QED  BY <2>2, <2>3, <2>4, <2>5, <2>6
<1>6. T = {}
  <2>1. T \in SUBSET Nat
    BY <1>3
  <2>. HIDE DEF T
  <2>. QED  BY <1>5, <2>1, NoLeast
<1>. QED  BY <1>1, <1>3, <1>6

\* The function a sum is computed by, on the sets of D.
SumOn(f, D, g) ==
    g = [s \in D |-> IF s = {} THEN 0 ELSE g[s \ {CHOOSE x \in s : TRUE}] + f[CHOOSE x \in s : TRUE]]
SmallSubsets(S, n) == {t \in SUBSET S : Cardinality(t) <= n}

LEMMA SumFcnExists ==
    ASSUME NEW S, IsFiniteSet(S), NEW f, NEW m \in Nat
    PROVE  \E g : SumOn(f, SmallSubsets(S, m), g)
<1>. DEFINE T == {n \in Nat : ~ \E g : SumOn(f, SmallSubsets(S, n), g)}
            D(n) == SmallSubsets(S, n)
            pick(s) == CHOOSE x \in s : TRUE
<1>1. \A t \in SUBSET S : IsFiniteSet(t) /\ Cardinality(t) \in Nat /\ (Cardinality(t) = 0 <=> t = {})
  BY FS_Subset, FS_CardinalityType, FS_EmptySet
<1>2. \A t \in SUBSET S : t # {} => pick(t) \in t /\ t \ {pick(t)} \in SUBSET S /\ Cardinality(t \ {pick(t)}) = Cardinality(t) - 1
  BY <1>1, FS_RemoveElement
<1>3. ASSUME NEW n \in T PROVE \E k \in T : k < n
  <2>1. CASE n = 0
    <3>. DEFINE g == [s \in D(0) |-> 0]
    <3>1. \A s \in D(0) : s = {}
      BY <1>1 DEF SmallSubsets
    <3>2. SumOn(f, SmallSubsets(S, 0), g)
      BY <3>1 DEF SumOn, SmallSubsets
    <3>. HIDE DEF g
    <3>. QED  BY <2>1, <3>2
  <2>2. CASE n # 0
    <3>. SUFFICES ASSUME n - 1 \notin T PROVE FALSE
      <4>1. n - 1 \in T => n - 1 < n
        OBVIOUS
      <4>. QED  BY <4>1
    <3>1. n \in Nat /\ n - 1 \in Nat
      BY <2>2
    <3>2. PICK h : SumOn(f, SmallSubsets(S, n - 1), h)
      BY <3>1
    <3>. DEFINE g == [s \in D(n) |-> IF s = {} THEN 0 ELSE h[s \ {pick(s)}] + f[pick(s)]]
    <3>3. ASSUME NEW s \in D(n - 1) PROVE s \in D(n) /\ g[s] = h[s]
      <4>1. s \in D(n)
        BY <1>1, <3>1 DEF SmallSubsets
      <4>2. g[s] = IF s = {} THEN 0 ELSE h[s \ {pick(s)}] + f[pick(s)]
        BY <4>1
      <4>3. h[s] = IF s = {} THEN 0 ELSE h[s \ {pick(s)}] + f[pick(s)]
        BY <3>2, Zenon DEF SumOn
      <4>. QED  BY <4>1, <4>2, <4>3
    <3>4. \A s \in D(n) : s # {} => s \ {pick(s)} \in D(n - 1)
      BY <1>1, <1>2, <3>1 DEF SmallSubsets
    <3>5. ASSUME NEW s \in D(n)
          PROVE  g[s] = IF s = {} THEN 0 ELSE g[s \ {pick(s)}] + f[pick(s)]
      <4>1. g[s] = IF s = {} THEN 0 ELSE h[s \ {pick(s)}] + f[pick(s)]
        OBVIOUS
      <4>2. s # {} => g[s \ {pick(s)}] = h[s \ {pick(s)}]
        BY <3>3, <3>4
      <4>. HIDE DEF g
      <4>. QED  BY <4>1, <4>2
    <3>6. g = [s \in D(n) |-> g[s]]
      OBVIOUS
    <3>. HIDE DEF g
    <3>7. SumOn(f, SmallSubsets(S, n), g)
      BY <3>5, <3>6 DEF SumOn, SmallSubsets
    <3>. QED  BY <3>7
  <2>. QED  BY <2>1, <2>2
<1>4. T = {}
  <2>1. T \in SUBSET Nat
    OBVIOUS
  <2>. HIDE DEF T
  <2>. QED  BY <1>3, <2>1, NoLeast
<1>. QED  BY <1>4

\* A sum of cardinalities of disjoint sets is that of their union.
LEMMA SumIsCardinality ==
    ASSUME NEW S, IsFiniteSet(S), NEW f, NEW X,
           \A x \in S : IsFiniteSet(X[x]) /\ f[x] = Cardinality(X[x]),
           \A x, y \in S : x # y => X[x] \cap X[y] = {}
    PROVE  SumOver(f, S) = Cardinality(UNION {X[x] : x \in S})
<1>. DEFINE g == CHOOSE g : SumOn(f, SUBSET S, g)
            U(s) == UNION {X[x] : x \in s}
            T == {n \in Nat : \E s \in SUBSET S : Cardinality(s) = n /\ ~(IsFiniteSet(U(s)) /\ g[s] = Cardinality(U(s)))}
<1>1. SumOver(f, S) = g[S]
  BY DEF SumOver, FoldSet, MapThenFoldSet, SumOn
<1>2. \A t \in SUBSET S : IsFiniteSet(t) /\ Cardinality(t) \in Nat /\ (Cardinality(t) = 0 <=> t = {})
                           /\ Cardinality(t) <= Cardinality(S)
  BY FS_Subset, FS_CardinalityType, FS_EmptySet
<1>3. SumOn(f, SUBSET S, g)
  <2>1. PICK h : SumOn(f, SmallSubsets(S, Cardinality(S)), h)
    BY <1>2, SumFcnExists
  <2>2. SmallSubsets(S, Cardinality(S)) = SUBSET S
    BY <1>2 DEF SmallSubsets
  <2>3. SumOn(f, SUBSET S, h)
    BY <2>1, <2>2
  <2>. QED  BY <2>3
<1>. HIDE DEF g
<1>4. ASSUME NEW n \in T PROVE \E k \in T : k < n
  <2>. SUFFICES ASSUME \A k \in T : ~(k < n) PROVE FALSE
    OBVIOUS
  <2>1. PICK s \in SUBSET S : Cardinality(s) = n /\ ~(IsFiniteSet(U(s)) /\ g[s] = Cardinality(U(s)))
    OBVIOUS
  <2>2. CASE s = {}
    <3>1. U(s) = {} /\ g[s] = 0
      BY <1>3, <2>2 DEF SumOn
    <3>. HIDE DEF U
    <3>. QED  BY <2>1, <3>1, FS_EmptySet
  <2>3. CASE s # {}
    <3>1. PICK x : x = CHOOSE y \in s : TRUE
      OBVIOUS
    <3>. DEFINE r == s \ {x}
    <3>2. x \in s /\ x \in S /\ r \in SUBSET S
      BY <2>3, <3>1
    <3>3. Cardinality(r) = n - 1 /\ n \in Nat /\ n - 1 \in Nat /\ n - 1 < n
      <4>1. IsFiniteSet(s) /\ Cardinality(s) = n /\ n \in Nat /\ n # 0
        BY <1>2, <2>1, <2>3
      <4>2. Cardinality(r) = n - 1
        BY <3>2, <4>1, FS_RemoveElement
      <4>. QED  BY <4>1, <4>2
    <3>4. IsFiniteSet(U(r)) /\ g[r] = Cardinality(U(r))
      BY <3>2, <3>3
    <3>5. g[s] = g[r] + f[x]
      BY <1>3, <2>3, <3>1, Zenon DEF SumOn
    <3>6. U(s) = U(r) \cup X[x] /\ U(r) \cap X[x] = {}
      BY <3>2
    <3>7. IsFiniteSet(X[x]) /\ f[x] = Cardinality(X[x])
      BY <3>2
    <3>. HIDE DEF U, r
    <3>8. IsFiniteSet(U(r) \cup X[x]) /\ Cardinality(U(r) \cup X[x]) = Cardinality(U(r)) + Cardinality(X[x]) - Cardinality(U(r) \cap X[x])
      BY <3>4, <3>7, FS_Union
    <3>9. Cardinality(U(r)) \in Nat /\ Cardinality(X[x]) \in Nat
      BY <3>4, <3>7, FS_CardinalityType
    <3>10. Cardinality(U(r) \cap X[x]) = 0
      BY <3>6, FS_EmptySet
    <3>. QED  BY <2>1, <3>4, <3>5, <3>6, <3>7, <3>8, <3>9, <3>10
  <2>. QED  BY <2>2, <2>3
<1>5. T = {}
  <2>1. T \in SUBSET Nat
    OBVIOUS
  <2>. HIDE DEF T
  <2>. QED  BY <1>4, <2>1, NoLeast
<1>6. S \in SUBSET S /\ Cardinality(S) \in Nat
  BY <1>2
<1>. QED  BY <1>1, <1>5, <1>6

===============================================================================
