------------------------ MODULE TakeProfitLadderProofs ------------------------
(***************************************************************************)
(* Proofs about TakeProfitLadder, for any levels a signal or a chart       *)
(* reading may name, any distance of the stop and any preferences.         *)
(*                                                                         *)
(* The invariant says that what is opened is the ladder of what was        *)
(* planned, and that a plan of the Decision Agent starts at MinRR times    *)
(* the risk.  The properties then follow from lemmas about the operators:  *)
(* how a set of at most three levels is sorted, and which levels the       *)
(* sanitised and normalised ladder keeps.                                  *)
(***************************************************************************)
EXTENDS TakeProfitLadder, FiniteSetTheorems, FunctionTheorems, WellFoundedInduction, TLAPS

-----------------------------------------------------------------------------
(* Numbers.                                                                *)

\* A set of naturals that is not empty has a least element.
LEMMA HasLeast ==
  ASSUME NEW T, T \subseteq Nat, T # {}
  PROVE  \E m \in T : \A n \in T : m <= n
<1> DEFINE R == OpToRel(<, Nat)
<1>1. IsWellFoundedOn(R, Nat)
  BY NatLessThanWellFounded
<1>2. \A m, n \in Nat : m < n => <<m, n>> \in R
  BY DEF OpToRel
<1> HIDE DEF R
<1>3. PICK m \in T : \A n \in T : ~(<<n, m>> \in R)
  BY <1>1, WFMin
<1>4. ASSUME NEW n \in T PROVE m <= n
  <2>1. ~(n < m)
    BY <1>2, <1>3
  <2> QED BY <2>1
<1> QED BY <1>4

LEMMA LeastLevel ==
  ASSUME NEW T, T \subseteq Nat, T # {}
  PROVE  Min(T) \in T /\ \A g \in T : Min(T) <= g
BY HasLeast DEF Min

\* The smaller of two integers.
LEMMA SmallerOfTwo ==
  ASSUME NEW m \in Int, NEW n \in Int
  PROVE  Min({m, n}) = IF m <= n THEN m ELSE n
<1>1. CASE m <= n
  <2>1. \A k \in {m, n} : (\A i \in {m, n} : k <= i) => k = m
    BY <1>1
  <2>2. \E k \in {m, n} : \A i \in {m, n} : k <= i
    BY <1>1
  <2> QED BY <1>1, <2>1, <2>2 DEF Min
<1>2. CASE ~(m <= n)
  <2>1. \A k \in {m, n} : (\A i \in {m, n} : k <= i) => k = n
    BY <1>2
  <2>2. \E k \in {m, n} : \A i \in {m, n} : k <= i
    BY <1>2
  <2> QED BY <1>2, <2>1, <2>2 DEF Min
<1> QED BY <1>1, <1>2

\* Sequences of a few members.
LEMMA OrderOf ==
  ASSUME NEW S, NEW n \in Nat, NEW s \in [1..n -> S]
  PROVE  s \in Seq(S) /\ Len(s) = n
OBVIOUS

LEMMA ThreeLong ==
  ASSUME NEW s \in Seq(Int), Len(s) = 3
  PROVE  DOMAIN s = 1..3 /\ s[1] \in Int /\ s[2] \in Int /\ s[3] \in Int
<1>1. DOMAIN s = 1..3
  OBVIOUS
<1>2. \A i \in 1..3 : s[i] \in Int
  OBVIOUS
<1> QED BY <1>1, <1>2

LEMMA AtMostThree == \A k \in 0..3 : k \in Nat /\ k <= 3
OBVIOUS

\* Sets of levels on the profit side, as the ladders are made of.
LevelSet(S) == S \subseteq Nat /\ IsFiniteSet(S)

LEMMA SmallSets ==
  ASSUME NEW a, NEW b, NEW c
  PROVE  /\ IsFiniteSet({a}) /\ Cardinality({a}) = 1
         /\ IsFiniteSet({a, b}) /\ (a # b => Cardinality({a, b}) = 2)
         /\ IsFiniteSet({a, b, c}) /\ Cardinality({a, b, c}) \in 1..3
<1>1. IsFiniteSet({a}) /\ Cardinality({a}) = 1
  BY FS_Singleton
<1>2. {a, b} = {a} \union {b} /\ {a, b, c} = {a, b} \union {c}
  OBVIOUS
<1>3. IsFiniteSet({a, b}) /\ Cardinality({a, b}) = IF b \in {a} THEN 1 ELSE 2
  BY <1>1, <1>2, FS_AddElement
<1>4. /\ IsFiniteSet({a, b, c})
      /\ Cardinality({a, b, c}) = IF c \in {a, b} THEN Cardinality({a, b})
                                  ELSE Cardinality({a, b}) + 1
  BY <1>2, <1>3, FS_AddElement
<1> QED BY <1>1, <1>3, <1>4

LEMMA ThreeDiffer ==
  ASSUME NEW a, NEW b, NEW c, a # b, b # c, a # c
  PROVE  Cardinality({a, b, c}) = 3
<1>1. IsFiniteSet({a, b}) /\ Cardinality({a, b}) = 2
  BY SmallSets
<1>2. {a, b, c} = {a, b} \union {c} /\ c \notin {a, b}
  OBVIOUS
<1> QED BY <1>1, <1>2, FS_AddElement

-----------------------------------------------------------------------------
(* The lowest levels of a set.                                             *)

LEMMA LowestIsSubset ==
  ASSUME NEW S, LevelSet(S), NEW n
  PROVE  Lowest(n, S) \subseteq S /\ LevelSet(Lowest(n, S))
BY FS_Subset DEF Lowest, LevelSet

\* A level below one that is kept is kept.
LEMMA LowestIsClosed ==
  ASSUME NEW S, LevelSet(S), NEW n \in Nat, NEW g \in Lowest(n, S), NEW h \in S, h < g
  PROVE  h \in Lowest(n, S)
<1> DEFINE below(x) == {k \in S : k < x}
<1>1. g \in S /\ Cardinality(below(g)) < n
  BY DEF Lowest
<1>2. \A k \in S : k < h => k < g
  BY <1>1 DEF LevelSet
<1>3. below(h) \subseteq below(g) /\ IsFiniteSet(below(g)) /\ IsFiniteSet(below(h))
  BY <1>2, FS_Subset DEF LevelSet
<1>4. /\ Cardinality(below(h)) <= Cardinality(below(g))
      /\ Cardinality(below(h)) \in Nat /\ Cardinality(below(g)) \in Nat
  BY <1>3, FS_Subset, FS_CardinalityType
<1>5. Cardinality(below(h)) < n
  <2> HIDE DEF below
  <2> QED BY <1>1, <1>4
<1> QED BY <1>5 DEF Lowest

\* All of the levels are kept, or at least n.
LEMMA LowestIsFull ==
  ASSUME NEW S, LevelSet(S), NEW n \in Nat
  PROVE  Lowest(n, S) = S \/ Cardinality(Lowest(n, S)) >= n
<1> DEFINE others == S \ Lowest(n, S)
<1>1. CASE others = {}
  BY <1>1 DEF Lowest
<1>2. CASE others # {}
  <2>1. PICK g \in others : \A h \in others : g <= h
    BY <1>2, HasLeast DEF LevelSet
  <2> DEFINE below == {h \in S : h < g}
  <2>2. below \subseteq Lowest(n, S)
    <3> SUFFICES ASSUME NEW h \in S, h < g, h \notin Lowest(n, S) PROVE FALSE
      OBVIOUS
    <3>1. h \in others
      OBVIOUS
    <3> QED BY <2>1, <3>1 DEF LevelSet
  <2>3. IsFiniteSet(below) /\ IsFiniteSet(Lowest(n, S))
    BY LowestIsSubset, FS_Subset DEF LevelSet
  <2>4. Cardinality(below) \in Nat /\ ~(Cardinality(below) < n)
    BY <2>3, FS_CardinalityType DEF Lowest
  <2>5. Cardinality(below) <= Cardinality(Lowest(n, S))
    BY <2>2, <2>3, FS_Subset
  <2>6. Cardinality(Lowest(n, S)) \in Nat
    BY <2>3, FS_CardinalityType
  <2> HIDE DEF below
  <2> QED BY <2>4, <2>5, <2>6
<1> QED BY <1>1, <1>2

\* No more than n are kept: the highest one has fewer than n below it.
LEMMA LowestIsCut ==
  ASSUME NEW S, LevelSet(S), NEW n \in Nat
  PROVE  Cardinality(Lowest(n, S)) <= n
<1> DEFINE below(g) == {h \in S : h < g}
           kept == Lowest(n, S)
           room(g) == n - Cardinality(below(g))
<1>1. \A g \in S : below(g) \subseteq S /\ \A h \in S : h \in below(g) <=> h < g
  OBVIOUS
<1>2. \A g \in S : IsFiniteSet(below(g)) /\ Cardinality(below(g)) \in Nat
  BY FS_Subset, FS_CardinalityType DEF LevelSet
<1>3. kept \subseteq S /\ S \subseteq Nat /\ \A g \in kept : Cardinality(below(g)) < n
  BY DEF Lowest, LevelSet
<1>4. CASE kept = {}
  BY <1>4, FS_EmptySet
<1>5. CASE kept # {}
  <2> HIDE DEF below, kept
  <2>1. \A g \in kept : room(g) \in Nat
    BY <1>2, <1>3
  <2> HIDE DEF room
  <2>2. {room(g) : g \in kept} \subseteq Nat /\ {room(g) : g \in kept} # {}
    BY <1>5, <2>1
  <2>3. PICK m \in {room(g) : g \in kept} : \A k \in {room(g) : g \in kept} : m <= k
    BY <2>2, HasLeast
  <2>4. PICK g \in kept : m = room(g)
    BY <2>3
  <2>5. \A h \in kept : room(g) <= room(h)
    BY <2>3, <2>4
  <2>6. \A h \in kept : Cardinality(below(h)) <= Cardinality(below(g))
    BY <1>2, <1>3, <2>5 DEF room
  <2>7. /\ IsFiniteSet(below(g) \union {g})
        /\ Cardinality(below(g) \union {g}) = Cardinality(below(g)) + 1
    <3>1. g \in S /\ ~(g < g)
      BY <1>3
    <3>2. g \notin below(g)
      BY <1>1, <3>1
    <3> QED BY <1>2, <3>1, <3>2, FS_AddElement
  <2>8. ASSUME NEW h \in kept, g < h PROVE FALSE
    <3>1. \A k \in S : k < g \/ k = g => k < h
      BY <1>3, <2>8
    <3>2. below(g) \union {g} \subseteq below(h)
      BY <1>1, <1>3, <3>1
    <3>3. Cardinality(below(g) \union {g}) <= Cardinality(below(h))
      BY <1>2, <1>3, <3>2, FS_Subset
    <3> QED BY <1>2, <1>3, <2>6, <2>7, <3>3
  <2>9. kept \subseteq below(g) \union {g}
    <3>1. \A h \in kept : h \in S /\ (h < g \/ h = g)
      BY <1>3, <2>8
    <3> QED BY <1>1, <1>3, <3>1
  <2>10. IsFiniteSet(kept) /\ Cardinality(kept) <= Cardinality(below(g)) + 1
    BY <2>7, <2>9, FS_Subset
  <2>11. Cardinality(kept) \in Nat /\ Cardinality(below(g)) \in Nat
    BY <1>2, <1>3, <2>10, FS_CardinalityType
  <2>12. Cardinality(below(g)) < n
    BY <1>3
  <2>13. Cardinality(kept) <= n
    BY <2>10, <2>11, <2>12
  <2> QED BY <2>13 DEF kept
<1> QED BY <1>4, <1>5

-----------------------------------------------------------------------------
(* Sorting.                                                                *)

LEMMA SortingExists ==
  ASSUME NEW S, LevelSet(S), Cardinality(S) \in 1..3
  PROVE  \E s \in [1..Cardinality(S) -> S] : Increasing(s)
<1>1. S # {} /\ S \subseteq Nat
  BY FS_EmptySet DEF LevelSet
<1>2. PICK a \in S : \A g \in S : a <= g
  BY <1>1, HasLeast
<1> DEFINE S2 == S \ {a}
<1>3. LevelSet(S2) /\ Cardinality(S2) = Cardinality(S) - 1 /\ \A g \in S2 : a < g
  <2>1. \A g \in S2 : a <= g /\ a # g /\ g \in Nat /\ a \in Nat
    BY <1>2 DEF LevelSet
  <2> QED BY <1>2, <2>1, FS_RemoveElement DEF LevelSet
<1>4. CASE Cardinality(S) = 1
  <2>1. <<a>> \in [1..1 -> S] /\ Increasing(<<a>>)
    BY <1>2 DEF Increasing
  <2> QED BY <1>4, <2>1
<1>5. CASE Cardinality(S) \in 2..3
  <2>1. S2 # {}
    <3> HIDE DEF S2
    <3> QED BY <1>3, <1>5, FS_EmptySet
  <2>2. PICK b \in S2 : \A g \in S2 : b <= g
    BY <1>3, <2>1, HasLeast DEF LevelSet
  <2> DEFINE S3 == S2 \ {b}
  <2>3. Cardinality(S3) = Cardinality(S2) - 1 /\ \A g \in S3 : b < g
    <3>1. \A g \in S3 : b <= g /\ b # g /\ g \in Nat /\ b \in Nat
      BY <1>3, <2>2 DEF LevelSet
    <3> QED BY <1>3, <2>2, <3>1, FS_RemoveElement DEF LevelSet
  <2>4. a \in Nat /\ b \in Nat /\ a < b /\ b \in S
    BY <1>2, <1>3, <2>2 DEF LevelSet
  <2>5. CASE Cardinality(S) = 2
    <3>1. <<a, b>> \in [1..2 -> S] /\ Increasing(<<a, b>>)
      BY <1>2, <2>4 DEF Increasing
    <3> QED BY <2>5, <3>1
  <2>6. CASE Cardinality(S) = 3
    <3>1. S3 # {}
      <4> HIDE DEF S2, S3
      <4> QED BY <1>3, <2>3, <2>6, FS_EmptySet
    <3>2. PICK c \in S3 : TRUE
      BY <3>1
    <3>3. c \in Nat /\ b < c /\ c \in S
      BY <2>3, <3>2 DEF LevelSet
    <3>4. <<a, b, c>> \in [1..3 -> S] /\ Increasing(<<a, b, c>>)
      BY <1>2, <2>4, <3>3 DEF Increasing
    <3> QED BY <2>6, <3>4
  <2> QED BY <1>5, <2>5, <2>6
<1> QED BY <1>4, <1>5

\* As many increasing members as the set has are all of them.
LEMMA IncreasingIsAll ==
  ASSUME NEW S, LevelSet(S), Cardinality(S) \in 1..3,
         NEW s \in [1..Cardinality(S) -> S], Increasing(s)
  PROVE  ToSet(s) = S
<1> DEFINE n == Cardinality(S)
<1>1. \A i, j \in 1..n : s[i] \in S /\ s[i] \in Nat /\ (i < j => s[i] < s[j])
  BY DEF Increasing, LevelSet
<1>2. ToSet(s) = {s[i] : i \in 1..n} /\ ToSet(s) \subseteq S
  BY DEF ToSet
<1>3. Cardinality(ToSet(s)) = n
  <2>1. CASE n = 1
    <3>1. ToSet(s) = {s[1]}
      BY <1>2, <2>1
    <3> QED BY <2>1, <3>1, SmallSets
  <2>2. CASE n = 2
    <3>1. ToSet(s) = {s[1], s[2]} /\ s[1] # s[2]
      BY <1>1, <1>2, <2>2
    <3>2. s[1] # s[2] => Cardinality({s[1], s[2]}) = 2
      BY SmallSets
    <3> QED BY <2>2, <3>1, <3>2
  <2>3. CASE n = 3
    <3>1. ToSet(s) = {s[1], s[2], s[3]} /\ s[1] # s[2] /\ s[2] # s[3] /\ s[1] # s[3]
      BY <1>1, <1>2, <2>3
    <3>2. Cardinality({s[1], s[2], s[3]}) = 3
      BY <3>1, ThreeDiffer
    <3> QED BY <2>3, <3>1, <3>2
  <2> QED BY <2>1, <2>2, <2>3
<1> QED BY <1>2, <1>3, FS_Subset DEF LevelSet

LEMMA SortedFacts ==
  ASSUME NEW S, LevelSet(S), Cardinality(S) \in 1..3
  PROVE  /\ Sorted(S) \in [1..Cardinality(S) -> S] /\ Increasing(Sorted(S))
         /\ ToSet(Sorted(S)) = S
         /\ Sorted(S) \in Seq(S) /\ Len(Sorted(S)) = Cardinality(S)
<1>1. Sorted(S) \in [1..Cardinality(S) -> S] /\ Increasing(Sorted(S))
  BY SortingExists DEF Sorted
<1>2. ToSet(Sorted(S)) = S
  BY <1>1, IncreasingIsAll
<1> QED BY <1>1, <1>2

\* Three increasing levels are what sorting them gives.
LEMMA SortedThree ==
  ASSUME NEW a \in Nat, NEW b \in Nat, NEW c \in Nat, a < b, b < c
  PROVE  Sorted({a, b, c}) = <<a, b, c>>
<1> DEFINE s == Sorted({a, b, c})
<1>1. LevelSet({a, b, c}) /\ Cardinality({a, b, c}) = 3
  <2>1. a # b /\ b # c /\ a # c
    OBVIOUS
  <2>2. IsFiniteSet({a, b, c}) /\ Cardinality({a, b, c}) = 3
    BY <2>1, SmallSets, ThreeDiffer
  <2> QED BY <2>2 DEF LevelSet
<1>2. s \in [1..3 -> {a, b, c}] /\ Increasing(s)
  <2> DEFINE T == {a, b, c}
  <2>1. LevelSet(T) /\ Cardinality(T) = 3 /\ Cardinality(T) \in 1..3
    BY <1>1
  <2> HIDE DEF T
  <2>2. Sorted(T) \in [1..3 -> T] /\ Increasing(Sorted(T))
    BY <2>1, SortedFacts
  <2> QED BY <2>2 DEF T
<1> HIDE DEF s
<1>3. s[1] \in {a, b, c} /\ s[2] \in {a, b, c} /\ s[3] \in {a, b, c}
  BY <1>2
<1>4. s[1] < s[2] /\ s[2] < s[3]
  BY <1>2 DEF Increasing
<1>5. s[1] = a /\ s[2] = b /\ s[3] = c
  BY <1>3, <1>4
<1> QED BY <1>2, <1>5 DEF s

\* The places of a sequence of three, sorted, are the sequence as it was.
LEMMA PickedAll ==
  ASSUME NEW s, DOMAIN s = 1..3
  PROVE  Picked(s, 1..3) = [i \in 1..3 |-> s[i]]
<1>1. 1..3 = {1, 2, 3}
  OBVIOUS
<1>2. Sorted(1..3) = <<1, 2, 3>>
  BY <1>1, SortedThree
<1>3. DOMAIN <<1, 2, 3>> = 1..3 /\ \A i \in 1..3 : <<1, 2, 3>>[i] = i
  OBVIOUS
<1> QED BY <1>2, <1>3 DEF Picked

-----------------------------------------------------------------------------
(* The ladder of the paper engine.                                         *)

\* A set of levels a position can be opened with.
Openable(P) == P \subseteq Nat \ {0} /\ IsFiniteSet(P) /\ Cardinality(P) \in 1..3

LEMMA OpenableThree ==
  ASSUME NEW a \in Nat \ {0}, NEW b \in Nat \ {0}, NEW c \in Nat \ {0}
  PROVE  Openable({a, b, c})
<1>1. IsFiniteSet({a, b, c}) /\ Cardinality({a, b, c}) \in 1..3
  BY SmallSets
<1> QED BY <1>1 DEF Openable

LEMMA OpenableLowest ==
  ASSUME NEW S, S \subseteq Nat \ {0}, IsFiniteSet(S), S # {}
  PROVE  Openable(Lowest(MaxLevels, S))
<1> DEFINE L == Lowest(MaxLevels, S)
<1>1. LevelSet(S) /\ MaxLevels = 3 /\ MaxLevels \in Nat
  BY DEF LevelSet, MaxLevels
<1>2. L \subseteq S /\ IsFiniteSet(L) /\ Cardinality(L) <= 3
  BY <1>1, LowestIsSubset, LowestIsCut DEF LevelSet
<1>3. L = S \/ Cardinality(L) >= 3
  BY <1>1, LowestIsFull
<1>4. Cardinality(L) \in Nat /\ (Cardinality(L) = 0 <=> L = {})
  BY <1>2, FS_CardinalityType, FS_EmptySet
<1> HIDE DEF L
<1>5. Cardinality(L) # 0
  BY <1>3, <1>4
<1>6. Cardinality(L) \in 1..3
  BY <1>2, <1>4, <1>5
<1>7. Openable(L)
  BY <1>2, <1>6 DEF Openable
<1> QED BY <1>7 DEF L

\* The levels of multiples of the risk.
LEMMA Multiples ==
  ASSUME NEW r \in Nat \ {0}
  PROVE  /\ \A m \in Nat \ {0} :
              /\ RiskMultiples(r, {m, m + 1, m + 2}) = {m * r, (m + 1) * r, (m + 2) * r}
              /\ 0 < m * r /\ m * r < (m + 1) * r /\ (m + 1) * r < (m + 2) * r
              /\ m * r \in Nat /\ (m + 1) * r \in Nat /\ (m + 2) * r \in Nat
         /\ RiskMultiples(r, {2, 3, 4}) = {2 * r, 3 * r, 4 * r}
         /\ RiskMultiples(r, {3, 4}) = {3 * r, 4 * r}
<1>1. ASSUME NEW m \in Nat \ {0}
      PROVE  /\ RiskMultiples(r, {m, m + 1, m + 2}) = {m * r, (m + 1) * r, (m + 2) * r}
             /\ 0 < m * r /\ m * r < (m + 1) * r /\ (m + 1) * r < (m + 2) * r
             /\ m * r \in Nat /\ (m + 1) * r \in Nat /\ (m + 2) * r \in Nat
  <2>1. /\ r * m = m * r /\ r * (m + 1) = (m + 1) * r /\ r * (m + 2) = (m + 2) * r
        /\ (m + 1) * r = m * r + r /\ (m + 2) * r = m * r + r + r
        /\ m * r \in Nat
    OBVIOUS
  <2>2. m * r > 0
    OBVIOUS
  <2>3. RiskMultiples(r, {m, m + 1, m + 2}) = {r * m, r * (m + 1), r * (m + 2)}
    BY DEF RiskMultiples
  <2> QED BY <2>1, <2>2, <2>3
<1>2. RiskMultiples(r, {2, 3, 4}) = {r * 2, r * 3, r * 4}
  BY DEF RiskMultiples
<1>3. RiskMultiples(r, {3, 4}) = {r * 3, r * 4}
  BY DEF RiskMultiples
<1>4. r * 2 = 2 * r /\ r * 3 = 3 * r /\ r * 4 = 4 * r
  OBVIOUS
<1> QED BY <1>1, <1>2, <1>3, <1>4

\* Sanitising keeps levels on the profit side only, and all of them when the
\* signal names no more than three.
LEMMA SanitizedFacts ==
  ASSUME NEW raw \in Seq(Int)
  PROVE  /\ Sanitized(raw) \subseteq {g \in ToSet(raw) : g > 0}
         /\ Sanitized(raw) = {} \/ Openable(Sanitized(raw))
         /\ Len(raw) <= 3 => Sanitized(raw) = {g \in ToSet(raw) : g > 0}
<1> DEFINE named == {g \in ToSet(raw) : g > 0}
<1>1. Len(raw) \in Nat /\ raw \in Surjection(1..Len(raw), ToSet(raw))
  BY DEF Surjection, ToSet
<1>2. ExistsSurjection(1..Len(raw), ToSet(raw))
  BY <1>1 DEF ExistsSurjection
<1>3. IsFiniteSet(ToSet(raw)) /\ Cardinality(ToSet(raw)) <= Len(raw)
  BY <1>1, <1>2, FS_NatSurjection, FS_SurjCardinalityBound
<1>4. ToSet(raw) \subseteq Int
  BY DEF ToSet
<1>5. named \subseteq Nat \ {0} /\ named \in SUBSET ToSet(raw)
  BY <1>4
<1> HIDE DEF named
<1>6. /\ IsFiniteSet(named) /\ Cardinality(named) <= Cardinality(ToSet(raw))
      /\ Cardinality(named) \in Nat /\ Cardinality(ToSet(raw)) \in Nat
  BY <1>3, <1>5, FS_Subset, FS_CardinalityType
<1>7. LevelSet(named) /\ MaxLevels \in Nat /\ MaxLevels = 3
  BY <1>5, <1>6 DEF LevelSet, MaxLevels
<1>8. Sanitized(raw) = Lowest(MaxLevels, named)
  BY DEF Sanitized, named
<1>9. Sanitized(raw) \subseteq named
  BY <1>7, <1>8, LowestIsSubset
<1>10. Sanitized(raw) = {} \/ Openable(Sanitized(raw))
  BY <1>5, <1>6, <1>8, <1>9, OpenableLowest
<1>11. ASSUME Len(raw) <= 3 PROVE Sanitized(raw) = named
  <2>1. Cardinality(named) <= 3
    BY <1>1, <1>3, <1>6, <1>11
  <2>2. CASE Cardinality(Lowest(MaxLevels, named)) >= 3
    <3>1. /\ Lowest(MaxLevels, named) \in SUBSET named
          /\ Cardinality(Lowest(MaxLevels, named)) <= Cardinality(named)
      BY <1>6, <1>8, <1>9, FS_Subset
    <3>2. Cardinality(Lowest(MaxLevels, named)) \in Nat
      BY <1>6, <3>1, FS_Subset, FS_CardinalityType
    <3>3. Cardinality(Lowest(MaxLevels, named)) = Cardinality(named)
      BY <1>6, <2>1, <2>2, <3>1, <3>2
    <3> QED BY <1>6, <1>8, <3>1, <3>3, FS_Subset
  <2> QED BY <1>7, <1>8, <2>2, LowestIsFull
<1> QED BY <1>9, <1>10, <1>11 DEF named

\* The lifted ladder: open, from MinRR times the risk on, and without a gap
\* among the levels that lie beyond it.
LEMMA FlooredFacts ==
  ASSUME NEW levels, Openable(levels), NEW r \in Nat \ {0}
  PROVE  /\ Openable(Floored(levels, r))
         /\ \A g \in Floored(levels, r) : g >= MinRR * r
         /\ \A g \in levels, last \in Floored(levels, r) :
              g >= MinRR * r /\ g < last => g \in Floored(levels, r)
<1> DEFINE floor == MinRR * r
           beyond == {floor} \union {g \in levels : g > floor}
           merged == Lowest(MaxLevels, beyond)
           filled == merged \union RiskMultiples(r, {3, 4})
<1>1. /\ floor = 2 * r /\ floor \in Nat \ {0}
      /\ RiskMultiples(r, {3, 4}) = {3 * r, 4 * r}
      /\ 3 * r \in Nat \ {0} /\ 4 * r \in Nat \ {0} /\ 3 * r >= floor /\ 4 * r >= floor
  BY Multiples DEF MinRR
<1>2. levels \subseteq Nat \ {0} /\ IsFiniteSet(levels)
  BY DEF Openable
<1>3. /\ beyond \subseteq Nat \ {0} /\ beyond # {} /\ \A g \in beyond : g >= floor
      /\ \A g \in levels : g >= floor => g \in beyond
  <2> HIDE DEF floor
  <2>1. \A g \in levels : g \in Nat \ {0} /\ (g >= floor <=> g > floor \/ g = floor)
    BY <1>1, <1>2
  <2>2. floor >= floor
    BY <1>1
  <2>3. \A g \in beyond : g \in Nat \ {0} /\ g >= floor
    BY <1>1, <2>1, <2>2
  <2> QED BY <2>1, <2>3
<1>4. IsFiniteSet(beyond)
  <2> DEFINE T == {g \in levels : g > floor}
  <2>1. T \in SUBSET levels
    OBVIOUS
  <2>2. IsFiniteSet(T)
    BY <1>2, <2>1, FS_Subset
  <2>3. beyond = T \union {floor}
    OBVIOUS
  <2> HIDE DEF T, beyond
  <2> QED BY <2>2, <2>3, FS_AddElement
<1> HIDE DEF floor, beyond
<1>5. LevelSet(beyond) /\ MaxLevels \in Nat /\ MaxLevels = 3
  BY <1>3, <1>4 DEF LevelSet, MaxLevels
<1>6. Openable(merged) /\ merged \subseteq beyond
  BY <1>3, <1>4, <1>5, OpenableLowest, LowestIsSubset
<1>7. \A g \in beyond, last \in merged : g < last => g \in merged
  BY <1>5, LowestIsClosed
<1>8. Floored(levels, r) = IF Cardinality(merged) < MaxLevels
                           THEN Lowest(MaxLevels, filled) ELSE merged
  BY DEF Floored, floor, beyond
<1>9. merged = beyond \/ ~(Cardinality(merged) < MaxLevels)
  <2>1. merged = beyond \/ Cardinality(merged) >= MaxLevels
    BY <1>5, LowestIsFull
  <2>2. Cardinality(merged) \in Nat
    BY <1>6 DEF Openable
  <2> QED BY <1>5, <2>1, <2>2
<1> HIDE DEF merged
<1>10. /\ filled \subseteq Nat \ {0} /\ IsFiniteSet(filled) /\ filled # {}
       /\ \A g \in filled : g >= floor
  <2>1. filled = merged \union {3 * r} \union {4 * r}
    BY <1>1
  <2>2. IsFiniteSet(merged) /\ merged \subseteq Nat \ {0}
    BY <1>6 DEF Openable
  <2>3. IsFiniteSet(filled)
    <3> HIDE DEF filled
    <3> QED BY <2>1, <2>2, FS_AddElement
  <2> QED BY <1>1, <1>3, <1>6, <2>1, <2>2, <2>3
<1>11. merged \subseteq filled
  OBVIOUS
<1> HIDE DEF filled
<1>12. LevelSet(filled)
  BY <1>10 DEF LevelSet
<1>13. CASE Cardinality(merged) < MaxLevels
  <2>1. Floored(levels, r) = Lowest(MaxLevels, filled) /\ merged = beyond
    BY <1>8, <1>9, <1>13
  <2>2. /\ Openable(Lowest(MaxLevels, filled)) /\ Lowest(MaxLevels, filled) \subseteq filled
        /\ \A g \in filled, last \in Lowest(MaxLevels, filled) :
             g < last => g \in Lowest(MaxLevels, filled)
    BY <1>5, <1>10, <1>12, OpenableLowest, LowestIsSubset, LowestIsClosed
  <2> QED BY <1>3, <1>10, <1>11, <2>1, <2>2 DEF floor
<1>14. CASE ~(Cardinality(merged) < MaxLevels)
  <2>1. Floored(levels, r) = merged
    BY <1>8, <1>14
  <2> QED BY <1>3, <1>6, <1>7, <2>1 DEF floor
<1> QED BY <1>13, <1>14

\* What normalising makes of the levels of a signal.
LEMMA NormalizedFacts ==
  ASSUME NEW levels, levels = {} \/ Openable(levels), NEW r \in Nat \ {0}
  PROVE  /\ Openable(Normalized(levels, r))
         /\ \A g \in Normalized(levels, r) : g >= MinRR * r
         /\ \A g \in levels, last \in Normalized(levels, r) :
              g >= MinRR * r /\ g < last => g \in Normalized(levels, r)
<1>1. CASE levels = {}
  <2>1. Normalized(levels, r) = {2 * r, 3 * r, 4 * r}
    BY <1>1, Multiples DEF Normalized
  <2>2. Openable({2 * r, 3 * r, 4 * r})
    BY OpenableThree
  <2> QED BY <1>1, <2>1, <2>2 DEF MinRR
<1>2. CASE levels # {} /\ \E g \in levels : g < MinRR * r
  <2>1. Normalized(levels, r) = Floored(levels, r)
    BY <1>2 DEF Normalized
  <2> QED BY <1>2, <2>1, FlooredFacts
<1>3. CASE levels # {} /\ ~(\E g \in levels : g < MinRR * r)
  <2>1. Normalized(levels, r) = levels
    BY <1>3 DEF Normalized
  <2>2. \A g \in levels : g >= MinRR * r
    BY <1>3 DEF Openable, MinRR
  <2> QED BY <1>3, <2>1, <2>2
<1> QED BY <1>1, <1>2, <1>3

\* The levels of a paper position, whatever is named and preferred.
LEMMA PaperLevelsFacts ==
  ASSUME NEW raw \in Seq(Int), Len(raw) <= 3, NEW r \in Nat \ {0},
         NEW target \in Nat, NEW percent \in Nat
  PROVE  /\ Openable(PaperLevels(raw, r, target, percent))
         /\ target = 0 => \A g \in PaperLevels(raw, r, target, percent) : g >= MinRR * r
         /\ target = 0 /\ percent = 0 =>
              \A g \in ToSet(raw), last \in PaperLevels(raw, r, target, percent) :
                g >= MinRR * r /\ g < last => g \in PaperLevels(raw, r, target, percent)
<1> DEFINE signal == IF percent > 0 THEN <<percent>> ELSE raw
           P == PaperLevels(raw, r, target, percent)
<1>1. signal \in Seq(Int) /\ Len(signal) <= 3 /\ (percent = 0 => signal = raw)
  OBVIOUS
<1>2. CASE target > 0
  <2>1. P = {target * r, (target + 1) * r, (target + 2) * r}
    <3>1. target \in Nat \ {0}
      BY <1>2
    <3>2. P = RiskMultiples(r, {target, target + 1, target + 2})
      BY <1>2 DEF PaperLevels
    <3> QED BY <3>1, <3>2, Multiples
  <2>2. Openable({target * r, (target + 1) * r, (target + 2) * r})
    <3>1. target \in Nat \ {0}
      BY <1>2
    <3>2. /\ target * r \in Nat \ {0} /\ (target + 1) * r \in Nat \ {0}
          /\ (target + 2) * r \in Nat \ {0}
      BY <3>1, Multiples
    <3> QED BY <3>2, OpenableThree
  <2> QED BY <1>2, <2>1, <2>2
<1>3. CASE target = 0
  <2>1. P = Normalized(Sanitized(signal), r)
    BY <1>3 DEF PaperLevels
  <2> HIDE DEF P, signal
  <2>2. /\ Sanitized(signal) = {} \/ Openable(Sanitized(signal))
        /\ Sanitized(signal) = {g \in ToSet(signal) : g > 0}
    BY <1>1, SanitizedFacts
  <2>3. /\ Openable(P) /\ \A g \in P : g >= MinRR * r
        /\ \A g \in Sanitized(signal), last \in P : g >= MinRR * r /\ g < last => g \in P
    BY <2>1, <2>2, NormalizedFacts
  <2>4. \A g \in ToSet(raw) : g \in Int /\ (g >= MinRR * r => g > 0)
    BY DEF ToSet, MinRR
  <2>5. percent = 0 => \A g \in ToSet(raw) : g >= MinRR * r => g \in Sanitized(signal)
    BY <1>1, <2>2, <2>4
  <2>6. percent = 0 => \A g \in ToSet(raw), last \in P : g >= MinRR * r /\ g < last => g \in P
    BY <2>3, <2>5
  <2> QED BY <1>3, <2>3, <2>6 DEF P
<1> QED BY <1>2, <1>3

-----------------------------------------------------------------------------
(* The quantities of the levels.                                           *)

\* What is left after each level of a ladder of one, two or three.
LEMMA RemainingIs ==
  ASSUME NEW n \in 1..3
  PROVE  Remaining(n) = [i \in 0..n |-> IF i = 0 THEN 10 ELSE IF i = n THEN 0
                                        ELSE IF i = 1 THEN 7 ELSE 4]
<1> DEFINE step(f) == [i \in 0..n |-> IF i = 0 THEN Size
                                      ELSE IF i = n THEN 0
                                      ELSE f[i-1] - Min({f[i-1], TpFractions[i]})]
           W == [i \in 0..n |-> IF i = 0 THEN 10 ELSE IF i = n THEN 0
                                ELSE IF i = 1 THEN 7 ELSE 4]
           F == CHOOSE f : f = step(f)
<1>1. Remaining(n) = F
  BY DEF Remaining
<1>2. Min({10, 3}) = 3 /\ Min({7, 3}) = 3
  BY SmallerOfTwo
<1>3. Size = 10 /\ TpFractions[1] = 3 /\ TpFractions[2] = 3
  BY DEF Size, TpFractions
<1>4. W = step(W)
  <2>1. \A i \in 0..n : W[i] = step(W)[i]
    <3> SUFFICES ASSUME NEW i \in 0..n PROVE W[i] = step(W)[i]
      OBVIOUS
    <3>1. CASE i = 0
      BY <1>3, <3>1
    <3>2. CASE i = n
      BY <3>2
    <3>3. CASE i = 1 /\ i # n
      <4>1. 0 \in 0..n /\ 1 \in 0..n /\ n # 1 /\ n # 0 /\ i - 1 = 0
        BY <3>3
      <4>2. W[0] = 10 /\ W[1] = 7
        BY <4>1
      <4>3. \A f : step(f)[1] = f[1-1] - Min({f[1-1], TpFractions[1]})
        BY <4>1
      <4> HIDE DEF W, step
      <4> QED BY <1>2, <1>3, <3>3, <4>2, <4>3
    <3>4. CASE i = 2 /\ i # n
      <4>1. n = 3
        BY <3>4
      <4>2. W[1] = 7 /\ W[2] = 4
        BY <4>1
      <4> QED BY <1>2, <1>3, <3>4, <4>1, <4>2
    <3> QED BY <3>1, <3>2, <3>3, <3>4
  <2> QED BY <2>1
<1>5. F = step(F)
  <2> HIDE DEF step, W
  <2> QED BY <1>4
<1> HIDE DEF F
<1>6. \A i \in 0..n : F[i] = IF i = 0 THEN Size
                              ELSE IF i = n THEN 0
                              ELSE F[i-1] - Min({F[i-1], TpFractions[i]})
  BY <1>5
<1>7. DOMAIN F = 0..n /\ F = [i \in 0..n |-> F[i]]
  BY <1>5
<1> HIDE DEF step
<1>8. F[0] = 10 /\ F[n] = 0
  <2>1. 0 \in 0..n /\ n \in 0..n /\ n # 0
    OBVIOUS
  <2> QED BY <1>3, <1>6, <2>1
<1>9. n # 1 => F[1] = 7
  <2>1. n # 1 => F[1] = F[0] - Min({F[0], TpFractions[1]})
    BY <1>6
  <2> QED BY <1>2, <1>3, <1>8, <2>1
<1>10. n = 3 => F[2] = 4
  <2>1. n = 3 => F[2] = F[1] - Min({F[1], TpFractions[2]})
    BY <1>6
  <2> QED BY <1>2, <1>3, <1>9, <2>1
<1>11. \A i \in 0..n : F[i] = IF i = 0 THEN 10 ELSE IF i = n THEN 0
                               ELSE IF i = 1 THEN 7 ELSE 4
  BY <1>8, <1>9, <1>10
<1> QED BY <1>1, <1>7, <1>11

\* The sum of the first members of a sequence of at most three.
LEMMA SumIs ==
  ASSUME NEW n \in 0..3, NEW s, \A i \in 1..n : s[i] \in Int
  PROVE  SumOf(s, n) = IF n = 0 THEN 0 ELSE IF n = 1 THEN s[1]
                       ELSE IF n = 2 THEN s[1] + s[2] ELSE s[1] + s[2] + s[3]
<1> DEFINE step(f) == [i \in 0..n |-> IF i = 0 THEN 0 ELSE f[i-1] + s[i]]
           W == [i \in 0..n |-> IF i = 0 THEN 0 ELSE IF i = 1 THEN s[1]
                                ELSE IF i = 2 THEN s[1] + s[2] ELSE s[1] + s[2] + s[3]]
           F == CHOOSE f : f = step(f)
<1>1. SumOf(s, n) = F[n]
  BY DEF SumOf
<1>2. W = step(W)
  <2>1. \A i \in 0..n : W[i] = step(W)[i]
    <3> SUFFICES ASSUME NEW i \in 0..n PROVE W[i] = step(W)[i]
      OBVIOUS
    <3>1. CASE i = 0
      BY <3>1
    <3>2. CASE i = 1
      BY <3>2
    <3>3. CASE i = 2
      BY <3>3
    <3>4. CASE i = 3
      BY <3>4
    <3> QED BY <3>1, <3>2, <3>3, <3>4
  <2> QED BY <2>1
<1>3. F = step(F)
  <2> HIDE DEF step, W
  <2> QED BY <1>2
<1> HIDE DEF F
<1>4. \A i \in 0..n : F[i] = IF i = 0 THEN 0 ELSE F[i-1] + s[i]
  BY <1>3
<1>5. F[0] = 0
  BY <1>4
<1>6. n >= 1 => F[1] = s[1]
  BY <1>4, <1>5
<1>7. n >= 2 => F[2] = s[1] + s[2]
  BY <1>4, <1>6
<1>8. n >= 3 => F[3] = s[1] + s[2] + s[3]
  BY <1>4, <1>7
<1> QED BY <1>1, <1>5, <1>6, <1>7, <1>8

\* The contract and the paper engine split the size alike.
LEMMA SameQuantities ==
  ASSUME NEW n \in 1..3
  PROVE  TakeProfitQuantities(n) = PaperCloses(n) /\ SumOf(PaperCloses(n), n) = Size
<1>1. /\ Size = 10 /\ TpFractions[1] = 3 /\ TpFractions[2] = 3 /\ TpFractions[3] = 4
  BY DEF Size, TpFractions
<1>2. SumOf(TpFractions, n - 1) = 3 * (n - 1)
  <2>1. n - 1 \in 0..3 /\ \A i \in 1..n-1 : TpFractions[i] \in Int
    BY DEF TpFractions
  <2> QED BY <1>1, <2>1, SumIs
<1>3. PaperCloses(n) = [i \in 1..n |-> IF i < n THEN 3 ELSE 10 - 3 * (n - 1)]
  <2> DEFINE W == [i \in 0..n |-> IF i = 0 THEN 10 ELSE IF i = n THEN 0
                                  ELSE IF i = 1 THEN 7 ELSE 4]
  <2>1. PaperCloses(n) = [i \in 1..n |-> W[i-1] - W[i]]
    BY RemainingIs DEF PaperCloses
  <2>2. \A i \in 1..n : W[i-1] - W[i] = IF i < n THEN 3 ELSE 10 - 3 * (n - 1)
    OBVIOUS
  <2> QED BY <2>1, <2>2
<1>4. TakeProfitQuantities(n) = [i \in 1..n |-> IF i < n THEN 3 ELSE 10 - 3 * (n - 1)]
  <2>1. \A i \in 1..n : (IF i < n THEN TpFractions[i] ELSE Size - SumOf(TpFractions, n - 1))
                          = IF i < n THEN 3 ELSE 10 - 3 * (n - 1)
    BY <1>1, <1>2
  <2> QED BY <2>1 DEF TakeProfitQuantities
<1>5. SumOf(PaperCloses(n), n) = Size
  <2>1. n \in 0..3 /\ \A i \in 1..n : PaperCloses(n)[i] \in Int
    BY <1>3
  <2> QED BY <1>1, <1>3, <2>1, SumIs
<1> QED BY <1>3, <1>4, <1>5

-----------------------------------------------------------------------------
(* A plan of the Decision Agent and its live orders.                       *)

\* A plan starts at MinRR times the risk; its levels are beyond it, in any order.
Planned(plan, r) ==
  /\ plan \in Seq(Int) /\ Len(plan) = 3
  /\ plan[1] = 2 * r /\ plan[2] >= 3 * r /\ plan[3] >= 4 * r

LEMMA PlanParts ==
  ASSUME NEW plan, NEW r, Planned(plan, r)
  PROVE  /\ plan \in Seq(Int) /\ Len(plan) = 3 /\ DOMAIN plan = 1..3
         /\ plan[1] \in Int /\ plan[2] \in Int /\ plan[3] \in Int
<1>1. plan \in Seq(Int) /\ Len(plan) = 3
  BY DEF Planned
<1> QED BY <1>1, ThreeLong

LEMMA SnapFacts ==
  ASSUME NEW S, S \subseteq Int, NEW r \in Nat \ {0}, NEW m \in Nat
  PROVE  Snap(S, r, m) \in Int /\ Snap(S, r, m) >= m * r
<1> DEFINE floor == m * r
           beyond == {g \in S : g > floor}
<1>1. floor \in Nat
  OBVIOUS
<1>2. Snap(S, r, m) = IF beyond = {} THEN floor ELSE Min(beyond)
  BY DEF Snap
<1> HIDE DEF floor
<1>3. beyond \subseteq Nat /\ \A g \in beyond : g >= floor
  <2>1. \A g \in S : g > floor => g \in Nat /\ g >= floor
    BY <1>1
  <2> QED BY <2>1
<1> HIDE DEF beyond
<1>4. Snap(S, r, m) \in Int /\ Snap(S, r, m) >= floor
  <2>1. CASE beyond = {}
    BY <1>1, <1>2, <2>1
  <2>2. CASE beyond # {}
    <3>1. Min(beyond) \in beyond
      BY <1>3, <2>2, LeastLevel
    <3>2. \A g \in beyond : g \in Int /\ g >= floor
      BY <1>3
    <3> QED BY <1>2, <2>2, <3>1, <3>2
  <2> QED BY <2>1, <2>2
<1> QED BY <1>4 DEF floor

LEMMA PlansAreSound ==
  ASSUME NEW S, S \subseteq Int, NEW r \in Nat \ {0}
  PROVE  Planned(SelectTakeProfits(S, r), r)
<1>1. /\ Snap(S, r, 3) \in Int /\ Snap(S, r, 3) >= 3 * r
      /\ Snap(S, r, 4) \in Int /\ Snap(S, r, 4) >= 4 * r
  BY SnapFacts
<1> DEFINE a == Snap(S, r, 3)
           b == Snap(S, r, 4)
<1> HIDE DEF a, b
<1>2. a \in Int /\ b \in Int /\ a >= 3 * r /\ b >= 4 * r
  BY <1>1 DEF a, b
<1>3. <<2 * r, a, b>> \in Seq(Int) /\ Len(<<2 * r, a, b>>) = 3
  BY <1>2
<1>4. SelectTakeProfits(S, r) = <<2 * r, a, b>>
  BY DEF SelectTakeProfits, MinRR, a, b
<1> QED BY <1>2, <1>3, <1>4 DEF Planned

\* Whatever percentage replaces its first level, a plan names three levels on the
\* profit side: the default ones never fill it up.
LEMMA LiveLevelsAre ==
  ASSUME NEW k \in Nat \ {0}, NEW plan, Planned(plan, k), NEW r \in Nat \ {0},
         NEW target \in Nat, NEW percent \in Nat
  PROVE  LiveLevels(plan, r, target, percent) =
           IF target > 0 THEN <<target * r, (target + 1) * r, (target + 2) * r>>
           ELSE IF percent > 0 THEN <<percent, plan[2], plan[3]>>
           ELSE <<plan[1], plan[2], plan[3]>>
<1> DEFINE wanted == IF percent > 0 THEN [plan EXCEPT ![1] = percent] ELSE plan
           base == ContractLevels(wanted, r, target)
<1>1. DOMAIN plan = 1..3 /\ \A i \in 1..3 : plan[i] \in Int /\ plan[i] > 0
  <2>1. DOMAIN plan = 1..3 /\ plan[1] \in Int /\ plan[2] \in Int /\ plan[3] \in Int
    BY PlanParts
  <2>2. plan[1] > 0 /\ plan[2] > 0 /\ plan[3] > 0
    BY <2>1 DEF Planned
  <2> QED BY <2>1, <2>2
<1>2. /\ DOMAIN wanted = 1..3 /\ \A i \in 1..3 : wanted[i] > 0
      /\ wanted[1] = (IF percent > 0 THEN percent ELSE plan[1])
      /\ wanted[2] = plan[2] /\ wanted[3] = plan[3]
  BY <1>1
<1> HIDE DEF wanted
<1>3. base = IF target > 0 THEN <<target * r, (target + 1) * r, (target + 2) * r>>
             ELSE <<wanted[1], wanted[2], wanted[3]>>
  <2>1. CASE target > 0
    BY <2>1 DEF ContractLevels
  <2>2. CASE ~(target > 0)
    <3>1. {i \in DOMAIN wanted : wanted[i] > 0} = 1..3
      BY <1>2
    <3>2. base = Picked(wanted, 1..3)
      BY <2>2, <3>1 DEF ContractLevels
    <3>3. Picked(wanted, 1..3) = [i \in 1..3 |-> wanted[i]]
      BY <1>2, PickedAll
    <3>4. [i \in 1..3 |-> wanted[i]] = <<wanted[1], wanted[2], wanted[3]>>
      OBVIOUS
    <3> QED BY <2>2, <3>2, <3>3, <3>4
  <2> QED BY <2>1, <2>2
<1>4. Len(base) = 3 /\ MaxLevels = 3
  BY <1>3 DEF MaxLevels
<1>5. LiveLevels(plan, r, target, percent) = IF Len(base) < MaxLevels
        THEN SubSeq(Distinct(base \o <<2 * r, 3 * r, 4 * r>>), 1, MaxLevels) ELSE base
  BY DEF LiveLevels, wanted
<1>6. LiveLevels(plan, r, target, percent) = base
  BY <1>4, <1>5
<1> QED BY <1>2, <1>3, <1>6

\* Levels seen from an entry that is better by d.
Moved(levels, d) == [i \in DOMAIN levels |-> levels[i] + d]

LEMMA MovedFacts ==
  ASSUME NEW raw \in Seq(Int), NEW d \in Int
  PROVE  /\ Moved(raw, d) \in Seq(Int) /\ Len(Moved(raw, d)) = Len(raw)
         /\ DOMAIN Moved(raw, d) = DOMAIN raw
<1>1. DOMAIN raw = 1..Len(raw) /\ Len(raw) \in Nat
  OBVIOUS
<1>2. \A i \in 1..Len(raw) : raw[i] + d \in Int
  OBVIOUS
<1>3. Moved(raw, d) \in [1..Len(raw) -> Int]
  BY <1>1, <1>2 DEF Moved
<1> QED BY <1>1, <1>3

\* An accepted ladder of multiples is the paper one.
LEMMA MultiplesAreShared ==
  ASSUME NEW k \in Nat \ {0}, NEW plan, Planned(plan, k), NEW r \in Nat \ {0},
         NEW target \in Nat \ {0}, NEW raw, LiveLadder(plan, r, target, 0) # <<>>
  PROVE  PaperLadder(raw, r, target, 0) = LiveLadder(plan, r, target, 0)
<1> DEFINE a == target * r
           b == (target + 1) * r
           c == (target + 2) * r
           levels == LiveLevels(plan, r, target, 0)
<1>1. LiveLadder(plan, r, target, 0) = levels
  BY DEF LiveLadder
<1>2. levels = <<a, b, c>>
  BY LiveLevelsAre
<1>3. /\ a \in Nat /\ b \in Nat /\ c \in Nat /\ a < b /\ b < c
      /\ RiskMultiples(r, {target, target + 1, target + 2}) = {a, b, c}
  BY Multiples
<1>4. PaperLevels(raw, r, target, 0) = {a, b, c}
  <2>1. target > 0
    OBVIOUS
  <2>2. PaperLevels(raw, r, target, 0) = RiskMultiples(r, {target, target + 1, target + 2})
    BY <2>1 DEF PaperLevels
  <2> QED BY <1>3, <2>2
<1> HIDE DEF a, b, c, levels
<1>5. Sorted({a, b, c}) = <<a, b, c>>
  BY <1>3, SortedThree
<1> QED BY <1>1, <1>2, <1>4, <1>5 DEF PaperLadder

\* An accepted plan is the paper ladder, seen from the paper entry, where the first
\* level still pays MinRR times the risk of the paper position.
LEMMA LevelsAreShared ==
  ASSUME NEW k \in Nat \ {0}, NEW plan, Planned(plan, k), NEW r \in Nat \ {0},
         NEW p \in Nat \ {0}, NEW d \in Int, 2 * k + d >= 2 * p,
         LiveLadder(plan, r, 0, 0) # <<>>
  PROVE  PaperLadder(Moved(plan, d), p, 0, 0) = Moved(LiveLadder(plan, r, 0, 0), d)
<1> DEFINE a == plan[1] + d
           b == plan[2] + d
           c == plan[3] + d
           levels == LiveLevels(plan, r, 0, 0)
           seen == Moved(plan, d)
<1>1. LiveLadder(plan, r, 0, 0) = levels /\ ValidProtection(levels)
  BY DEF LiveLadder
<1>2. levels = <<plan[1], plan[2], plan[3]>>
  BY LiveLevelsAre
<1>3. plan[1] \in Int /\ plan[2] \in Int /\ plan[3] \in Int /\ plan \in Seq(Int)
      /\ Len(plan) = 3 /\ DOMAIN plan = 1..3
  BY PlanParts
<1>4. plan[1] < plan[2] /\ plan[2] < plan[3] /\ plan[1] = 2 * k
  <2> HIDE DEF levels
  <2> QED BY <1>1, <1>2 DEF ValidProtection, Planned
<1>5. Moved(levels, d) = <<a, b, c>>
  BY <1>2 DEF Moved
<1>6. /\ a \in Int /\ b \in Int /\ c \in Int /\ a < b /\ b < c
      /\ a >= 2 * p /\ a > 0 /\ b > 0 /\ c > 0
  BY <1>3, <1>4
<1>7. seen \in Seq(Int) /\ Len(seen) = 3 /\ DOMAIN seen = 1..3
  BY <1>3, MovedFacts
<1>8. ToSet(seen) = {a, b, c}
  <2>1. seen[1] = a /\ seen[2] = b /\ seen[3] = c
    BY <1>3 DEF Moved
  <2> HIDE DEF seen, a, b, c
  <2> QED BY <1>7, <2>1 DEF ToSet
<1> HIDE DEF a, b, c, levels, seen
<1>9. Sanitized(seen) = {a, b, c}
  <2>1. Sanitized(seen) = {g \in {a, b, c} : g > 0}
    <3>1. Len(seen) <= 3
      BY <1>7
    <3> QED BY <1>7, <1>8, <3>1, SanitizedFacts
  <2> QED BY <1>6, <2>1
<1>10. PaperLevels(seen, p, 0, 0) = Normalized(Sanitized(seen), p)
  BY DEF PaperLevels
<1>11. Normalized({a, b, c}, p) = {a, b, c}
  <2>1. \A g \in {a, b, c} : ~(g < MinRR * p)
    <3>1. MinRR * p = 2 * p
      BY DEF MinRR
    <3> QED BY <1>6, <3>1
  <2> QED BY <2>1 DEF Normalized
<1>12. Sorted({a, b, c}) = <<a, b, c>>
  BY <1>6, SortedThree
<1> QED BY <1>1, <1>5, <1>9, <1>10, <1>11, <1>12 DEF PaperLadder, seen

-----------------------------------------------------------------------------
(* The invariant.                                                          *)

\* What is open is the ladder of what was planned.
LaddersOfPlan ==
  stage = "opened" =>
    /\ paper = IF PaperRisk > 0
                 THEN PaperLadder(FromPaperEntry(planned), PaperRisk, rr, pct) ELSE <<>>
    /\ live = IF source = "decision" THEN LiveLadder(planned, LiveRisk, rr, pct) ELSE <<>>

PlanIsSound ==
  stage # "proposed" /\ source = "decision" => Planned(planned, risk)

Inv == TypeOK /\ LaddersOfPlan /\ PlanIsSound

\* The ladder of a paper position.
LEMMA PaperLadderFacts ==
  ASSUME NEW raw \in Seq(Int), Len(raw) <= 3, NEW r \in Nat \ {0},
         NEW target \in Nat, NEW percent \in Nat
  PROVE  LET ladder == PaperLadder(raw, r, target, percent)
         IN  /\ ladder \in Seq(Nat \ {0}) /\ Len(ladder) \in 1..3 /\ Increasing(ladder)
             /\ ToSet(ladder) = PaperLevels(raw, r, target, percent)
<1> DEFINE P == PaperLevels(raw, r, target, percent)
<1>1. Openable(P)
  BY PaperLevelsFacts
<1> HIDE DEF P
<1>2. LevelSet(P) /\ Cardinality(P) \in 1..3 /\ P \subseteq Nat \ {0}
  BY <1>1 DEF Openable, LevelSet
<1>3. /\ Increasing(Sorted(P)) /\ ToSet(Sorted(P)) = P
      /\ Sorted(P) \in [1..Cardinality(P) -> P] /\ Len(Sorted(P)) = Cardinality(P)
  BY <1>2, SortedFacts
<1>4. Sorted(P) \in Seq(Nat \ {0})
  <2> DEFINE s == Sorted(P)
             n == Cardinality(P)
  <2>1. s \in [1..n -> P] /\ n \in Nat
    BY <1>2, <1>3
  <2> HIDE DEF s, n
  <2>2. s \in [1..n -> Nat \ {0}]
    BY <1>2, <2>1
  <2>3. s \in Seq(Nat \ {0})
    BY <2>1, <2>2
  <2> QED BY <2>3 DEF s
<1>5. PaperLadder(raw, r, target, percent) = Sorted(P)
  BY DEF PaperLadder, P
<1> QED BY <1>2, <1>3, <1>4, <1>5 DEF P

\* The live orders are three levels, or none.
LEMMA LiveLadderFacts ==
  ASSUME NEW k \in Nat \ {0}, NEW plan, Planned(plan, k), NEW r \in Nat \ {0},
         NEW target \in Nat, NEW percent \in Nat
  PROVE  LET ladder == LiveLadder(plan, r, target, percent)
         IN  ladder \in Seq(Int) /\ Len(ladder) \in 0..3
<1> DEFINE levels == LiveLevels(plan, r, target, percent)
<1>1. plan[1] \in Int /\ plan[2] \in Int /\ plan[3] \in Int
  BY PlanParts
<1>2. /\ target * r \in Int /\ (target + 1) * r \in Int /\ (target + 2) * r \in Int
  OBVIOUS
<1>3. levels \in Seq(Int) /\ Len(levels) = 3
  <2>1. percent \in Int
    OBVIOUS
  <2>2. \A a, b, c \in Int : <<a, b, c>> \in Seq(Int) /\ Len(<<a, b, c>>) = 3
    OBVIOUS
  <2>3. levels \in {<<target * r, (target + 1) * r, (target + 2) * r>>,
                    <<percent, plan[2], plan[3]>>, <<plan[1], plan[2], plan[3]>>}
    BY LiveLevelsAre
  <2> DEFINE ladder(a, b, c) == <<a, b, c>>
  <2>4. levels \in {ladder(target * r, (target + 1) * r, (target + 2) * r),
                    ladder(percent, plan[2], plan[3]), ladder(plan[1], plan[2], plan[3])}
    BY <2>3
  <2>5. \A a, b, c \in Int : ladder(a, b, c) \in Seq(Int) /\ Len(ladder(a, b, c)) = 3
    BY <2>2
  <2> HIDE DEF levels, ladder
  <2> DEFINE a == target * r
             b == (target + 1) * r
             c == (target + 2) * r
  <2>6. ladder(a, b, c) \in Seq(Int) /\ Len(ladder(a, b, c)) = 3
    <3>1. a \in Int /\ b \in Int /\ c \in Int
      BY <1>2
    <3> HIDE DEF a, b, c
    <3> QED BY <2>5, <3>1
  <2>7. /\ ladder(percent, plan[2], plan[3]) \in Seq(Int)
        /\ Len(ladder(percent, plan[2], plan[3])) = 3
        /\ ladder(plan[1], plan[2], plan[3]) \in Seq(Int)
        /\ Len(ladder(plan[1], plan[2], plan[3])) = 3
    BY <1>1, <2>1, <2>5
  <2> QED BY <2>4, <2>6, <2>7, Zenon
<1>4. LiveLadder(plan, r, target, percent) \in {levels, <<>>}
  BY DEF LiveLadder
<1>5. <<>> \in Seq(Int) /\ Len(<<>>) = 0
  OBVIOUS
<1> HIDE DEF levels
<1>6. 3 \in 0..3 /\ 0 \in 0..3
  OBVIOUS
<1>7. levels \in Seq(Int) /\ Len(levels) \in 0..3
  BY <1>3, <1>6
<1>8. <<>> \in Seq(Int) /\ Len(<<>>) \in 0..3
  BY <1>5, <1>6
<1> QED BY <1>4, <1>7, <1>8, Zenon

LEMMA PlainTypes ==
  ASSUME TypeOK
  PROVE  /\ risk \in Nat \ {0} /\ stop \in Nat /\ drift \in Int /\ rr \in Nat /\ pct \in Nat
         /\ LiveRisk \in Nat \ {0} /\ (PaperRisk > 0 => PaperRisk \in Nat \ {0})
         /\ planned \in Seq(Int) /\ Len(planned) <= 3
         /\ FromPaperEntry(planned) \in Seq(Int) /\ Len(FromPaperEntry(planned)) <= 3
<1>1. risk \in Nat \ {0} /\ stop \in Nat /\ drift \in Int /\ rr \in Nat /\ pct \in Nat
  BY LevelsAssumption DEF TypeOK
<1>2. planned \in Seq(Int) /\ Len(planned) \in 0..MaxLevels
  BY DEF TypeOK
<1>3. Len(planned) <= 3
  <2>1. MaxLevels = 3
    BY DEF MaxLevels
  <2> QED BY <1>2, <2>1, AtMostThree
<1>4. LiveRisk \in Nat \ {0} /\ (PaperRisk > 0 => PaperRisk \in Nat \ {0})
  BY <1>1 DEF LiveRisk, PaperRisk
<1>5. FromPaperEntry(planned) = Moved(planned, drift)
  BY DEF FromPaperEntry, Moved
<1> QED BY <1>1, <1>2, <1>3, <1>4, <1>5, MovedFacts

LEMMA NextKeeps ==
  ASSUME Inv, [Next]_vars
  PROVE  Inv'
<1> USE LevelsAssumption
<1>1. /\ risk \in Nat \ {0} /\ rr \in Nat /\ pct \in Nat
      /\ LiveRisk \in Nat \ {0} /\ (PaperRisk > 0 => PaperRisk \in Nat \ {0})
      /\ FromPaperEntry(planned) \in Seq(Int) /\ Len(FromPaperEntry(planned)) <= 3
  BY PlainTypes DEF Inv
<1> USE DEF settings
<1>2. ASSUME NEW S \in SUBSET Levels, BuildEntryPlan(S)
      PROVE  Inv'
  <2>1. Planned(SelectTakeProfits(S, risk), risk)
    BY <1>1, PlansAreSound
  <2>2. planned' \in Seq(Int) /\ Len(planned') \in 0..MaxLevels
    BY <1>2, <2>1 DEF BuildEntryPlan, Planned, MaxLevels
  <2>3. TypeOK'
    BY <1>2, <2>2 DEF BuildEntryPlan, Inv, TypeOK
  <2>4. LaddersOfPlan' /\ PlanIsSound'
    BY <1>2, <2>1 DEF BuildEntryPlan, LaddersOfPlan, PlanIsSound
  <2> QED BY <2>3, <2>4 DEF Inv
<1>3. ASSUME NEW raw \in UNION {[1..n -> Levels] : n \in 0..MaxLevels}, ScannerSignal(raw)
      PROVE  Inv'
  <2>1. PICK n \in 0..MaxLevels : raw \in [1..n -> Levels]
    OBVIOUS
  <2>2. raw \in Seq(Int) /\ Len(raw) \in 0..MaxLevels
    <3>1. n \in Nat
      BY <2>1, AtMostThree DEF MaxLevels
    <3>2. raw \in [1..n -> Int]
      BY <2>1
    <3>3. raw \in Seq(Int) /\ Len(raw) = n
      BY <3>1, <3>2
    <3> QED BY <2>1, <3>3
  <2>3. TypeOK'
    BY <1>3, <2>2 DEF ScannerSignal, Inv, TypeOK
  <2>4. LaddersOfPlan' /\ PlanIsSound'
    BY <1>3 DEF ScannerSignal, LaddersOfPlan, PlanIsSound
  <2> QED BY <2>3, <2>4 DEF Inv
<1>4. CASE OpenBoth
  <2>1. paper' \in Seq(Int) /\ Len(paper') \in 0..MaxLevels
    <3>1. CASE PaperRisk > 0
      <4>1. paper' \in Seq(Nat \ {0}) /\ Len(paper') \in 1..3
        BY <1>1, <1>4, <3>1, PaperLadderFacts DEF OpenBoth
      <4> QED BY <4>1 DEF MaxLevels
    <3>2. CASE ~(PaperRisk > 0)
      BY <1>4, <3>2 DEF OpenBoth, MaxLevels
    <3> QED BY <3>1, <3>2
  <2>2. live' \in Seq(Int) /\ Len(live') \in 0..MaxLevels
    <3>1. CASE source = "decision"
      <4>1. Planned(planned, risk)
        BY <1>4, <3>1 DEF Inv, PlanIsSound, OpenBoth
      <4> QED BY <1>1, <1>4, <3>1, <4>1, LiveLadderFacts DEF OpenBoth, MaxLevels
    <3>2. CASE source # "decision"
      BY <1>4, <3>2 DEF OpenBoth, MaxLevels
    <3> QED BY <3>1, <3>2
  <2>3. TypeOK'
    BY <1>4, <2>1, <2>2 DEF OpenBoth, Inv, TypeOK
  <2>4. LaddersOfPlan' /\ PlanIsSound'
    BY <1>4 DEF OpenBoth, Inv, LaddersOfPlan, PlanIsSound, PaperRisk, LiveRisk, FromPaperEntry
  <2> QED BY <2>3, <2>4 DEF Inv
<1>5. CASE UNCHANGED vars
  BY <1>5 DEF vars, Inv, TypeOK, LaddersOfPlan, PlanIsSound, PaperRisk, LiveRisk,
              FromPaperEntry
<1> QED BY <1>2, <1>3, <1>4, <1>5 DEF Next

-----------------------------------------------------------------------------
(* The results.                                                            *)

\* The invariant holds in every state of the specification.
THEOREM Invariance == Spec => []Inv
<1>1. Init => Inv
  <2>1. <<>> \in Seq(Int) /\ Len(<<>>) \in 0..MaxLevels
    BY DEF MaxLevels
  <2> QED BY <2>1 DEF Init, Inv, TypeOK, LaddersOfPlan, PlanIsSound
<1>2. Inv /\ [Next]_vars => Inv'
  BY NextKeeps
<1> QED BY <1>1, <1>2, PTL DEF Spec

\* Every ladder, planned, on paper or live, is one of three levels at most.
THEOREM TypeCorrect == Spec => []TypeOK
<1>1. Inv => TypeOK
  BY DEF Inv
<1> QED BY <1>1, Invariance, PTL

LEMMA OpenedLadder ==
  ASSUME Inv, stage = "opened", PaperRisk > 0
  PROVE  /\ paper \in Seq(Nat \ {0}) /\ Len(paper) \in 1..3 /\ Increasing(paper)
         /\ ToSet(paper) = PaperLevels(FromPaperEntry(planned), PaperRisk, rr, pct)
         /\ PaperRisk \in Nat \ {0} /\ rr \in Nat /\ pct \in Nat
         /\ FromPaperEntry(planned) \in Seq(Int) /\ Len(FromPaperEntry(planned)) <= 3
<1>1. /\ PaperRisk \in Nat \ {0} /\ rr \in Nat /\ pct \in Nat
      /\ FromPaperEntry(planned) \in Seq(Int) /\ Len(FromPaperEntry(planned)) <= 3
  BY PlainTypes DEF Inv
<1>2. paper = PaperLadder(FromPaperEntry(planned), PaperRisk, rr, pct)
  BY DEF Inv, LaddersOfPlan
<1> QED BY <1>1, <1>2, PaperLadderFacts

\* Whatever levels a signal names and whatever is preferred, a paper position
\* opens with one to three levels on the profit side, nearest first: the ladders
\* PaperEngine is proved for.
THEOREM LadderIsOrdered == Spec => []PaperLadderIsOrdered
<1>1. Inv => PaperLadderIsOrdered
  <2> SUFFICES ASSUME Inv, stage = "opened", PaperRisk > 0
               PROVE  Len(paper) \in 1..MaxLevels /\ Increasing(paper) /\ paper[1] > 0
    BY DEF PaperLadderIsOrdered
  <2>1. paper \in Seq(Nat \ {0}) /\ Len(paper) \in 1..3 /\ Increasing(paper)
    BY OpenedLadder
  <2>2. paper[1] \in Nat \ {0}
    BY <2>1
  <2> QED BY <2>1, <2>2 DEF MaxLevels
<1> QED BY <1>1, Invariance, PTL

\* The first level pays at least MinRR times the risk of the position as it was
\* entered, and of the levels the signal named beyond that none is passed over for an
\* invented one.
THEOREM FirstLevelPays == Spec => []PaperFirstLevelPaysMinRR
<1>1. Inv => PaperFirstLevelPaysMinRR
  <2> SUFFICES ASSUME Inv, stage = "opened", PaperRisk > 0, rr = 0
               PROVE  /\ paper[1] >= MinRR * PaperRisk
                      /\ \A g \in ToSet(FromPaperEntry(planned)) :
                           pct = 0 /\ g >= MinRR * PaperRisk /\ g < paper[Len(paper)]
                             => g \in ToSet(paper)
    BY DEF PaperFirstLevelPaysMinRR
  <2> DEFINE P == PaperLevels(FromPaperEntry(planned), PaperRisk, rr, pct)
  <2>1. /\ paper \in Seq(Nat \ {0}) /\ Len(paper) \in 1..3 /\ ToSet(paper) = P
        /\ PaperRisk \in Nat \ {0} /\ rr \in Nat /\ pct \in Nat
        /\ FromPaperEntry(planned) \in Seq(Int) /\ Len(FromPaperEntry(planned)) <= 3
    BY OpenedLadder
  <2>2. /\ \A g \in P : g >= MinRR * PaperRisk
        /\ pct = 0 => \A g \in ToSet(FromPaperEntry(planned)), last \in P :
             g >= MinRR * PaperRisk /\ g < last => g \in P
    BY <2>1, PaperLevelsFacts
  <2> HIDE DEF P
  <2>3. paper[1] \in ToSet(paper) /\ paper[Len(paper)] \in ToSet(paper)
    BY <2>1 DEF ToSet
  <2> QED BY <2>1, <2>2, <2>3
<1> QED BY <1>1, Invariance, PTL

\* Whatever number of levels a position opened with, each live order has the size
\* that the paper engine closes at its level, and together they are the position.
THEOREM OrdersMatchCloses == Spec => []QuantitiesAgree
<1>1. Inv => QuantitiesAgree
  BY OpenedLadder, SameQuantities DEF QuantitiesAgree
<1> QED BY <1>1, Invariance, PTL

\* A plan that the live executor accepts has the same prices on paper, for any
\* structure of the chart, any entry and any settings that do not make the paper
\* engine measure its ladder anew.
THEOREM AcceptedIsShared == Spec => []AcceptedLadderIsShared
<1>1. Inv => AcceptedLadderIsShared
  <2> SUFFICES ASSUME Inv, stage = "opened", live # <<>>, PaperRisk > 0, pct = 0, SameMeasure
               PROVE  paper = FromPaperEntry(live)
    BY DEF AcceptedLadderIsShared
  <2>1. /\ source = "decision" /\ Planned(planned, risk)
        /\ live = LiveLadder(planned, LiveRisk, rr, 0)
        /\ paper = PaperLadder(FromPaperEntry(planned), PaperRisk, rr, 0)
    BY DEF Inv, LaddersOfPlan, PlanIsSound
  <2>2. /\ risk \in Nat \ {0} /\ stop \in Nat /\ drift \in Int /\ rr \in Nat
        /\ LiveRisk \in Nat \ {0} /\ PaperRisk \in Nat \ {0}
    BY PlainTypes DEF Inv
  <2>3. CASE rr > 0
    <3>1. drift = 0
      BY <2>3 DEF SameMeasure
    <3>2. PaperRisk = LiveRisk
      BY <2>2, <3>1 DEF PaperRisk, LiveRisk
    <3>3. paper = live
      BY <2>1, <2>2, <2>3, <3>2, MultiplesAreShared
    <3>4. live \in Seq(Int)
      BY <2>1, <2>2, LiveLadderFacts
    <3>5. FromPaperEntry(live) = live
      <4>1. \A i \in DOMAIN live : live[i] \in Int /\ live[i] + drift = live[i]
        BY <3>1, <3>4
      <4>2. FromPaperEntry(live) = [i \in DOMAIN live |-> live[i]]
        BY <4>1 DEF FromPaperEntry
      <4> QED BY <3>4, <4>2
    <3> QED BY <3>3, <3>5
  <2>4. CASE ~(rr > 0)
    <3>1. rr = 0 /\ stop <= risk /\ drift >= 0
      BY <2>2, <2>4 DEF SameMeasure
    <3>2. 2 * risk + drift >= 2 * PaperRisk
      BY <2>2, <3>1 DEF PaperRisk
    <3>3. /\ FromPaperEntry(planned) = Moved(planned, drift)
          /\ FromPaperEntry(live) = Moved(live, drift)
      BY DEF FromPaperEntry, Moved
    <3> QED BY <2>1, <2>2, <3>1, <3>2, <3>3, LevelsAreShared
  <2> QED BY <2>3, <2>4
<1> QED BY <1>1, Invariance, PTL
=============================================================================
