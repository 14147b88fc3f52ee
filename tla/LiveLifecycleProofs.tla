-------------------------- MODULE LiveLifecycleProofs --------------------------
(***************************************************************************)
(* Proofs about LiveLifecycle: for any prices, trailing distance and size  *)
(* of the position, and any number of faults and repairs, the stop of an   *)
(* open position never loosens, and no level is forgotten.                 *)
(*                                                                         *)
(* A level is forgotten only where a partial close is overlooked.  The     *)
(* invariant follows how the cycle finds one out: by a checkpoint that is  *)
(* larger than the position, or, without a checkpoint, by a quantity that  *)
(* is less than the whole.                                                 *)
(***************************************************************************)
EXTENDS LiveLifecycle, FiniteSetTheorems, WellFoundedInduction, TLAPS

-----------------------------------------------------------------------------
(* Prices.                                                                 *)

LEMMA LeastOf ==
  ASSUME NEW T \in SUBSET Nat, T # {}
  PROVE  Min(T) \in T /\ \A n \in T : Min(T) <= n
<1>1. \E m \in T : \A n \in T : m <= n
  <2>1. IsWellFoundedOn(OpToRel(<, Nat), Nat)
    BY NatLessThanWellFounded
  <2>2. PICK m \in T : \A n \in T : ~(<<n, m>> \in OpToRel(<, Nat))
    BY <2>1, WFMin
  <2>3. \A n \in T : ~(n < m)
    BY <2>2 DEF OpToRel
  <2> QED BY <2>3
<1> QED BY <1>1 DEF Min

\* The greater of two numbers is one of them.
LEMMA GreaterOfTwo ==
  ASSUME NEW m \in Int, NEW n \in Int
  PROVE  /\ Max({m, n}) \in {m, n}
         /\ Max({m, n}) >= m /\ Max({m, n}) >= n
<1>1. \E x \in {m, n} : \A y \in {m, n} : x >= y
  <2>1. CASE m >= n
    BY <2>1
  <2>2. CASE n >= m
    BY <2>2
  <2> QED BY <2>1, <2>2
<1> QED BY <1>1 DEF Max

LEMMA ThreeLevels == Levels = {1, 2, 3}
BY DEF Levels

LEMMA PartsAre ==
  /\ \A l \in Levels : Part(l) \in Nat /\ Part(l) > 0 /\ Tenths[l] \in Nat
  /\ Size \in Nat /\ Size > 0
BY SizeAssumption, ThreeLevels DEF Part, Size, Tenths

LEMMA TrailIsNat ==
  ASSUME NEW peak \in Nat
  PROVE  Trail(peak) \in Nat
<1>1. 100 - Percent \in Nat
  BY TrailAssumption
<1>2. peak * (100 - Percent) \in Nat
  BY <1>1
<1> QED BY <1>2 DEF Trail

LEMMA StopsAreNat == Peaks \subseteq Nat /\ Stops \subseteq Nat
<1>1. Peaks \subseteq Nat
  BY PricesAssumption, EntryAssumption DEF Peaks
<1>2. InitialStop \in Nat
  BY EntryAssumption
<1> QED BY <1>1, <1>2, TrailIsNat DEF Stops

\* The ladder of the entry has three prices, the nearest three of some prices are as
\* many, and the repair has three.
LEMMA LadderIs ==
  /\ Ladder = {LevelPrice[1], LevelPrice[2], LevelPrice[3]}
  /\ Ladder \subseteq Nat /\ Queued \subseteq Ladder
  /\ \A p \in Queued : PartAt(p) \in Nat /\ PartAt(p) > 0
<1>1. Ladder = {LevelPrice[1], LevelPrice[2], LevelPrice[3]}
  BY LevelAssumption, ThreeLevels DEF Ladder, Range, Levels
<1>2. Ladder \subseteq Nat
  BY <1>1, LevelAssumption
<1>3. Queued \subseteq Ladder
  BY <1>1 DEF Queued
<1>4. ASSUME NEW p \in Queued PROVE PartAt(p) \in Nat /\ PartAt(p) > 0
  <2>1. \E l \in Levels : LevelPrice[l] = p
    BY <1>4, ThreeLevels DEF Queued
  <2> DEFINE place == CHOOSE l \in Levels : LevelPrice[l] = p
  <2>2. place \in Levels
    BY <2>1
  <2> QED BY <2>2, PartsAre DEF PartAt
<1> QED BY <1>1, <1>2, <1>3, <1>4

LEMMA RepairPriceIsTarget ==
  ASSUME NEW s \in Stops, NEW l \in Levels
  PROVE  RepairPrice(s, l) \in Targets
BY DEF Targets

LEMMA TargetsAreNat == Targets \subseteq Nat
<1>1. ASSUME NEW s \in Stops, NEW l \in Levels PROVE RepairPrice(s, l) \in Nat
  <2> DEFINE risk == Max({Entry - s, s - Entry})
  <2>1. Entry \in Nat /\ s \in Nat
    BY EntryAssumption, StopsAreNat
  <2>2. Entry - s \in Int /\ s - Entry \in Int
    BY <2>1
  <2>3. risk \in {Entry - s, s - Entry} /\ risk >= Entry - s /\ risk >= s - Entry
    BY <2>2, GreaterOfTwo
  <2>4. risk \in Nat
    BY <2>1, <2>3
  <2> HIDE DEF risk
  <2>5. l = 1 \/ l = 2 \/ l = 3
    BY ThreeLevels
  <2>6. Entry + (l + 1) * risk \in Nat
    BY <2>1, <2>4, <2>5
  <2> QED BY <2>6 DEF RepairPrice, risk
<1> QED BY <1>1, LadderIs DEF Targets

LEMMA PlaceOfNearest ==
  ASSUME NEW some \in SUBSET Nat
  PROVE  \A p \in Nearest(some) : Place(p, Nearest(some)) \in Levels
<1> TAKE p \in Nearest(some)
<1> DEFINE nearer == {k \in some : k < p}
           upto == {k \in Nearest(some) : k <= p}
<1>0. \A k \in some : k \in Nat
  OBVIOUS
<1>1. p \in Nat /\ p \in some /\ Cardinality(nearer) < 3
  BY <1>0 DEF Nearest
<1>2. IsFiniteSet(nearer) /\ Cardinality(nearer) \in Nat
  <2>1. nearer \subseteq 0..p
    <3> SUFFICES ASSUME NEW k \in nearer PROVE k \in 0..p
      OBVIOUS
    <3>1. k \in Nat /\ k < p
      BY <1>0
    <3> QED BY <1>1, <3>1
  <2>2. IsFiniteSet(0..p)
    BY <1>1, FS_Interval
  <2>3. IsFiniteSet(nearer)
    BY <2>1, <2>2, FS_Subset
  <2> QED BY <2>3, FS_CardinalityType
<1>3. upto \subseteq nearer \union {p} /\ p \in upto
  <2>1. \A k \in Nearest(some) : k \in some /\ k \in Nat
    BY <1>0 DEF Nearest
  <2>2. \A k \in upto : k \in some /\ (k < p \/ k = p)
    BY <1>1, <2>1
  <2>3. p \in upto
    BY <1>1
  <2> QED BY <2>2, <2>3
<1> HIDE DEF nearer, upto
<1>4. IsFiniteSet(nearer \union {p}) /\ Cardinality(nearer \union {p}) <= 3
  <2>1. Cardinality(nearer) <= 2
    BY <1>1, <1>2 DEF nearer
  <2>2. /\ IsFiniteSet(nearer \union {p})
        /\ Cardinality(nearer \union {p}) =
             IF p \in nearer THEN Cardinality(nearer) ELSE Cardinality(nearer) + 1
    BY <1>2, FS_AddElement
  <2> QED BY <1>2, <2>1, <2>2
<1>5. IsFiniteSet(upto) /\ Cardinality(upto) <= Cardinality(nearer \union {p})
  BY <1>3, <1>4, FS_Subset
<1>6. Cardinality(upto) \in Nat /\ Cardinality(upto) # 0
  BY <1>3, <1>5, FS_EmptySet, FS_CardinalityType
<1>7. Cardinality(nearer \union {p}) \in Nat
  BY <1>4, FS_CardinalityType
<1>8. Cardinality(upto) \in 1..3
  BY <1>4, <1>5, <1>6, <1>7
<1> QED BY <1>8 DEF Place, Levels, upto

LEMMA PlaceOfLadder == \A p \in Ladder : Place(p, Ladder) \in Levels
<1>1. Nearest(Ladder) = Ladder
  <2> SUFFICES ASSUME NEW p \in Ladder PROVE Cardinality({k \in Ladder : k < p}) < 3
    BY DEF Nearest
  <2>1. p \in Nat /\ LevelPrice[1] \in Nat /\ LevelPrice[2] \in Nat /\ LevelPrice[3] \in Nat
    BY LadderIs, LevelAssumption, ThreeLevels
  <2> DEFINE two == {LevelPrice[1], LevelPrice[2]}
             nearer == {k \in Ladder : k < p}
  <2>2. nearer \subseteq two
    <3>1. \A k \in Ladder : k \in Nat /\ k <= LevelPrice[3]
      BY <2>1, LadderIs, LevelAssumption
    <3>2. p <= LevelPrice[3]
      BY <3>1
    <3>3. LevelPrice[3] \notin nearer
      BY <2>1, <3>2
    <3> QED BY <3>3, LadderIs
  <2>3. IsFiniteSet(two) /\ Cardinality(two) <= 2
    <3>1. IsFiniteSet({LevelPrice[1]}) /\ Cardinality({LevelPrice[1]}) = 1
      BY FS_Singleton
    <3>2. two = {LevelPrice[1]} \union {LevelPrice[2]}
      OBVIOUS
    <3> HIDE DEF two
    <3> QED BY <3>1, <3>2, FS_AddElement
  <2> HIDE DEF two, nearer
  <2>4. Cardinality(nearer) <= Cardinality(two) /\ IsFiniteSet(nearer)
    BY <2>2, <2>3, FS_Subset
  <2>5. Cardinality(nearer) \in Nat /\ Cardinality(two) \in Nat
    BY <2>3, <2>4, FS_CardinalityType
  <2>6. Cardinality(nearer) < 3
    BY <2>3, <2>4, <2>5
  <2> QED BY <2>6 DEF nearer
<1> QED BY <1>1, LadderIs, PlaceOfNearest

-----------------------------------------------------------------------------
(* The orders of the re-arming and of the repair.                          *)

\* Rounding misses a quotient by at most a half.
LEMMA RoundedIs ==
  ASSUME NEW a \in Nat
  PROVE  /\ \A n \in {3, 4, 6, 7, 10} : Rounded(a, n) \in Nat /\ Rounded(0, n) = 0
         /\ 12 * Rounded(a, 6) <= 2 * a + 6
         /\ 14 * Rounded(a, 7) <= 2 * a + 7
         /\ 20 * Rounded(a, 10) <= 2 * a + 10
<1>1. \A n \in {3, 4, 6, 7, 10} : Rounded(a, n) \in Nat /\ Rounded(0, n) = 0
  BY DEF Rounded
<1>2. /\ a \div 6 \in Nat /\ a % 6 \in 0..5 /\ a = 6 * (a \div 6) + (a % 6)
      /\ a \div 7 \in Nat /\ a % 7 \in 0..6 /\ a = 7 * (a \div 7) + (a % 7)
      /\ a \div 10 \in Nat /\ a % 10 \in 0..9 /\ a = 10 * (a \div 10) + (a % 10)
  OBVIOUS
<1>3. \/ Rounded(a, 6) = a \div 6
      \/ Rounded(a, 6) = a \div 6 + 1 /\ 2 * (a % 6) >= 6
  BY <1>2 DEF Rounded
<1>4. \/ Rounded(a, 7) = a \div 7
      \/ Rounded(a, 7) = a \div 7 + 1 /\ 2 * (a % 7) >= 7
  BY <1>2 DEF Rounded
<1>5. \/ Rounded(a, 10) = a \div 10
      \/ Rounded(a, 10) = a \div 10 + 1 /\ 2 * (a % 10) >= 10
  BY <1>2 DEF Rounded
<1> QED BY <1>1, <1>2, <1>3, <1>4, <1>5

\* The nearer levels leave something for the last one.
LEMMA PartsFit ==
  ASSUME NEW q \in Nat \ {0}, NEW a \in {0, 3}, NEW b \in {0, 3}, NEW c \in {0, 4},
         a + b + c > 0
  PROVE  /\ a + b + c \in {3, 4, 6, 7, 10}
         /\ Rounded(q * a, a + b + c) \in Nat /\ Rounded(q * b, a + b + c) \in Nat
         /\ Rounded(q * c, a + b + c) \in Nat
         /\ b > 0 => Rounded(q * a, a + b + c) <= q
         /\ c > 0 => Rounded(q * a, a + b + c) + Rounded(q * b, a + b + c) <= q
<1>1. a + b + c \in {3, 4, 6, 7, 10}
  OBVIOUS
<1>2. q * a \in Nat /\ q * b \in Nat /\ q * c \in Nat /\ q * 3 \in Nat /\ q * 0 = 0
  OBVIOUS
<1>3. /\ 12 * Rounded(q * 3, 6) <= 6 * q + 6 /\ Rounded(q * 3, 6) \in Nat
      /\ 14 * Rounded(q * 3, 7) <= 6 * q + 7 /\ Rounded(q * 3, 7) \in Nat
      /\ 20 * Rounded(q * 3, 10) <= 6 * q + 10 /\ Rounded(q * 3, 10) \in Nat
      /\ \A n \in {3, 4, 6, 7, 10} : Rounded(q * 0, n) = 0
  BY <1>2, RoundedIs
<1>4. /\ Rounded(q * a, a + b + c) \in Nat /\ Rounded(q * b, a + b + c) \in Nat
      /\ Rounded(q * c, a + b + c) \in Nat
  BY <1>1, <1>2, RoundedIs
<1>5. Rounded(q * 3, 6) <= q /\ Rounded(q * 3, 7) <= q /\ 2 * Rounded(q * 3, 10) <= q
  <2> DEFINE x == Rounded(q * 3, 6)
             y == Rounded(q * 3, 7)
             z == Rounded(q * 3, 10)
  <2>1. x \in Nat /\ y \in Nat /\ z \in Nat /\ q \in Nat /\ q >= 1
        /\ 12 * x <= 6 * q + 6 /\ 14 * y <= 6 * q + 7 /\ 20 * z <= 6 * q + 10
    BY <1>3
  <2> HIDE DEF x, y, z
  <2>2. x <= q /\ y <= q /\ 2 * z <= q
    BY <2>1
  <2> QED BY <2>2 DEF x, y, z
<1>6. b > 0 => Rounded(q * a, a + b + c) <= q
  <2> SUFFICES ASSUME b = 3 PROVE Rounded(q * a, a + b + c) <= q
    OBVIOUS
  <2>1. CASE a = 0
    <3>1. Rounded(q * a, a + b + c) = 0
      BY <1>1, <1>3, <2>1
    <3> QED BY <3>1
  <2>2. CASE a = 3 /\ c = 0
    <3>1. Rounded(q * a, a + b + c) = Rounded(q * 3, 6)
      BY <2>2
    <3> QED BY <1>5, <3>1
  <2>3. CASE a = 3 /\ c = 4
    <3>1. Rounded(q * a, a + b + c) = Rounded(q * 3, 10)
      BY <2>3
    <3> QED BY <1>3, <1>5, <3>1
  <2> QED BY <2>1, <2>2, <2>3
<1>7. c > 0 => Rounded(q * a, a + b + c) + Rounded(q * b, a + b + c) <= q
  <2> SUFFICES ASSUME c = 4
               PROVE  Rounded(q * a, a + b + c) + Rounded(q * b, a + b + c) <= q
    OBVIOUS
  <2>1. CASE a = 0 /\ b = 0
    <3>1. Rounded(q * a, a + b + c) = 0 /\ Rounded(q * b, a + b + c) = 0
      BY <1>1, <1>3, <2>1
    <3> QED BY <3>1
  <2>2. CASE a = 0 /\ b = 3
    <3>1. Rounded(q * a, a + b + c) = 0 /\ Rounded(q * b, a + b + c) = Rounded(q * 3, 7)
      BY <1>1, <1>3, <2>2
    <3> QED BY <1>3, <1>5, <3>1
  <2>3. CASE a = 3 /\ b = 0
    <3>1. Rounded(q * b, a + b + c) = 0 /\ Rounded(q * a, a + b + c) = Rounded(q * 3, 7)
      BY <1>1, <1>3, <2>3
    <3> QED BY <1>3, <1>5, <3>1
  <2>4. CASE a = 3 /\ b = 3
    <3>1. /\ Rounded(q * a, a + b + c) = Rounded(q * 3, 10)
          /\ Rounded(q * b, a + b + c) = Rounded(q * 3, 10)
      BY <2>4
    <3> QED BY <1>3, <1>5, <3>1
  <2> QED BY <2>1, <2>2, <2>3, <2>4
<1> QED BY <1>1, <1>4, <1>6, <1>7

LEMMA RestoredIs ==
  ASSUME NEW state, Missing(state) \subseteq Targets,
         \A p \in Missing(state) : Place(p, state.levels) \in Levels,
         seen.qty \in Nat \ {0}
  PROVE  IsOrders(Restored(state)) /\ DOMAIN Restored(state) = Missing(state)
<1> DEFINE missing == Missing(state)
           q == seen.qty
           tenths == [i \in Levels |->
                        IF \E p \in missing : Place(p, state.levels) = i
                        THEN Tenths[i] ELSE 0]
           part(i) == Rounded(q * tenths[i], Total(tenths))
           before(i) == Total([k \in Levels |-> IF k < i THEN part(k) ELSE 0])
           value(p) == IF \A k \in missing : k <= p
                       THEN q - before(Place(p, state.levels))
                       ELSE part(Place(p, state.levels))
<1>1. Restored(state) = [p \in missing |-> value(p)]
  BY DEF Restored
<1>2. /\ tenths[1] \in {0, 3} /\ tenths[2] \in {0, 3} /\ tenths[3] \in {0, 4}
      /\ Total(tenths) = tenths[1] + tenths[2] + tenths[3]
  BY ThreeLevels DEF Total, Tenths
<1>3. before(1) = 0 /\ before(2) = part(1) + 0 + 0 /\ before(3) = part(1) + part(2) + 0
  <2> HIDE DEF part
  <2>1. \A n \in {1, 2, 3} :
          before(n) = (IF 1 < n THEN part(1) ELSE 0) + (IF 2 < n THEN part(2) ELSE 0)
                        + (IF 3 < n THEN part(3) ELSE 0)
    BY ThreeLevels DEF Total
  <2> HIDE DEF before
  <2>2. before(1) = 0 + 0 + 0 /\ before(2) = part(1) + 0 + 0
        /\ before(3) = part(1) + part(2) + 0
    BY <2>1
  <2> QED BY <2>2
<1>4. ASSUME NEW p \in missing PROVE value(p) \in Nat
  <2> DEFINE i == Place(p, state.levels)
  <2>1. i = 1 \/ i = 2 \/ i = 3
    BY ThreeLevels
  <2>2. tenths[i] = Tenths[i]
    BY <2>1, ThreeLevels
  <2>3. (i = 1 => tenths[1] = 3) /\ (i = 2 => tenths[2] = 3) /\ (i = 3 => tenths[3] = 4)
    BY <2>2 DEF Tenths
  <2> HIDE DEF tenths, i
  <2>4. tenths[1] + tenths[2] + tenths[3] > 0
    BY <1>2, <2>1, <2>3
  <2>5. /\ part(1) \in Nat /\ part(2) \in Nat /\ part(3) \in Nat
        /\ i = 2 => part(1) <= q
        /\ i = 3 => part(1) + part(2) <= q
    <3>1. q \in Nat \ {0}
      OBVIOUS
    <3> HIDE DEF q
    <3> DEFINE a == tenths[1]
               b == tenths[2]
               c == tenths[3]
    <3>2. a \in {0, 3} /\ b \in {0, 3} /\ c \in {0, 4} /\ a + b + c > 0
          /\ (i = 2 => b = 3) /\ (i = 3 => c = 4) /\ Total(tenths) = a + b + c
      BY <1>2, <2>3, <2>4
    <3>3. /\ part(1) = Rounded(q * a, a + b + c) /\ part(2) = Rounded(q * b, a + b + c)
          /\ part(3) = Rounded(q * c, a + b + c)
      BY <3>2
    <3> HIDE DEF a, b, c, part
    <3>4. /\ Rounded(q * a, a + b + c) \in Nat /\ Rounded(q * b, a + b + c) \in Nat
          /\ Rounded(q * c, a + b + c) \in Nat
          /\ b > 0 => Rounded(q * a, a + b + c) <= q
          /\ c > 0 => Rounded(q * a, a + b + c) + Rounded(q * b, a + b + c) <= q
      BY <3>1, <3>2, PartsFit
    <3>5. (i = 2 => b > 0) /\ (i = 3 => c > 0)
      BY <3>2
    <3> QED BY <3>3, <3>4, <3>5
  <2> HIDE DEF part, before
  <2>6. q \in Nat
    OBVIOUS
  <2> HIDE DEF q
  <2>7. q - before(i) \in Nat /\ part(i) \in Nat
    <3>1. CASE i = 1
      BY <1>3, <2>5, <2>6, <3>1
    <3>2. CASE i = 2
      BY <1>3, <2>5, <2>6, <3>2
    <3>3. CASE i = 3
      BY <1>3, <2>5, <2>6, <3>3
    <3> QED BY <2>1, <3>1, <3>2, <3>3
  <2> QED BY <2>7 DEF i
<1> HIDE DEF value
<1> QED BY <1>1, <1>4 DEF IsOrders

LEMMA DefaultLadderIs ==
  ASSUME seen.qty \in Nat \ {0}, seen.stop \in Stops, rows \in [Targets -> Nat]
  PROVE  IsOrders(DefaultLadder) /\ \A p \in DOMAIN DefaultLadder : DefaultLadder[p] > 0
<1>1. ASSUME NEW p \in Targets PROVE ShortAt(p) \in Nat
  <2> DEFINE short == [l \in Levels |-> IF RepairPrice(seen.stop, l) = p
                                          THEN Max({0, RepairShare(l) - rows[p]}) ELSE 0]
  <2>1. \A l \in Levels : RepairShare(l) \in Nat
    <3> TAKE l \in Levels
    <3>1. Tenths[l] \in Nat
      BY PartsAre
    <3>2. seen.qty * Tenths[l] + 9 \in Nat
      BY <3>1
    <3> QED BY <3>2 DEF RepairShare
  <2>2. \A l \in Levels : Max({0, RepairShare(l) - rows[p]}) \in Nat
    <3> TAKE l \in Levels
    <3> DEFINE rest == RepairShare(l) - rows[p]
    <3>1. rest \in Int
      BY <2>1
    <3> HIDE DEF rest
    <3>2. Max({0, rest}) \in {0, rest} /\ Max({0, rest}) >= 0
      BY <3>1, GreaterOfTwo
    <3>3. Max({0, rest}) \in Nat
      BY <3>1, <3>2
    <3> QED BY <3>3 DEF rest
  <2>3. short[1] \in Nat /\ short[2] \in Nat /\ short[3] \in Nat
    BY <2>2, ThreeLevels
  <2> HIDE DEF short
  <2>4. Total(short) \in Nat
    BY <2>3 DEF Total
  <2> QED BY <2>4 DEF ShortAt, short
<1> DEFINE short == {p \in {RepairPrice(seen.stop, l) : l \in Levels} : ShortAt(p) > 0}
<1>2. DefaultLadder = [p \in short |-> ShortAt(p)]
  BY DEF DefaultLadder
<1>3. short \subseteq Targets /\ \A p \in short : ShortAt(p) > 0
  BY RepairPriceIsTarget
<1> HIDE DEF short
<1> QED BY <1>1, <1>2, <1>3 DEF IsOrders

-----------------------------------------------------------------------------
(* The invariant.                                                          *)

\* As long as nothing has been taken, the first level and every registered one rest.
WholeInv ==
  qty = Size =>
    /\ rows[LevelPrice[1]] > 0
    /\ store.known => \A p \in store.levels : rows[p] > 0

\* The snapshot and the checkpoint are older than the position: less is left of it now.
SeenInv ==
  /\ snapshot = 0 \/ qty <= snapshot
  /\ ~seen.open => seen.qty = 0
  /\ seen.open => qty <= seen.qty /\ seen.qty > 0 /\ (snapshot = 0 \/ seen.qty <= snapshot)

BeforeRepair == {"notice", "monitor", "trail", "tighten", "coordinator", "repair",
                 "repairing", "completing"}
WithPosition == {"monitor", "trail", "tighten", "repair", "repairing", "completing",
                 "pipeline", "rearm", "placing"}

\* What the place in the cycle says of the snapshot, the checkpoint and the orders.
StepInv ==
  /\ step = "idle" => ~seen.open /\ ~partial
  /\ step \in WithPosition => seen.open
  /\ step \in BeforeRepair /\ seen.open => seen.stop \in Stops
  /\ step \in {"rearm", "placing"} => partial
  /\ partial => seen.open /\ snapshot > 0
  /\ step = "notice" /\ seen.open /\ ~partial => snapshot <= seen.qty
  /\ step = "placing" => DOMAIN todo # {}
  /\ step \in {"repairing", "completing"} => \A p \in DOMAIN todo : todo[p] > 0

\* A registered level that is neither hit, taken, resting nor about to be restored is
\* known as missing: to the checkpoint, to the present cycle or as lost.
RepairInv ==
  Open /\ store.known /\ snapshot = qty /\ ~lost /\ (partial => step = "placing") =>
    \A p \in store.levels :
      \/ p \in store.hit \/ p \in taken \/ rows[p] > 0
      \/ step = "placing" /\ p \in DOMAIN todo

Inv == TypeOK /\ WholeInv /\ SeenInv /\ StepInv /\ RepairInv

-----------------------------------------------------------------------------
(* Types.                                                                  *)

ExchangeOK ==
  /\ price \in Prices /\ qty \in 0..Size /\ stop \in Stops
  /\ rows \in [Targets -> Nat] /\ taken \in SUBSET Targets

StoreOK ==
  /\ store \in [known : BOOLEAN, initial : 0..Size, levels : SUBSET Targets,
                hit : SUBSET Targets, peak : Peaks \union {0}]
  /\ store.hit \subseteq store.levels
  /\ \A p \in store.levels : Place(p, store.levels) \in Levels

Steps == {"idle", "notice", "monitor", "trail", "tighten", "coordinator",
          "repair", "repairing", "completing", "register", "pipeline", "rearm", "placing"}

CycleOK ==
  /\ seen \in [open : BOOLEAN, qty : 0..Size, stop : Stops \union {0}]
  /\ partial \in BOOLEAN /\ candidate \in Stops \union {0} /\ IsOrders(todo)

ControlOK ==
  /\ plan \in BOOLEAN /\ snapshot \in 0..Size /\ step \in Steps /\ lost \in BOOLEAN
  /\ faults \in 0..MaxFaults

LEMMA TypesAre == TypeOK <=> ExchangeOK /\ StoreOK /\ CycleOK /\ ControlOK
BY DEF TypeOK, ExchangeOK, StoreOK, CycleOK, ControlOK, Steps

LEMMA TypesNext == ExchangeOK' /\ StoreOK' /\ CycleOK' /\ ControlOK' => TypeOK'
BY DEF TypeOK, ExchangeOK, StoreOK, CycleOK, ControlOK, Steps

LEMMA Numbers ==
  ASSUME TypeOK
  PROVE  /\ qty \in Nat /\ qty <= Size /\ Size \in Nat /\ Size > 0
         /\ snapshot \in Nat /\ snapshot <= Size
         /\ stop \in Nat /\ candidate \in Nat
         /\ seen.open \in BOOLEAN /\ seen.qty \in Nat /\ seen.qty <= Size
         /\ partial \in BOOLEAN /\ lost \in BOOLEAN
         /\ rows \in [Targets -> Nat] /\ \A p \in Targets : rows[p] \in Nat
         /\ LevelPrice[1] \in Targets /\ Ladder \subseteq Targets
<1>1. ExchangeOK /\ StoreOK /\ CycleOK /\ ControlOK
  BY TypesAre
<1>2. Size \in Nat /\ Size > 0
  BY PartsAre
<1>3. stop \in Nat /\ candidate \in Nat
  BY <1>1, StopsAreNat DEF ExchangeOK, CycleOK
<1>4. seen.open \in BOOLEAN /\ seen.qty \in 0..Size
  BY <1>1 DEF CycleOK
<1>5. rows \in [Targets -> Nat] /\ qty \in 0..Size /\ snapshot \in 0..Size
  BY <1>1 DEF ExchangeOK, ControlOK
<1>6. Ladder \subseteq Targets /\ LevelPrice[1] \in Ladder
  BY LadderIs DEF Targets
<1> QED BY <1>1, <1>2, <1>3, <1>4, <1>5, <1>6 DEF CycleOK, ControlOK

LEMMA StoreFields ==
  ASSUME TypeOK
  PROVE  /\ store.known \in BOOLEAN /\ store.levels \in SUBSET Targets
         /\ store.hit \subseteq store.levels
         /\ \A p \in store.levels : Place(p, store.levels) \in Levels
         /\ store.peak \in Peaks \union {0}
         /\ store = [known |-> store.known, initial |-> store.initial,
                     levels |-> store.levels, hit |-> store.hit, peak |-> store.peak]
BY DEF TypeOK

\* Reconciling says what was hit and changes nothing else.
LEMMA ReconciledIs ==
  ASSUME TypeOK
  PROVE  \E hits \in SUBSET store.levels :
           /\ store.hit \subseteq hits
           /\ Reconciled = [known |-> store.known, initial |-> store.initial,
                            levels |-> store.levels, hit |-> hits, peak |-> store.peak]
<1> DEFINE consumed == {l \in store.levels : LevelConsumed(l)}
           hits == store.hit \union consumed
<1>1. Reconciled = [store EXCEPT !.hit = hits]
  BY DEF Reconciled
<1>2. consumed \subseteq store.levels
  OBVIOUS
<1> HIDE DEF consumed
<1>3. hits \in SUBSET store.levels /\ store.hit \subseteq hits
  BY <1>2, StoreFields
<1> HIDE DEF hits
<1>4. Reconciled = [known |-> store.known, initial |-> store.initial,
                    levels |-> store.levels, hit |-> hits, peak |-> store.peak]
  BY <1>1, StoreFields
<1> QED BY <1>3, <1>4

\* The end of a cycle forgets, and a fault is counted up to the bound.
LEMMA EndTypes == EndCycle => CycleOK' /\ step' \in Steps
<1> SUFFICES ASSUME EndCycle PROVE CycleOK' /\ step' \in Steps
  OBVIOUS
<1>1. seen' \in [open : BOOLEAN, qty : 0..Size, stop : Stops \union {0}]
  <2>1. 0 \in 0..Size
    BY PartsAre
  <2> QED BY <2>1 DEF EndCycle, NotSeen
<1>2. IsOrders(todo')
  BY DEF EndCycle, IsOrders, NoOrders
<1> QED BY <1>1, <1>2 DEF EndCycle, CycleOK, Steps

LEMMA FaultTypes ==
  ASSUME faults \in 0..MaxFaults, faults' = faults \/ Fault
  PROVE  faults' \in 0..MaxFaults
BY FaultsAssumption DEF Fault

LEMMA ContinueTypes ==
  ASSUME CycleOK, Continue
  PROVE  CycleOK' /\ step' \in Steps
<1>1. CASE EndCycle
  BY <1>1, EndTypes
<1>2. CASE step' = "rearm" /\ UNCHANGED cycle
  BY <1>2 DEF cycle, CycleOK, Steps
<1> QED BY <1>1, <1>2 DEF Continue

LEMMA EndRepairTypes ==
  ASSUME CycleOK, EndRepair
  PROVE  CycleOK' /\ step' \in Steps
<1>1. seen' \in [open : BOOLEAN, qty : 0..Size, stop : Stops \union {0}]
  BY DEF EndRepair, CycleOK
<1>2. IsOrders(todo')
  BY DEF EndRepair, IsOrders, NoOrders
<1> QED BY <1>1, <1>2 DEF EndRepair, CycleOK, Steps

\* A new state of the lifecycle.
LEMMA NewStoreTypes ==
  ASSUME TypeOK,
         \/ store' = Unregistered \/ store' = store \/ store' = Adopted \/ store' = Planned
         \/ store' = Reconciled
         \/ \E peak \in Peaks : store' = [Reconciled EXCEPT !.peak = peak]
  PROVE  StoreOK'
<1>1. 0 \in 0..Size /\ Size \in 0..Size /\ seen.qty \in 0..Size
  BY PartsAre, Numbers DEF TypeOK
<1>2. Resting \in SUBSET Targets /\ Resting \in SUBSET Nat
  BY TargetsAreNat DEF Resting
<1>3. CASE store' = Unregistered
  BY <1>1, <1>3 DEF Unregistered, StoreOK
<1>4. CASE store' = Adopted
  <2>1. Nearest(Resting) \in SUBSET Targets
    BY <1>2 DEF Nearest
  <2>2. \A p \in Nearest(Resting) : Place(p, Nearest(Resting)) \in Levels
    BY <1>2, PlaceOfNearest
  <2>3. store' = [known |-> TRUE, initial |-> seen.qty, levels |-> Nearest(Resting),
                  hit |-> {}, peak |-> 0]
    BY <1>4 DEF Adopted
  <2> QED BY <1>1, <2>1, <2>2, <2>3 DEF StoreOK
<1>5. CASE store' = Planned
  <2>1. store' = [known |-> TRUE, initial |-> Size, levels |-> Ladder, hit |-> {},
                  peak |-> 0]
    BY <1>5 DEF Planned
  <2>2. Ladder \in SUBSET Targets
    BY DEF Targets
  <2> QED BY <1>1, <2>1, <2>2, PlaceOfLadder DEF StoreOK
<1>6. CASE store' = store
  BY <1>6, TypesAre DEF StoreOK
<1>7. PICK hits \in SUBSET store.levels :
        Reconciled = [known |-> store.known, initial |-> store.initial,
                      levels |-> store.levels, hit |-> hits, peak |-> store.peak]
  BY ReconciledIs
<1>8. ASSUME NEW peak \in Peaks \union {0},
             store' = [known |-> store.known, initial |-> store.initial,
                       levels |-> store.levels, hit |-> hits, peak |-> peak]
      PROVE  StoreOK'
  <2>1. store.initial \in 0..Size
    BY DEF TypeOK
  <2> QED BY <1>8, <2>1, StoreFields DEF StoreOK
<1>9. CASE store' = Reconciled
  BY <1>7, <1>8, <1>9, StoreFields
<1>10. ASSUME NEW peak \in Peaks, store' = [Reconciled EXCEPT !.peak = peak]
       PROVE  StoreOK'
  BY <1>7, <1>8, <1>10
<1> QED BY <1>3, <1>4, <1>5, <1>6, <1>9, <1>10

\* Orders that arrive add to what rests.
LEMMA ArriveIs ==
  ASSUME TypeOK, NEW orders, IsOrders(orders), Arrive(orders)
  PROVE  /\ ExchangeOK'
         /\ UNCHANGED <<price, qty, stop, plan, store, snapshot>>
         /\ \A p \in Targets : rows'[p] >= rows[p]
         /\ \A p \in DOMAIN orders : orders[p] > 0 => rows'[p] > 0
         /\ taken' = taken \ DOMAIN orders
<1>1. UNCHANGED <<price, qty, stop, plan, store, snapshot>> /\ taken' = taken \ DOMAIN orders
  BY DEF Arrive
<1>2. rows' = [p \in Targets |-> rows[p] + (IF p \in DOMAIN orders THEN orders[p] ELSE 0)]
  BY DEF Arrive
<1>3. ASSUME NEW p \in Targets
      PROVE  /\ rows'[p] \in Nat /\ rows'[p] >= rows[p]
             /\ p \in DOMAIN orders /\ orders[p] > 0 => rows'[p] > 0
  <2>1. rows[p] \in Nat /\ (p \in DOMAIN orders => orders[p] \in Nat)
    BY Numbers DEF IsOrders
  <2>2. rows'[p] = rows[p] + (IF p \in DOMAIN orders THEN orders[p] ELSE 0)
    BY <1>2
  <2> QED BY <2>1, <2>2
<1>4. rows' \in [Targets -> Nat]
  BY <1>2, <1>3
<1>5. ExchangeOK'
  BY <1>1, <1>4, TypesAre DEF ExchangeOK
<1>6. DOMAIN orders \subseteq Targets
  BY DEF IsOrders
<1> QED BY <1>1, <1>3, <1>5, <1>6

LEMMA RestrictedOrders ==
  ASSUME NEW f, IsOrders(f), NEW S
  PROVE  IsOrders(Restrict(f, DOMAIN f \ S)) /\ \A p \in DOMAIN f \ S : Restrict(f, DOMAIN f \ S)[p] = f[p]
BY DEF IsOrders, Restrict

\* The market and the exchange.
LEMMA OutsideTypes ==
  ASSUME TypeOK, Outside
  PROVE  TypeOK'
<1> USE DEF inside, exchange, cycle
<1>1. ExchangeOK /\ StoreOK /\ CycleOK /\ ControlOK
  BY TypesAre
<1>2. UNCHANGED inside
  BY DEF Outside, StopOut, Move, TightenByHand, Trigger, Close
<1>3. StoreOK' /\ CycleOK' /\ ControlOK'
  BY <1>1, <1>2 DEF StoreOK, CycleOK, ControlOK
<1>4. NothingRests \in [Targets -> Nat] /\ 0 \in 0..Size
  BY PartsAre DEF NothingRests
<1>5. ASSUME NEW p \in Prices, Move(p) PROVE ExchangeOK'
  BY <1>1, <1>5 DEF Move, ExchangeOK
<1>6. ASSUME NEW p \in Prices, TightenByHand(Trail(p)) PROVE ExchangeOK'
  <2>1. Trail(p) \in Stops
    BY DEF Stops, Peaks
  <2> QED BY <1>1, <1>6, <2>1 DEF TightenByHand, ExchangeOK
<1>7. ASSUME Close PROVE ExchangeOK'
  BY <1>1, <1>4, <1>7 DEF Close, ExchangeOK
<1>8. ASSUME NEW l \in Targets, NEW detach \in BOOLEAN, Trigger(l, detach) PROVE ExchangeOK'
  <2>1. CASE rows[l] >= qty
    BY <1>7, <1>8, <2>1 DEF Trigger
  <2>2. CASE ~(rows[l] >= qty)
    <3>1. /\ qty' = qty - rows[l] /\ taken' = taken \union {l}
          /\ rows' = NothingRests \/ rows' = [rows EXCEPT ![l] = 0]
          /\ UNCHANGED <<price, stop>>
      BY <1>8, <2>2 DEF Trigger
    <3>2. rows[l] \in Nat /\ qty \in Nat /\ qty <= Size /\ Size \in Nat
      BY Numbers
    <3>3. qty' \in 0..Size
      BY <2>2, <3>1, <3>2
    <3>4. rows' \in [Targets -> Nat]
      BY <1>1, <1>4, <3>1 DEF ExchangeOK
    <3> QED BY <1>1, <3>1, <3>3, <3>4 DEF ExchangeOK
  <2> QED BY <2>1, <2>2
<1> QED BY <1>3, <1>5, <1>6, <1>7, <1>8, TypesNext DEF Outside, StopOut

\* The steps that only report, register and trail.
LEMMA ReportTypes ==
  ASSUME TypeOK,
         \/ \E ok \in BOOLEAN : ReadPosition(ok)
         \/ \E written \in BOOLEAN : Notice(written)
         \/ RegisterFirst \/ RegisterFirstFails
         \/ \E high \in Prices : Monitor(high)
         \/ MonitorSkips \/ TightenStop \/ TightenRefused
  PROVE  TypeOK'
<1> USE DEF exchange, cycle
<1>1. ExchangeOK /\ StoreOK /\ CycleOK /\ ControlOK
  BY TypesAre
<1>2. seen.qty \in 0..Size
  BY <1>1 DEF CycleOK
<1>3. ASSUME NEW ok \in BOOLEAN, ReadPosition(ok) PROVE TypeOK'
  <2>1. 0 \in 0..Size
    BY PartsAre
  <2>2. /\ seen' \in [open : BOOLEAN, qty : 0..Size, stop : Stops \union {0}]
        /\ partial' \in BOOLEAN
    BY <1>1, <1>3, <2>1 DEF ReadPosition, NotSeen, ExchangeOK
  <2>3. faults' \in 0..MaxFaults
    BY <1>1, <1>3, FaultTypes DEF ReadPosition, ControlOK
  <2>4. CycleOK'
    BY <1>1, <1>3, <2>2 DEF ReadPosition, CycleOK
  <2>5. ExchangeOK' /\ StoreOK' /\ ControlOK'
    BY <1>1, <1>3, <2>3 DEF ReadPosition, ExchangeOK, StoreOK, ControlOK, Steps
  <2> QED BY <2>4, <2>5, TypesNext
<1>4. ASSUME NEW written \in BOOLEAN, Notice(written) PROVE TypeOK'
  <2>1. ExchangeOK' /\ StoreOK' /\ CycleOK'
    BY <1>1, <1>4 DEF Notice, ExchangeOK, StoreOK, CycleOK
  <2>2. lost' \in BOOLEAN
    BY <1>1, <1>4 DEF Notice, ControlOK
  <2>3. ControlOK'
    BY <1>1, <1>2, <1>4, <2>2 DEF Notice, ControlOK, Steps
  <2> QED BY <2>1, <2>3, TypesNext
<1>5. CASE RegisterFirst \/ RegisterFirstFails
  <2>1. StoreOK'
    BY <1>5, NewStoreTypes DEF RegisterFirst, RegisterFirstFails, RegisterExisting
  <2>2. ExchangeOK' /\ CycleOK'
    BY <1>1, <1>5 DEF RegisterFirst, RegisterFirstFails, ExchangeOK, CycleOK
  <2>3. faults' \in 0..MaxFaults
    BY <1>1, <1>5, FaultTypes DEF RegisterFirst, RegisterFirstFails, ControlOK
  <2>4. ControlOK'
    BY <1>1, <1>5, <2>3 DEF RegisterFirst, RegisterFirstFails, ControlOK, Steps
  <2> QED BY <2>1, <2>2, <2>4, TypesNext
<1>6. ASSUME NEW high \in Prices, Monitor(high) PROVE TypeOK'
  <2> DEFINE old == IF store.peak > 0 THEN store.peak ELSE Entry
             peak == Max({old, high})
  <2>1. old \in Peaks /\ high \in Peaks
    <3>1. store.peak \in Peaks \union {0}
      BY StoreFields
    <3> QED BY <3>1 DEF Peaks
  <2> HIDE DEF old
  <2>2. peak \in Peaks
    <3>1. old \in Int /\ high \in Int
      BY <2>1, StopsAreNat
    <3>2. Max({old, high}) \in {old, high}
      BY <3>1, GreaterOfTwo
    <3> QED BY <2>1, <3>2
  <2> HIDE DEF peak
  <2>3. store' = [Reconciled EXCEPT !.peak = peak]
    BY <1>6 DEF Monitor, old, peak
  <2>4. StoreOK'
    BY <2>2, <2>3, NewStoreTypes
  <2>5. candidate' = Trail(peak) \/ candidate' = 0
    BY <1>6 DEF Monitor, old, peak
  <2>6. candidate' \in Stops \union {0}
    BY <2>2, <2>5 DEF Stops
  <2>7. ExchangeOK' /\ CycleOK'
    BY <1>1, <1>6, <2>6 DEF Monitor, ExchangeOK, CycleOK
  <2>8. step' \in {"tighten", "coordinator"} /\ UNCHANGED <<plan, snapshot, lost, faults>>
    BY <1>6 DEF Monitor
  <2>9. ControlOK'
    BY <1>1, <2>8 DEF ControlOK, Steps
  <2> QED BY <2>4, <2>7, <2>9, TypesNext
<1>7. CASE MonitorSkips
  <2>1. faults' \in 0..MaxFaults
    BY <1>1, <1>7, FaultTypes DEF MonitorSkips, ControlOK
  <2> QED
    BY <1>1, <1>7, <2>1, TypesNext
    DEF MonitorSkips, ExchangeOK, StoreOK, CycleOK, ControlOK, Steps
<1>8. CASE TightenStop
  <2>1. candidate \in Stops
    <3>1. stop \in Nat /\ candidate > stop /\ candidate \in Stops \union {0}
      BY <1>1, <1>8, Numbers DEF TightenStop, CycleOK
    <3> QED BY <3>1
  <2>2. ExchangeOK' /\ StoreOK' /\ CycleOK'
    BY <1>1, <1>8, <2>1 DEF TightenStop, ExchangeOK, StoreOK, CycleOK
  <2>3. ControlOK'
    BY <1>1, <1>8 DEF TightenStop, ControlOK, Steps
  <2> QED BY <2>2, <2>3, TypesNext
<1>9. CASE TightenRefused
  <2>1. ExchangeOK' /\ StoreOK' /\ CycleOK'
    BY <1>1, <1>9 DEF TightenRefused, ExchangeOK, StoreOK, CycleOK
  <2>2. ControlOK'
    BY <1>1, <1>9 DEF TightenRefused, ControlOK, Steps
  <2> QED BY <2>1, <2>2, TypesNext
<1> QED BY <1>3, <1>4, <1>5, <1>6, <1>7, <1>8, <1>9

\* The coordinator, the repair and the agents.
LEMMA CoordinatorTypes ==
  ASSUME TypeOK,
         \/ PlacePlan \/ BuildCoordinator \/ BuildFails
         \/ RegisterAgain \/ RegisterAgainFails \/ Exit \/ NoExit
  PROVE  TypeOK'
<1> USE DEF exchange
<1>1. ExchangeOK /\ StoreOK /\ CycleOK /\ ControlOK
  BY TypesAre
<1>2. CASE PlacePlan
  <2>1. StoreOK'
    BY <1>2, NewStoreTypes DEF PlacePlan
  <2>2. \A p \in Targets : rows[p] \in Nat /\ (p \in Queued => PartAt(p) \in Nat)
    BY Numbers, LadderIs
  <2>3. rows' \in [Targets -> Nat]
    BY <1>2, <2>2 DEF PlacePlan
  <2>4. ExchangeOK' /\ CycleOK'
    BY <1>1, <1>2, <2>3 DEF PlacePlan, ExchangeOK, cycle, CycleOK
  <2>5. lost' \in BOOLEAN /\ plan' = FALSE /\ step' = "repair" /\ UNCHANGED <<snapshot, faults>>
    BY <1>1, <1>2 DEF PlacePlan, ControlOK
  <2>6. ControlOK'
    BY <1>1, <2>5 DEF ControlOK, Steps
  <2> QED BY <2>1, <2>4, <2>6, TypesNext
<1>3. CASE BuildCoordinator
  BY <1>1, <1>3, TypesNext
  DEF BuildCoordinator, ExchangeOK, StoreOK, cycle, CycleOK, ControlOK, Steps
<1>4. CASE BuildFails
  <2>1. faults' \in 0..MaxFaults
    BY <1>1, <1>4, FaultTypes DEF BuildFails, ControlOK
  <2>2. CycleOK' /\ step' \in Steps
    BY <1>4, EndTypes DEF BuildFails
  <2>3. lost' \in BOOLEAN
    BY <1>1, <1>4, Numbers DEF BuildFails, ControlOK
  <2>4. ExchangeOK' /\ StoreOK' /\ ControlOK'
    BY <1>1, <1>4, <2>1, <2>2, <2>3 DEF BuildFails, ExchangeOK, StoreOK, ControlOK
  <2> QED BY <2>2, <2>4, TypesNext
<1>5. CASE RegisterAgain
  <2>1. StoreOK'
    BY <1>5, NewStoreTypes DEF RegisterAgain, RegisterExisting
  <2>2. CycleOK' /\ step' \in Steps
    <3>1. CASE EndCycle
      BY <3>1, EndTypes
    <3>2. CASE step' = "pipeline" /\ UNCHANGED cycle
      BY <1>1, <3>2 DEF cycle, CycleOK, Steps
    <3> QED BY <1>5, <3>1, <3>2 DEF RegisterAgain
  <2>3. ExchangeOK' /\ ControlOK'
    BY <1>1, <1>5, <2>2 DEF RegisterAgain, ExchangeOK, ControlOK
  <2> QED BY <2>1, <2>2, <2>3, TypesNext
<1>6. CASE RegisterAgainFails \/ NoExit
  <2>1. CycleOK' /\ step' \in Steps
    BY <1>1, <1>6, ContinueTypes DEF RegisterAgainFails, NoExit
  <2>2. ExchangeOK' /\ StoreOK' /\ ControlOK'
    BY <1>1, <1>6, <2>1 DEF RegisterAgainFails, NoExit, ExchangeOK, StoreOK, ControlOK
  <2> QED BY <2>1, <2>2, TypesNext
<1>7. CASE Exit
  <2>1. CycleOK' /\ step' \in Steps
    BY <1>1, <1>7, ContinueTypes DEF Exit
  <2>2. 0 \in 0..Size /\ NothingRests \in [Targets -> Nat]
    BY PartsAre DEF NothingRests
  <2>3. ExchangeOK' /\ StoreOK' /\ ControlOK'
    BY <1>1, <1>7, <2>1, <2>2 DEF Exit, ExchangeOK, StoreOK, ControlOK
  <2> QED BY <2>1, <2>3, TypesNext
<1> QED BY <1>2, <1>3, <1>4, <1>5, <1>6, <1>7

\* What the cycle knows of the position when it repairs and when it re-arms.
LEMMA CycleFacts ==
  ASSUME Inv
  PROVE  /\ step \in WithPosition => seen.qty \in Nat \ {0}
         /\ step \in {"repair", "repairing", "completing"} =>
              seen.stop \in Stops /\ RepairPrice(seen.stop, 1) \in Targets
<1>1. step \in WithPosition => seen.qty \in Nat \ {0}
  BY Numbers DEF Inv, StepInv, SeenInv
<1>2. step \in {"repair", "repairing", "completing"} => seen.stop \in Stops
  BY DEF Inv, StepInv, WithPosition, BeforeRepair
<1> QED BY <1>1, <1>2, RepairPriceIsTarget, ThreeLevels

\* The orders that are sent are well formed, and those of the repair are not empty.
LEMMA RepairOrders ==
  ASSUME Inv
  PROVE  /\ StartRepair => /\ IsOrders(DefaultLadder)
                           /\ \A p \in DOMAIN DefaultLadder : DefaultLadder[p] > 0
         /\ PlaceFallback =>
              IsOrders([p \in {RepairPrice(seen.stop, 1)} |-> seen.qty]) /\ seen.qty > 0
         /\ \A placed \in SUBSET Targets : PlaceRepairs(placed) =>
              /\ IsOrders(Restrict(todo, placed)) /\ DOMAIN Restrict(todo, placed) = placed
              /\ \A p \in placed : Restrict(todo, placed)[p] > 0
<1>1. TypeOK /\ IsOrders(todo)
  BY DEF Inv, TypeOK
<1>2. ASSUME StartRepair
      PROVE  IsOrders(DefaultLadder) /\ \A p \in DOMAIN DefaultLadder : DefaultLadder[p] > 0
  <2>1. step = "repair"
    BY <1>2 DEF StartRepair
  <2>2. seen.qty \in Nat \ {0} /\ seen.stop \in Stops
    BY <2>1, CycleFacts DEF WithPosition
  <2> QED BY <1>1, <2>2, Numbers, DefaultLadderIs
<1>3. ASSUME PlaceFallback
      PROVE  IsOrders([p \in {RepairPrice(seen.stop, 1)} |-> seen.qty]) /\ seen.qty > 0
  <2>1. step = "repairing"
    BY <1>3 DEF PlaceFallback
  <2>2. seen.qty \in Nat \ {0} /\ RepairPrice(seen.stop, 1) \in Targets
    BY <2>1, CycleFacts DEF WithPosition
  <2> QED BY <2>2 DEF IsOrders
<1>4. ASSUME NEW placed \in SUBSET Targets, PlaceRepairs(placed)
      PROVE  /\ IsOrders(Restrict(todo, placed)) /\ DOMAIN Restrict(todo, placed) = placed
             /\ \A p \in placed : Restrict(todo, placed)[p] > 0
  <2>1. step \in {"repairing", "completing"} /\ placed \subseteq DOMAIN todo
    BY <1>4 DEF PlaceRepairs
  <2>2. \A p \in DOMAIN todo : todo[p] > 0
    BY <2>1 DEF Inv, StepInv
  <2>3. Restrict(todo, placed) = [p \in placed |-> todo[p]]
    BY DEF Restrict
  <2> QED BY <1>1, <2>1, <2>2, <2>3 DEF IsOrders
<1> QED BY <1>2, <1>3, <1>4

LEMMA RepairTypes ==
  ASSUME Inv,
         \/ SkipRepair \/ StartRepair \/ PlaceFallback
         \/ \E placed \in SUBSET Targets : PlaceRepairs(placed)
  PROVE  TypeOK'
<1>1. TypeOK /\ ExchangeOK /\ StoreOK /\ CycleOK /\ ControlOK
  BY TypesAre DEF Inv
<1>2. CASE SkipRepair
  <2>1. CycleOK' /\ step' \in Steps
    BY <1>1, <1>2, EndRepairTypes DEF SkipRepair
  <2>2. ExchangeOK' /\ StoreOK' /\ ControlOK'
    BY <1>1, <1>2, <2>1 DEF SkipRepair, exchange, ExchangeOK, StoreOK, ControlOK
  <2> QED BY <2>1, <2>2, TypesNext
<1>3. CASE StartRepair
  <2>1. IsOrders(todo')
    BY <1>3, RepairOrders DEF StartRepair
  <2>2. faults' \in 0..MaxFaults
    BY <1>1, <1>3, FaultTypes DEF StartRepair, ControlOK
  <2>3. CycleOK' /\ step' \in Steps
    BY <1>1, <1>3, <2>1 DEF StartRepair, CycleOK, Steps
  <2>4. ExchangeOK' /\ StoreOK' /\ ControlOK'
    BY <1>1, <1>3, <2>2, <2>3 DEF StartRepair, exchange, ExchangeOK, StoreOK, ControlOK
  <2> QED BY <2>3, <2>4, TypesNext
<1>4. ASSUME NEW orders, IsOrders(orders), Arrive(orders), EndRepair,
             UNCHANGED <<lost, faults>>
      PROVE  TypeOK'
  <2>1. ExchangeOK' /\ UNCHANGED <<plan, store, snapshot>>
    BY <1>1, <1>4, ArriveIs
  <2>2. CycleOK' /\ step' \in Steps
    BY <1>1, <1>4, EndRepairTypes
  <2>3. StoreOK' /\ ControlOK'
    BY <1>1, <1>4, <2>1, <2>2 DEF StoreOK, ControlOK
  <2> QED BY <2>1, <2>2, <2>3, TypesNext
<1>5. CASE PlaceFallback
  BY <1>4, <1>5, RepairOrders DEF PlaceFallback
<1>6. ASSUME NEW placed \in SUBSET Targets, PlaceRepairs(placed) PROVE TypeOK'
  BY <1>4, <1>6, RepairOrders DEF PlaceRepairs
<1> QED BY <1>2, <1>3, <1>5, <1>6

\* The order that is placed next is one of those that are left.
LEMMA NextOrderIs ==
  ASSUME Inv, step = "placing"
  PROVE  NextOrder \in DOMAIN todo /\ NextOrder \in Targets /\ todo[NextOrder] \in Nat
<1>1. DOMAIN todo # {} /\ IsOrders(todo)
  BY DEF Inv, StepInv, TypeOK
<1>2. DOMAIN todo \in SUBSET Nat
  BY <1>1, TargetsAreNat DEF IsOrders
<1>3. NextOrder \in DOMAIN todo
  BY <1>1, <1>2, LeastOf DEF NextOrder
<1> QED BY <1>1, <1>3 DEF IsOrders

LEMMA RestoredOrders ==
  ASSUME Inv, StartRearm
  PROVE  /\ IsOrders(Restored(Reconciled))
         /\ DOMAIN Restored(Reconciled) = Missing(Reconciled)
         /\ Missing(Reconciled) \subseteq store.levels
<1>1. TypeOK /\ step = "rearm"
  BY DEF Inv, StartRearm
<1>2. PICK hits \in SUBSET store.levels :
        Reconciled = [known |-> store.known, initial |-> store.initial,
                      levels |-> store.levels, hit |-> hits, peak |-> store.peak]
  BY <1>1, ReconciledIs
<1>3. Reconciled.levels = store.levels
  BY <1>2
<1>4. Missing(Reconciled) \subseteq store.levels
  BY <1>3 DEF Missing
<1>5. seen.qty \in Nat \ {0}
  BY <1>1, CycleFacts DEF WithPosition
<1>6. /\ Missing(Reconciled) \subseteq Targets
      /\ \A p \in Missing(Reconciled) : Place(p, Reconciled.levels) \in Levels
  BY <1>1, <1>3, <1>4, StoreFields
<1> QED BY <1>4, <1>5, <1>6, RestoredIs

LEMMA RearmTypes ==
  ASSUME Inv, StartRearm \/ RearmFails \/ RestoreLevel \/ RestoreRejected \/ Crash
  PROVE  TypeOK'
<1>1. TypeOK /\ ExchangeOK /\ StoreOK /\ CycleOK /\ ControlOK
  BY TypesAre DEF Inv
<1>2. CASE StartRearm
  <2>1. StoreOK'
    BY <1>1, <1>2, NewStoreTypes DEF StartRearm
  <2>2. IsOrders(Restored(Reconciled))
    BY <1>2, RestoredOrders
  <2>3. CycleOK' /\ step' \in Steps
    <3>1. CASE EndCycle
      BY <3>1, EndTypes
    <3>2. CASE /\ todo' = Restored(Reconciled) /\ step' = "placing"
               /\ UNCHANGED <<seen, partial, candidate>>
      BY <1>1, <2>2, <3>2 DEF CycleOK, Steps
    <3> QED BY <1>2, <3>1, <3>2 DEF StartRearm
  <2>4. ExchangeOK' /\ ControlOK'
    BY <1>1, <1>2, <2>3 DEF StartRearm, exchange, ExchangeOK, ControlOK
  <2> QED BY <2>1, <2>3, <2>4, TypesNext
<1>3. CASE RearmFails \/ RestoreRejected \/ Crash
  <2>1. CycleOK' /\ step' \in Steps
    BY <1>3, EndTypes DEF RearmFails, RestoreRejected, Crash
  <2>2. faults' \in 0..MaxFaults
    BY <1>1, <1>3, FaultTypes DEF RearmFails, RestoreRejected, Crash, ControlOK
  <2>3. lost' \in BOOLEAN
    BY <1>1, <1>3, Numbers DEF RearmFails, RestoreRejected, Crash
  <2>4. UNCHANGED <<price, exchange, plan, store, snapshot>>
    BY <1>3 DEF RearmFails, RestoreRejected, Crash
  <2>5. ExchangeOK' /\ StoreOK' /\ ControlOK'
    BY <1>1, <2>1, <2>2, <2>3, <2>4 DEF exchange, ExchangeOK, StoreOK, ControlOK
  <2> QED BY <2>1, <2>5, TypesNext
<1>4. CASE RestoreLevel
  <2>1. NextOrder \in Targets /\ todo[NextOrder] \in Nat
    BY <1>4, NextOrderIs DEF RestoreLevel
  <2> DEFINE orders == [p \in {NextOrder} |-> todo[p]]
  <2>2. IsOrders(orders)
    BY <2>1 DEF IsOrders
  <2>3. ExchangeOK' /\ UNCHANGED <<plan, store, snapshot>>
    BY <1>1, <1>4, <2>2, ArriveIs DEF RestoreLevel
  <2>4. CycleOK' /\ step' \in Steps
    <3>1. CASE EndCycle
      BY <3>1, EndTypes
    <3>2. CASE /\ todo' = Restrict(todo, DOMAIN todo \ {NextOrder})
               /\ UNCHANGED <<step, seen, partial, candidate>>
      <4>1. IsOrders(todo')
        BY <1>1, <3>2, RestrictedOrders DEF CycleOK
      <4> QED BY <1>1, <3>2, <4>1 DEF CycleOK, ControlOK
    <3> QED BY <1>4, <3>1, <3>2 DEF RestoreLevel
  <2>5. UNCHANGED <<lost, faults>>
    BY <1>4 DEF RestoreLevel
  <2>6. StoreOK' /\ ControlOK'
    BY <1>1, <2>3, <2>4, <2>5 DEF StoreOK, ControlOK
  <2> QED BY <2>3, <2>4, <2>6, TypesNext
<1> QED BY <1>2, <1>3, <1>4

LEMMA NextTypes == Inv /\ [Next]_vars => TypeOK'
<1> SUFFICES ASSUME Inv, [Next]_vars PROVE TypeOK'
  OBVIOUS
<1>1. CASE UNCHANGED vars
  BY <1>1 DEF Inv, vars, exchange, cycle, TypeOK
<1> QED
  BY <1>1, OutsideTypes, ReportTypes, CoordinatorTypes, RepairTypes, RearmTypes
  DEF Inv, Next, Runtime

-----------------------------------------------------------------------------
(* Kinds of steps.                                                         *)

\* Nothing is traded, and a cycle that stops looking after a partial close leaves a
\* trace of it.
Quiet ==
  /\ UNCHANGED <<qty, rows, taken, snapshot>>
  /\ store'.known = store.known /\ store'.levels = store.levels
  /\ store.hit \subseteq store'.hit
  /\ (lost => lost') /\ step' # "placing"
  /\ (partial => partial' \/ lost' \/ snapshot # seen.qty)

LEMMA QuietKeeps ==
  ASSUME Inv, Quiet
  PROVE  WholeInv' /\ RepairInv'
<1>1. UNCHANGED <<qty, rows, taken, snapshot>> /\ (lost => lost') /\ step' # "placing"
  BY DEF Quiet
<1>2. /\ store'.known = store.known /\ store'.levels = store.levels
      /\ store.hit \subseteq store'.hit
  BY DEF Quiet
<1>3. WholeInv'
  BY <1>1, <1>2 DEF Inv, WholeInv
<1>4. RepairInv'
  <2> SUFFICES ASSUME Open', store'.known, snapshot' = qty', ~lost',
                      partial' => step' = "placing", NEW p \in store'.levels
               PROVE  p \in store'.hit \/ p \in taken' \/ rows'[p] > 0
    BY DEF RepairInv
  <2>1. Open /\ store.known /\ snapshot = qty /\ ~lost /\ ~partial' /\ p \in store.levels
    BY <1>1, <1>2 DEF Open
  <2>2. ~partial
    <3> SUFFICES ASSUME partial PROVE FALSE
      OBVIOUS
    <3>1. snapshot # seen.qty
      BY <2>1 DEF Quiet
    <3>2. seen.open /\ snapshot > 0
      BY DEF Inv, StepInv
    <3>3. qty <= seen.qty /\ seen.qty <= snapshot
      BY <3>2, Numbers DEF Inv, SeenInv
    <3> QED BY <2>1, <3>1, <3>3, Numbers DEF Inv
  <2>3. step # "placing"
    BY <2>2 DEF Inv, StepInv
  <2>4. p \in store.hit \/ p \in taken \/ rows[p] > 0
    BY <2>1, <2>2, <2>3 DEF Inv, RepairInv
  <2> QED BY <1>1, <1>2, <2>4
<1> QED BY <1>3, <1>4

\* Less is left of the position.
LEMMA ShrinkKeeps ==
  ASSUME Inv, qty' = 0 \/ (qty' \in Nat /\ qty' < qty), snapshot' = snapshot
  PROVE  WholeInv' /\ RepairInv'
<1>1. qty' # Size
  BY Numbers DEF Inv
<1>2. ~(qty' > 0 /\ snapshot' = qty')
  <2>1. snapshot = 0 \/ qty <= snapshot
    BY DEF Inv, SeenInv
  <2> QED BY <2>1, Numbers DEF Inv
<1> QED BY <1>1, <1>2 DEF WholeInv, RepairInv, Open

\* The snapshot of the cycle stays or is forgotten.
LEMMA SeenKept ==
  ASSUME Inv, qty' \in Nat, qty' <= qty, snapshot' = snapshot,
         seen' = NotSeen \/ (seen'.open = seen.open /\ seen'.qty = seen.qty)
  PROVE  SeenInv'
<1>1. snapshot = 0 \/ qty' <= snapshot
  BY Numbers DEF Inv, SeenInv
<1>2. CASE seen' = NotSeen
  <2>1. ~seen'.open /\ seen'.qty = 0
    BY <1>2 DEF NotSeen
  <2> QED BY <1>1, <2>1 DEF SeenInv
<1>3. CASE seen'.open = seen.open /\ seen'.qty = seen.qty
  <2>1. seen.open => qty' <= seen.qty
    BY Numbers DEF Inv, SeenInv
  <2> QED BY <1>1, <1>3, <2>1 DEF Inv, SeenInv
<1> QED BY <1>2, <1>3

\* Orders that arrive, with what is left of those to be placed.
LEMMA ArrivedKeeps ==
  ASSUME Inv, NEW orders, IsOrders(orders), Arrive(orders),
         \A p \in DOMAIN orders : orders[p] > 0,
         lost' = lost,
         step # "placing" => step' # "placing" /\ partial' = partial,
         step = "placing" => \A p \in DOMAIN todo :
                               p \in DOMAIN orders \/ (step' = "placing" /\ p \in DOMAIN todo')
  PROVE  WholeInv' /\ RepairInv'
<1>1. /\ UNCHANGED <<qty, store, snapshot>>
      /\ \A p \in Targets : rows'[p] >= rows[p] /\ rows[p] \in Nat
      /\ \A p \in DOMAIN orders : rows'[p] > 0
      /\ taken' = taken \ DOMAIN orders
  BY ArriveIs, Numbers DEF Inv
<1>2. rows'[LevelPrice[1]] \in Nat /\ \A p \in Targets : rows'[p] \in Nat
  BY ArriveIs, Numbers DEF Inv, ExchangeOK
<1>3. \A p \in Targets : rows[p] > 0 => rows'[p] > 0
  BY <1>1, <1>2
<1>4. store.levels \subseteq Targets /\ LevelPrice[1] \in Targets
  BY Numbers, StoreFields DEF Inv
<1>5. WholeInv'
  BY <1>1, <1>3, <1>4 DEF Inv, WholeInv
<1>6. RepairInv'
  <2> SUFFICES ASSUME Open', store'.known, snapshot' = qty', ~lost',
                      partial' => step' = "placing", NEW p \in store'.levels
               PROVE  \/ p \in store'.hit \/ p \in taken' \/ rows'[p] > 0
                      \/ step' = "placing" /\ p \in DOMAIN todo'
    BY DEF RepairInv
  <2>1. Open /\ store.known /\ snapshot = qty /\ ~lost /\ p \in store.levels
    BY <1>1 DEF Open
  <2>2. partial => step = "placing"
    OBVIOUS
  <2>3. \/ p \in store.hit \/ p \in taken \/ rows[p] > 0
        \/ step = "placing" /\ p \in DOMAIN todo
    BY <2>1, <2>2 DEF Inv, RepairInv
  <2> QED BY <1>1, <1>3, <1>4, <2>1, <2>3
<1> QED BY <1>5, <1>6

\* Places of the cycle.
LEMMA EndSteps == EndCycle => StepInv' /\ seen' = NotSeen /\ step' # "placing" /\ ~partial'
BY DEF EndCycle, StepInv, NotSeen, NoOrders, WithPosition, BeforeRepair

LEMMA ContinueSteps ==
  ASSUME Inv, Continue, snapshot' = snapshot
  PROVE  /\ StepInv' /\ step' # "placing"
         /\ seen' = NotSeen \/ seen' = seen
         /\ partial' = partial
<1>1. CASE partial
  <2>1. step' = "rearm" /\ UNCHANGED <<seen, partial, todo>>
    BY <1>1 DEF Continue, cycle
  <2>2. seen.open /\ snapshot > 0
    BY <1>1 DEF Inv, StepInv
  <2>3. StepInv'
    BY <1>1, <2>1, <2>2 DEF StepInv, WithPosition, BeforeRepair
  <2> QED BY <2>1, <2>3
<1>2. CASE ~partial
  <2>1. EndCycle
    BY <1>2 DEF Continue
  <2>2. partial' = partial
    BY <1>2, <2>1, Numbers DEF EndCycle, Inv
  <2> QED BY <2>1, <2>2, EndSteps
<1> QED BY <1>1, <1>2

LEMMA EndRepairSteps ==
  ASSUME Inv, EndRepair, snapshot' = snapshot
  PROVE  /\ StepInv' /\ step' # "placing" /\ partial' = partial
         /\ seen'.open = seen.open /\ seen'.qty = seen.qty
<1>1. seen'.open = seen.open /\ seen'.qty = seen.qty
  BY DEF EndRepair, Inv, TypeOK
<1>2. step' = "register" /\ partial' = partial
  BY DEF EndRepair
<1>3. partial => seen.open /\ snapshot > 0
  BY DEF Inv, StepInv
<1> QED BY <1>1, <1>2, <1>3 DEF StepInv, WithPosition, BeforeRepair

-----------------------------------------------------------------------------
(* The invariant is kept: outside the process.                             *)

\* What the invariant says beyond the types.
Coherent == WholeInv /\ SeenInv /\ StepInv /\ RepairInv

\* The cycle stays where it is.
LEMMA StepStays ==
  ASSUME Inv, UNCHANGED <<snapshot, step, seen, partial, todo>>
  PROVE  StepInv'
BY DEF Inv, StepInv

LEMMA CloseKeeps ==
  ASSUME Inv, Close
  PROVE  Coherent'
<1>1. qty' = 0 /\ UNCHANGED <<snapshot, step, seen, partial, todo>>
  BY DEF Close, inside, cycle
<1>2. 0 <= qty /\ 0 \in Nat
  BY Numbers DEF Inv
<1> QED BY <1>1, <1>2, ShrinkKeeps, SeenKept, StepStays DEF Coherent

LEMMA TriggerKeeps ==
  ASSUME Inv, NEW p \in Targets, NEW detach \in BOOLEAN, Trigger(p, detach)
  PROVE  Coherent'
<1>1. CASE Close
  BY <1>1, CloseKeeps
<1>2. CASE /\ rows[p] < qty /\ qty' = qty - rows[p]
           /\ UNCHANGED inside
  <2>1. rows[p] \in Nat /\ rows[p] > 0 /\ qty \in Nat
    BY Numbers DEF Inv, Trigger
  <2>2. qty' \in Nat /\ qty' < qty /\ qty' <= qty
    BY <1>2, <2>1
  <2>3. UNCHANGED <<snapshot, step, seen, partial, todo>>
    BY <1>2 DEF inside, cycle
  <2> QED BY <2>2, <2>3, ShrinkKeeps, SeenKept, StepStays DEF Coherent
<1>3. rows[p] \in Nat /\ qty \in Nat
  BY Numbers DEF Inv
<1> QED BY <1>1, <1>2, <1>3 DEF Trigger

\* Only the price, the stop or nothing.
LEMMA SameKeeps ==
  ASSUME Inv, UNCHANGED <<qty, rows, taken, inside>>
  PROVE  Coherent'
BY DEF Inv, Coherent, WholeInv, SeenInv, StepInv, RepairInv, inside, cycle, Open

LEMMA OutsideKeeps ==
  ASSUME Inv, Outside
  PROVE  Coherent'
<1>1. CASE StopOut
  BY <1>1, CloseKeeps DEF StopOut
<1>2. ASSUME NEW p \in Prices, Move(p) \/ TightenByHand(Trail(p)) PROVE Coherent'
  BY <1>2, SameKeeps DEF Move, TightenByHand, exchange
<1>3. ASSUME NEW p \in Targets, NEW detach \in BOOLEAN, Trigger(p, detach) PROVE Coherent'
  BY <1>3, TriggerKeeps
<1> QED BY <1>1, <1>2, <1>3 DEF Outside

-----------------------------------------------------------------------------
(* The cycle.                                                              *)

LEMMA ReadKeeps ==
  ASSUME Inv, NEW ok \in BOOLEAN, ReadPosition(ok)
  PROVE  Coherent'
<1> DEFINE open == ok /\ Open
<1>1. /\ step = "idle" /\ step' = "notice"
      /\ seen' = IF open THEN [open |-> TRUE, qty |-> qty, stop |-> stop] ELSE NotSeen
      /\ partial' = (open /\ snapshot > qty)
      /\ UNCHANGED <<qty, stop, rows, taken, store, snapshot, lost>>
  BY DEF ReadPosition, exchange
<1>2. ~partial
  BY <1>1 DEF Inv, StepInv
<1>3. Quiet
  BY <1>1, <1>2 DEF Quiet
<1>4. qty \in Nat /\ snapshot \in Nat /\ (snapshot = 0 \/ qty <= snapshot) /\ stop \in Stops
  BY Numbers DEF Inv, SeenInv, TypeOK
<1>5. SeenInv' /\ StepInv'
  <2>1. CASE open
    <3>1. seen'.open /\ seen'.qty = qty /\ seen'.stop = stop /\ qty > 0
      BY <1>1, <2>1 DEF Open
    <3>2. partial' <=> snapshot > qty
      BY <1>1, <2>1
    <3>3. (partial' => snapshot > 0) /\ (~partial' => snapshot <= qty)
      BY <1>4, <3>2
    <3>4. StepInv'
      BY <1>1, <1>4, <3>1, <3>3 DEF StepInv, WithPosition, BeforeRepair
    <3> QED BY <1>1, <1>4, <3>1, <3>4 DEF SeenInv
  <2>2. CASE ~open
    <3>1. ~seen'.open /\ seen'.qty = 0 /\ ~partial'
      BY <1>1, <2>2 DEF NotSeen
    <3> QED BY <1>1, <1>4, <3>1 DEF SeenInv, StepInv, WithPosition, BeforeRepair
  <2> QED BY <2>1, <2>2
<1> QED BY <1>3, <1>5, QuietKeeps DEF Coherent

LEMMA NoticeKeeps ==
  ASSUME Inv, NEW written \in BOOLEAN, Notice(written)
  PROVE  Coherent'
<1>1. /\ step = "notice" /\ step' = IF seen.open THEN "monitor" ELSE "coordinator"
      /\ snapshot' = IF written THEN seen.qty ELSE snapshot
      /\ lost' = (lost \/ (written /\ seen.open /\ snapshot = 0 /\ seen.qty < Size))
      /\ UNCHANGED <<qty, rows, taken, store, seen, partial, todo>>
  BY DEF Notice, exchange, cycle
<1>2. /\ qty \in Nat /\ snapshot \in Nat /\ seen.qty \in Nat /\ seen.open \in BOOLEAN
      /\ qty <= Size /\ seen.qty <= Size /\ Size \in Nat /\ Size > 0
  BY Numbers DEF Inv
<1>3. /\ ~seen.open => seen.qty = 0
      /\ seen.open => qty <= seen.qty /\ seen.qty > 0
      /\ seen.open => (snapshot = 0 \/ seen.qty <= snapshot)
      /\ partial => seen.open /\ snapshot > 0
      /\ seen.open /\ ~partial => snapshot <= seen.qty
      /\ seen.open => seen.stop \in Stops
  BY <1>1 DEF Inv, SeenInv, StepInv, BeforeRepair
<1>4. StepInv'
  BY <1>1, <1>2, <1>3 DEF StepInv, WithPosition, BeforeRepair
<1>5. CASE ~written
  <2>1. snapshot' = snapshot /\ (lost => lost') /\ step' # "placing"
    BY <1>1, <1>5
  <2>2. Quiet
    BY <1>1, <2>1 DEF Quiet
  <2>3. SeenInv'
    BY <1>1, <2>1, <1>2, SeenKept
  <2> QED BY <1>4, <2>2, <2>3, QuietKeeps DEF Coherent
<1>6. CASE written
  <2>1. snapshot' = seen.qty /\ step' # "placing"
    BY <1>1, <1>6
  <2>2. SeenInv'
    BY <1>1, <1>2, <1>3, <2>1 DEF SeenInv
  <2>3. WholeInv'
    BY <1>1 DEF Inv, WholeInv
  <2>4. RepairInv'
    <3> SUFFICES ASSUME Open', store'.known, snapshot' = qty', ~lost',
                        partial' => step' = "placing", NEW p \in store'.levels
                 PROVE  p \in store'.hit \/ p \in taken' \/ rows'[p] > 0
      BY DEF RepairInv
    <3>1. ~partial /\ ~lost /\ qty = seen.qty /\ qty > 0 /\ store.known /\ p \in store.levels
      BY <1>1, <2>1 DEF Open
    <3>2. seen.open /\ snapshot <= seen.qty /\ (snapshot = 0 \/ seen.qty <= snapshot)
      BY <1>2, <1>3, <3>1
    <3>3. CASE snapshot = 0
      <4>1. ~(seen.qty < Size)
        BY <1>1, <1>6, <3>2, <3>3
      <4>2. seen.qty = Size
        BY <1>2, <4>1
      <4> QED BY <1>1, <3>1, <4>2 DEF Inv, WholeInv
    <3>4. CASE snapshot = qty
      <4>1. step # "placing"
        BY <1>1
      <4> QED BY <1>1, <3>1, <3>4, <4>1 DEF Inv, RepairInv, Open
    <3> QED BY <1>2, <3>1, <3>2, <3>3, <3>4
  <2> QED BY <1>4, <2>2, <2>3, <2>4 DEF Coherent
<1> QED BY <1>5, <1>6

\* What is adopted rests on the exchange.
LEMMA RegisterKeeps ==
  ASSUME Inv, RegisterExisting, UNCHANGED <<qty, rows, taken, snapshot, lost>>,
         step' # "placing", partial => partial' \/ lost'
  PROVE  WholeInv' /\ RepairInv'
<1>1. store.known \in BOOLEAN /\ seen.open \in BOOLEAN
  BY StoreFields, Numbers DEF Inv
<1>2. CASE seen.open /\ store.known
  <2>1. store' = store
    BY <1>2 DEF RegisterExisting
  <2>2. Quiet
    BY <2>1 DEF Quiet
  <2> QED BY <2>2, QuietKeeps
<1>3. CASE ~seen.open
  <2>1. ~store'.known
    BY <1>3 DEF RegisterExisting, Unregistered
  <2> QED BY <2>1 DEF Inv, WholeInv, RepairInv
<1>4. CASE seen.open /\ ~store.known
  <2>1. store'.levels = Nearest(Resting)
    BY <1>4 DEF RegisterExisting, Adopted
  <2>2. \A p \in store'.levels : rows[p] > 0
    BY <2>1 DEF Nearest, Resting
  <2> QED BY <2>2 DEF Inv, WholeInv, RepairInv
<1> QED BY <1>1, <1>2, <1>3, <1>4

LEMMA RegisterFirstKeeps ==
  ASSUME Inv, RegisterFirst \/ RegisterFirstFails \/ MonitorSkips
  PROVE  Coherent'
<1>1. /\ step \in {"monitor", "trail"} /\ step' \in {"trail", "coordinator"}
      /\ UNCHANGED <<qty, rows, taken, snapshot, seen, partial, todo, lost>>
  BY DEF RegisterFirst, RegisterFirstFails, MonitorSkips, exchange, cycle
<1>2. StepInv'
  BY <1>1 DEF Inv, StepInv, WithPosition, BeforeRepair
<1>3. SeenInv'
  BY <1>1, SeenKept, Numbers DEF Inv
<1>4. CASE RegisterFirst
  <2>1. WholeInv' /\ RepairInv'
    BY <1>1, <1>4, RegisterKeeps DEF RegisterFirst
  <2> QED BY <1>2, <1>3, <2>1 DEF Coherent
<1>5. CASE RegisterFirstFails \/ MonitorSkips
  <2>1. store' = store
    BY <1>5 DEF RegisterFirstFails, MonitorSkips
  <2>2. Quiet
    BY <1>1, <2>1 DEF Quiet
  <2> QED BY <1>2, <1>3, <2>2, QuietKeeps DEF Coherent
<1> QED BY <1>4, <1>5

LEMMA MonitorKeeps ==
  ASSUME Inv, NEW high \in Prices, Monitor(high)
  PROVE  Coherent'
<1>1. /\ step = "trail" /\ step' \in {"tighten", "coordinator"}
      /\ UNCHANGED <<qty, rows, taken, snapshot, seen, partial, todo, lost>>
  BY DEF Monitor, exchange
<1>2. StepInv'
  BY <1>1 DEF Inv, StepInv, WithPosition, BeforeRepair
<1>3. SeenInv'
  BY <1>1, SeenKept, Numbers DEF Inv
<1>4. PICK peak : store' = [Reconciled EXCEPT !.peak = peak]
  BY DEF Monitor
<1>5. PICK hits \in SUBSET store.levels :
        /\ store.hit \subseteq hits
        /\ Reconciled = [known |-> store.known, initial |-> store.initial,
                         levels |-> store.levels, hit |-> hits, peak |-> store.peak]
  BY ReconciledIs DEF Inv
<1>6. store'.known = store.known /\ store'.levels = store.levels /\ store'.hit = hits
  BY <1>4, <1>5
<1>7. Quiet
  BY <1>1, <1>5, <1>6 DEF Quiet
<1> QED BY <1>2, <1>3, <1>7, QuietKeeps DEF Coherent

\* Steps that change neither the position nor the store.
LEMMA TightenKeeps ==
  ASSUME Inv, TightenStop \/ TightenRefused \/ BuildCoordinator
  PROVE  Coherent'
<1>1. /\ UNCHANGED <<qty, rows, taken, store, snapshot, seen, partial, todo, lost>>
      /\ \/ step = "tighten" /\ step' = "coordinator"
         \/ step = "coordinator" /\ step' = IF seen.open THEN "repair" ELSE "register"
  BY DEF TightenStop, TightenRefused, BuildCoordinator, exchange, cycle
<1>2. Quiet
  BY <1>1 DEF Quiet
<1>3. SeenInv'
  BY <1>1, SeenKept, Numbers DEF Inv
<1>4. StepInv'
  BY <1>1 DEF Inv, StepInv, WithPosition, BeforeRepair
<1> QED BY <1>2, <1>3, <1>4, QuietKeeps DEF Coherent

\* The queued levels are placed before anything was taken, or the cycle that missed the
\* partial close is lost.
LEMMA PlanKeeps ==
  ASSUME Inv, PlacePlan
  PROVE  Coherent'
<1> DEFINE short == {p \in Queued : rows[p] < PartAt(p)}
<1>1. /\ step = "coordinator" /\ step' = "repair" /\ seen.open
      /\ UNCHANGED <<qty, snapshot, seen, partial, todo>>
      /\ store' = IF store.known THEN store ELSE Planned
      /\ lost' = (lost \/ (~store.known /\ seen.qty < Size))
  BY DEF PlacePlan, cycle
<1>2. /\ rows' = [p \in Targets |-> IF p \in short THEN PartAt(p) ELSE rows[p]]
      /\ taken' = taken \ short
  BY DEF PlacePlan
<1>3. StepInv'
  BY <1>1 DEF Inv, StepInv, WithPosition, BeforeRepair
<1>4. SeenInv'
  <2>1. qty \in Nat /\ qty' = qty /\ snapshot' = snapshot /\ seen' = seen
    BY <1>1, Numbers DEF Inv
  <2> QED BY <2>1, SeenKept
<1>5. Queued \subseteq Targets /\ \A p \in Queued : PartAt(p) \in Nat /\ PartAt(p) > 0
  BY LadderIs DEF Targets
<1>6. /\ \A p \in Targets : rows[p] > 0 => rows'[p] > 0
      /\ \A p \in Queued : rows'[p] > 0
      /\ \A p \in short : rows'[p] > 0
  <2>1. \A p \in Targets : rows'[p] = IF p \in short THEN PartAt(p) ELSE rows[p]
    BY <1>2
  <2>2. \A p \in Targets : rows[p] \in Nat
    BY Numbers DEF Inv
  <2> QED BY <1>5, <2>1, <2>2
<1> HIDE DEF short
<1>7. store.known \in BOOLEAN /\ store.levels \subseteq Targets /\ LevelPrice[1] \in Targets
  BY StoreFields, Numbers DEF Inv
<1>8. CASE store.known
  <2>1. store' = store
    BY <1>1, <1>8
  <2>2. WholeInv'
    BY <1>1, <1>6, <1>7, <2>1 DEF Inv, WholeInv
  <2>3. RepairInv'
    <3> SUFFICES ASSUME Open', store'.known, snapshot' = qty', ~lost',
                        partial' => step' = "placing", NEW p \in store'.levels
                 PROVE  p \in store'.hit \/ p \in taken' \/ rows'[p] > 0
      BY DEF RepairInv
    <3>1. Open /\ store.known /\ snapshot = qty /\ ~lost /\ ~partial /\ p \in store.levels
      BY <1>1, <2>1 DEF Open
    <3>2. p \in store.hit \/ p \in taken \/ rows[p] > 0
      BY <1>1, <3>1 DEF Inv, RepairInv
    <3> QED BY <1>2, <1>6, <1>7, <2>1, <3>1, <3>2
  <2> QED BY <1>3, <1>4, <2>2, <2>3 DEF Coherent
<1>9. CASE ~store.known
  <2>1. store'.levels = Ladder /\ store'.known
    BY <1>1, <1>9 DEF Planned
  <2>2. Ladder = {LevelPrice[1], LevelPrice[2], LevelPrice[3]}
    BY LadderIs
  <2>3. qty = Size => \A p \in store'.levels : rows'[p] > 0
    <3> SUFFICES ASSUME qty = Size PROVE \A p \in Ladder : rows'[p] > 0
      BY <2>1
    <3>1. rows[LevelPrice[1]] > 0
      BY DEF Inv, WholeInv
    <3> QED BY <1>6, <1>7, <2>2, <3>1 DEF Queued
  <2>4. WholeInv'
    BY <1>1, <1>6, <1>7, <2>3 DEF Inv, WholeInv
  <2>5. RepairInv'
    <3> SUFFICES ASSUME Open', snapshot' = qty', ~lost' PROVE qty = Size
      BY <1>1, <2>1, <2>3 DEF RepairInv
    <3>1. qty > 0 /\ snapshot = qty /\ ~(seen.qty < Size)
      BY <1>1, <1>9 DEF Open
    <3>2. seen.qty <= snapshot \/ snapshot = 0
      BY <1>1 DEF Inv, SeenInv
    <3> QED BY <3>1, <3>2, Numbers DEF Inv
  <2> QED BY <1>3, <1>4, <2>4, <2>5 DEF Coherent
<1> QED BY <1>7, <1>8, <1>9

\* A cycle that is cut off.
LEMMA CutKeeps ==
  ASSUME Inv, BuildFails \/ Crash
  PROVE  Coherent'
<1>1. /\ EndCycle /\ UNCHANGED <<qty, rows, taken, store, snapshot>>
      /\ lost' = (lost \/ Reported)
  BY DEF BuildFails, Crash, exchange
<1>2. step' # "placing" /\ seen' = NotSeen /\ StepInv'
  BY <1>1, EndSteps
<1>3. partial => lost' \/ snapshot # seen.qty
  BY <1>1 DEF Reported
<1>4. Quiet
  BY <1>1, <1>2, <1>3 DEF Quiet
<1>5. SeenInv'
  BY <1>1, <1>2, SeenKept, Numbers DEF Inv
<1> QED BY <1>2, <1>4, <1>5, QuietKeeps DEF Coherent

\* The repair only adds orders.
LEMMA RepairKeeps ==
  ASSUME Inv,
         \/ SkipRepair \/ StartRepair \/ PlaceFallback
         \/ \E placed \in SUBSET Targets : PlaceRepairs(placed)
  PROVE  Coherent'
<1>1. CASE SkipRepair
  <2>1. EndRepair /\ UNCHANGED <<qty, rows, taken, store, snapshot, lost>>
    BY <1>1 DEF SkipRepair, exchange
  <2>2. /\ StepInv' /\ step' # "placing" /\ partial' = partial
        /\ seen'.open = seen.open /\ seen'.qty = seen.qty
    BY <2>1, EndRepairSteps
  <2>3. Quiet
    BY <2>1, <2>2 DEF Quiet
  <2>4. SeenInv'
    BY <2>1, <2>2, SeenKept, Numbers DEF Inv
  <2> QED BY <2>2, <2>3, <2>4, QuietKeeps DEF Coherent
<1>2. CASE StartRepair
  <2>1. /\ step = "repair" /\ step' \in {"repairing", "completing"}
        /\ todo' = DefaultLadder
        /\ UNCHANGED <<qty, rows, taken, store, snapshot, seen, partial, lost>>
    BY <1>2 DEF StartRepair, exchange
  <2>2. \A p \in DOMAIN todo' : todo'[p] > 0
    BY <1>2, <2>1, RepairOrders
  <2>3. StepInv'
    BY <2>1, <2>2 DEF Inv, StepInv, WithPosition, BeforeRepair
  <2>4. Quiet
    BY <2>1 DEF Quiet
  <2>5. SeenInv'
    BY <2>1, SeenKept, Numbers DEF Inv
  <2> QED BY <2>3, <2>4, <2>5, QuietKeeps DEF Coherent
<1>3. ASSUME NEW orders, IsOrders(orders), Arrive(orders), \A p \in DOMAIN orders : orders[p] > 0,
             step \in {"repairing", "completing"}, EndRepair, lost' = lost
      PROVE  Coherent'
  <2>1. UNCHANGED <<qty, snapshot>>
    BY <1>3 DEF Arrive
  <2>2. /\ StepInv' /\ step' # "placing" /\ partial' = partial
        /\ seen'.open = seen.open /\ seen'.qty = seen.qty
    BY <1>3, <2>1, EndRepairSteps
  <2>3. step # "placing"
    BY <1>3
  <2>4. WholeInv' /\ RepairInv'
    BY <1>3, <2>2, <2>3, ArrivedKeeps
  <2>5. SeenInv'
    BY <2>1, <2>2, SeenKept, Numbers DEF Inv
  <2> QED BY <2>2, <2>4, <2>5 DEF Coherent
<1>4. CASE PlaceFallback
  <2> DEFINE orders == [p \in {RepairPrice(seen.stop, 1)} |-> seen.qty]
  <2>1. IsOrders(orders) /\ seen.qty > 0
    BY <1>4, RepairOrders
  <2>2. \A p \in DOMAIN orders : orders[p] > 0
    BY <2>1
  <2>3. Arrive(orders) /\ EndRepair /\ lost' = lost /\ step \in {"repairing", "completing"}
    BY <1>4 DEF PlaceFallback
  <2> QED BY <1>3, <2>1, <2>2, <2>3
<1>5. ASSUME NEW placed \in SUBSET Targets, PlaceRepairs(placed) PROVE Coherent'
  <2>1. IsOrders(Restrict(todo, placed))
    BY <1>5, RepairOrders
  <2>2. \A p \in DOMAIN Restrict(todo, placed) : Restrict(todo, placed)[p] > 0
    BY <1>5, RepairOrders
  <2>3. /\ Arrive(Restrict(todo, placed)) /\ EndRepair /\ lost' = lost
        /\ step \in {"repairing", "completing"}
    BY <1>5 DEF PlaceRepairs
  <2> QED BY <1>3, <2>1, <2>2, <2>3
<1> QED BY <1>1, <1>2, <1>4, <1>5

\* The second registration and the agents.
LEMMA AgainKeeps ==
  ASSUME Inv, RegisterAgain
  PROVE  Coherent'
<1>1. /\ step = "register" /\ RegisterExisting
      /\ UNCHANGED <<qty, rows, taken, snapshot, lost>>
  BY DEF RegisterAgain, exchange
<1>2. CASE seen.open
  <2>1. step' = "pipeline" /\ UNCHANGED <<seen, partial, todo>>
    BY <1>2 DEF RegisterAgain, cycle
  <2>2. StepInv'
    BY <1>1, <1>2, <2>1 DEF Inv, StepInv, WithPosition, BeforeRepair
  <2>3. SeenInv'
    BY <1>1, <2>1, SeenKept, Numbers DEF Inv
  <2>4. WholeInv' /\ RepairInv'
    BY <1>1, <2>1, RegisterKeeps
  <2> QED BY <2>2, <2>3, <2>4 DEF Coherent
<1>3. CASE ~seen.open
  <2>1. EndCycle
    BY <1>3 DEF RegisterAgain
  <2>2. StepInv' /\ seen' = NotSeen /\ step' # "placing"
    BY <2>1, EndSteps
  <2>3. SeenInv'
    BY <1>1, <2>2, SeenKept, Numbers DEF Inv
  <2>4. ~partial
    BY <1>3 DEF Inv, StepInv
  <2>5. WholeInv' /\ RepairInv'
    BY <1>1, <2>2, <2>4, RegisterKeeps
  <2> QED BY <2>2, <2>3, <2>5 DEF Coherent
<1> QED BY <1>2, <1>3

LEMMA ContinueKeeps ==
  ASSUME Inv, RegisterAgainFails \/ Exit \/ NoExit
  PROVE  Coherent'
<1>1. Continue /\ snapshot' = snapshot /\ store' = store /\ lost' = lost
  BY DEF RegisterAgainFails, Exit, NoExit
<1>2. /\ StepInv' /\ step' # "placing" /\ partial' = partial
      /\ seen' = NotSeen \/ seen' = seen
  BY <1>1, ContinueSteps
<1>3. CASE Exit
  <2>1. qty' = 0 /\ 0 <= qty /\ 0 \in Nat
    BY <1>3, Numbers DEF Exit, Inv
  <2> QED BY <1>1, <1>2, <2>1, ShrinkKeeps, SeenKept DEF Coherent
<1>4. CASE RegisterAgainFails \/ NoExit
  <2>1. UNCHANGED <<qty, rows, taken>>
    BY <1>4 DEF RegisterAgainFails, NoExit, exchange
  <2>2. Quiet
    BY <1>1, <1>2, <2>1 DEF Quiet
  <2>3. SeenInv'
    BY <1>1, <1>2, <2>1, SeenKept, Numbers DEF Inv
  <2> QED BY <1>2, <2>2, <2>3, QuietKeeps DEF Coherent
<1> QED BY <1>3, <1>4

\* The re-arming knows every level that is missing.
LEMMA StartKeeps ==
  ASSUME Inv, StartRearm
  PROVE  Coherent'
<1>1. /\ step = "rearm" /\ store' = Reconciled /\ lost' = FALSE
      /\ UNCHANGED <<qty, rows, taken, snapshot>>
  BY DEF StartRearm, exchange
<1>2. PICK hits \in SUBSET store.levels :
        /\ store.hit \subseteq hits
        /\ Reconciled = [known |-> store.known, initial |-> store.initial,
                         levels |-> store.levels, hit |-> hits, peak |-> store.peak]
  BY ReconciledIs DEF Inv
<1>3. /\ store'.known = store.known /\ store'.levels = store.levels /\ store'.hit = hits
      /\ Reconciled.levels = store.levels /\ Reconciled.hit = hits
  BY <1>1, <1>2
<1>4. store.levels \subseteq Targets /\ \A p \in Targets : rows[p] \in Nat
  BY StoreFields, Numbers DEF Inv
<1>5. \A p \in store.levels : p \in hits \/ rows[p] > 0 \/ p \in Missing(Reconciled)
  BY <1>3, <1>4 DEF Missing
<1>6. WholeInv'
  BY <1>1, <1>3 DEF Inv, WholeInv
<1>7. CASE Missing(Reconciled) = {}
  <2>1. EndCycle
    BY <1>7 DEF StartRearm
  <2>2. StepInv' /\ seen' = NotSeen
    BY <2>1, EndSteps
  <2>3. SeenInv'
    BY <1>1, <2>2, SeenKept, Numbers DEF Inv
  <2>4. RepairInv'
    BY <1>1, <1>3, <1>5, <1>7 DEF RepairInv
  <2> QED BY <1>6, <2>2, <2>3, <2>4 DEF Coherent
<1>8. CASE Missing(Reconciled) # {}
  <2>1. /\ todo' = Restored(Reconciled) /\ step' = "placing"
        /\ UNCHANGED <<seen, partial, candidate>>
    BY <1>8 DEF StartRearm
  <2>2. DOMAIN todo' = Missing(Reconciled)
    BY <2>1, RestoredOrders
  <2>3. seen.open /\ partial /\ snapshot > 0
    BY <1>1 DEF Inv, StepInv, WithPosition
  <2>4. StepInv'
    BY <1>1, <1>8, <2>1, <2>2, <2>3 DEF StepInv, WithPosition, BeforeRepair
  <2>5. SeenInv'
    BY <1>1, <2>1, SeenKept, Numbers DEF Inv
  <2>6. RepairInv'
    BY <1>1, <1>3, <1>5, <2>1, <2>2 DEF RepairInv
  <2> QED BY <1>6, <2>4, <2>5, <2>6 DEF Coherent
<1> QED BY <1>7, <1>8

LEMMA RejectedKeeps ==
  ASSUME Inv, RearmFails \/ RestoreRejected
  PROVE  Coherent'
<1>1. EndCycle /\ lost' = TRUE /\ UNCHANGED <<qty, rows, store, snapshot>>
  BY DEF RearmFails, RestoreRejected, exchange
<1>2. StepInv' /\ seen' = NotSeen
  BY <1>1, EndSteps
<1>3. SeenInv'
  BY <1>1, <1>2, SeenKept, Numbers DEF Inv
<1>4. WholeInv'
  BY <1>1 DEF Inv, WholeInv
<1>5. RepairInv'
  BY <1>1 DEF RepairInv
<1> QED BY <1>2, <1>3, <1>4, <1>5 DEF Coherent

LEMMA RestoreKeeps ==
  ASSUME Inv, RestoreLevel
  PROVE  Coherent'
<1> DEFINE orders == [p \in {NextOrder} |-> todo[p]]
<1>1. step = "placing" /\ todo[NextOrder] > 0 /\ Arrive(orders) /\ lost' = lost
  BY DEF RestoreLevel
<1>2. NextOrder \in DOMAIN todo /\ NextOrder \in Targets /\ todo[NextOrder] \in Nat
  BY <1>1, NextOrderIs
<1>3. IsOrders(orders) /\ \A p \in DOMAIN orders : orders[p] > 0
  BY <1>1, <1>2 DEF IsOrders
<1>4. DOMAIN orders = {NextOrder}
  OBVIOUS
<1>5. UNCHANGED <<qty, snapshot>>
  BY <1>1 DEF Arrive
<1> HIDE DEF orders
<1>6. CASE DOMAIN todo = {NextOrder}
  <2>1. EndCycle
    BY <1>6 DEF RestoreLevel
  <2>2. StepInv' /\ seen' = NotSeen
    BY <2>1, EndSteps
  <2>3. SeenInv'
    BY <1>5, <2>2, SeenKept, Numbers DEF Inv
  <2>4. WholeInv' /\ RepairInv'
    BY <1>1, <1>3, <1>4, <1>6, ArrivedKeeps
  <2> QED BY <2>2, <2>3, <2>4 DEF Coherent
<1>7. CASE DOMAIN todo # {NextOrder}
  <2>1. /\ todo' = Restrict(todo, DOMAIN todo \ {NextOrder})
        /\ UNCHANGED <<step, seen, partial, candidate>>
    BY <1>7 DEF RestoreLevel
  <2>2. DOMAIN todo' = DOMAIN todo \ {NextOrder}
    BY <2>1 DEF Restrict
  <2>3. seen.open /\ partial /\ snapshot > 0
    BY <1>1 DEF Inv, StepInv, WithPosition
  <2>4. DOMAIN todo' # {}
    BY <1>2, <1>7, <2>2
  <2>5. StepInv'
    BY <1>1, <1>5, <2>1, <2>3, <2>4 DEF StepInv, WithPosition, BeforeRepair
  <2>6. SeenInv'
    BY <1>5, <2>1, SeenKept, Numbers DEF Inv
  <2>7. WholeInv' /\ RepairInv'
    BY <1>1, <1>3, <1>4, <2>1, <2>2, ArrivedKeeps
  <2> QED BY <2>5, <2>6, <2>7 DEF Coherent
<1> QED BY <1>6, <1>7

-----------------------------------------------------------------------------
(* The invariant.                                                          *)

LEMMA InitInv == Init => Inv
<1> SUFFICES ASSUME Init PROVE Inv
  OBVIOUS
<1>1. /\ qty = Size /\ stop = InitialStop /\ taken = {} /\ plan = TRUE
      /\ rows = [NothingRests EXCEPT ![LevelPrice[1]] = Part(1)]
      /\ store = Unregistered /\ snapshot = 0 /\ step = "idle" /\ seen = NotSeen
      /\ partial = FALSE /\ candidate = 0 /\ todo = NoOrders
      /\ lost = FALSE /\ faults = 0 /\ price \in Prices
  BY DEF Init
<1>2. LevelPrice[1] \in Targets
  BY LadderIs DEF Targets
<1>3. Part(1) \in Nat /\ Part(1) > 0 /\ Size \in Nat /\ Size > 0
  BY PartsAre, ThreeLevels
<1>4. rows \in [Targets -> Nat] /\ rows[LevelPrice[1]] > 0
  <2>1. NothingRests \in [Targets -> Nat]
    BY DEF NothingRests
  <2> QED BY <1>1, <1>2, <1>3, <2>1
<1>5. TypeOK
  <2>1. InitialStop \in Stops
    BY DEF Stops
  <2>2. ExchangeOK
    BY <1>1, <1>3, <1>4, <2>1 DEF ExchangeOK
  <2>3. StoreOK
    BY <1>1, <1>3 DEF StoreOK, Unregistered
  <2>4. CycleOK
    <3>1. 0 \in 0..Size
      BY <1>3
    <3>2. IsOrders(todo)
      BY <1>1 DEF IsOrders, NoOrders
    <3> QED BY <1>1, <3>1, <3>2 DEF CycleOK, NotSeen
  <2>5. ControlOK
    <3>1. 0 \in 0..Size /\ 0 \in 0..MaxFaults
      BY <1>3, FaultsAssumption
    <3> QED BY <1>1, <3>1 DEF ControlOK, Steps
  <2> QED BY <2>2, <2>3, <2>4, <2>5, TypesAre
<1>6. WholeInv
  BY <1>1, <1>4 DEF WholeInv, Unregistered
<1>7. SeenInv /\ RepairInv
  BY <1>1 DEF SeenInv, RepairInv, NotSeen, Unregistered
<1>8. StepInv
  BY <1>1 DEF StepInv, NotSeen, WithPosition, BeforeRepair
<1> QED BY <1>5, <1>6, <1>7, <1>8 DEF Inv

LEMMA NextInv == Inv /\ [Next]_vars => Inv'
<1> SUFFICES ASSUME Inv, [Next]_vars PROVE Inv'
  OBVIOUS
<1>1. TypeOK'
  BY NextTypes
<1>2. CASE UNCHANGED vars
  <2>1. Coherent'
    BY <1>2, SameKeeps DEF vars, exchange, inside
  <2> QED BY <1>1, <2>1 DEF Inv, Coherent
<1>3. CASE Outside \/ Crash
  BY <1>1, <1>3, OutsideKeeps, CutKeeps DEF Inv, Coherent
<1>4. CASE Runtime
  <2>1. CASE \/ \E ok \in BOOLEAN : ReadPosition(ok)
             \/ \E written \in BOOLEAN : Notice(written)
             \/ RegisterFirst \/ RegisterFirstFails \/ MonitorSkips
             \/ \E high \in Prices : Monitor(high)
    BY <1>1, <2>1, ReadKeeps, NoticeKeeps, RegisterFirstKeeps, MonitorKeeps
    DEF Inv, Coherent
  <2>2. CASE TightenStop \/ TightenRefused \/ PlacePlan \/ BuildCoordinator \/ BuildFails
    BY <1>1, <2>2, TightenKeeps, PlanKeeps, CutKeeps DEF Inv, Coherent
  <2>3. CASE \/ SkipRepair \/ StartRepair \/ PlaceFallback
             \/ \E placed \in SUBSET Targets : PlaceRepairs(placed)
    BY <1>1, <2>3, RepairKeeps DEF Inv, Coherent
  <2>4. CASE RegisterAgain \/ RegisterAgainFails \/ Exit \/ NoExit
    BY <1>1, <2>4, AgainKeeps, ContinueKeeps DEF Inv, Coherent
  <2>5. CASE StartRearm \/ RearmFails \/ RestoreLevel \/ RestoreRejected
    BY <1>1, <2>5, StartKeeps, RejectedKeeps, RestoreKeeps DEF Inv, Coherent
  <2> QED BY <1>4, <2>1, <2>2, <2>3, <2>4, <2>5 DEF Runtime
<1> QED BY <1>2, <1>3, <1>4 DEF Next

-----------------------------------------------------------------------------
(* What a step never does.                                                 *)

\* The runtime and the operator set a stop only above the one they read; all the other
\* steps leave it alone.
LEMMA NextTightens ==
  ASSUME Inv, [Next]_vars
  PROVE  stop' >= stop
<1>1. stop \in Nat /\ candidate \in Nat
  BY Numbers DEF Inv
<1>2. CASE stop' = stop
  BY <1>1, <1>2
<1>3. CASE TightenStop
  BY <1>1, <1>3 DEF TightenStop
<1>4. ASSUME NEW p \in Prices, TightenByHand(Trail(p)) PROVE stop' >= stop
  <2>1. Trail(p) \in Nat
    BY PricesAssumption, TrailIsNat
  <2> QED BY <1>1, <1>4, <2>1 DEF TightenByHand
<1>5. CASE Outside /\ \A p \in Prices : ~TightenByHand(Trail(p))
  <2>1. stop' = stop
    BY <1>5 DEF Outside, StopOut, Move, Trigger, Close, exchange
  <2> QED BY <1>1, <2>1
<1>6. CASE Runtime /\ ~TightenStop
  <2> USE DEF exchange
  <2>1. (\E ok \in BOOLEAN : ReadPosition(ok)) \/ (\E written \in BOOLEAN : Notice(written))
          => stop' = stop
    BY DEF ReadPosition, Notice
  <2>2. RegisterFirst \/ RegisterFirstFails \/ (\E high \in Prices : Monitor(high))
          => stop' = stop
    BY DEF RegisterFirst, RegisterFirstFails, Monitor
  <2>3. MonitorSkips \/ TightenRefused \/ PlacePlan \/ BuildCoordinator \/ BuildFails
          => stop' = stop
    BY DEF MonitorSkips, TightenRefused, PlacePlan, BuildCoordinator, BuildFails
  <2>4. SkipRepair \/ StartRepair \/ PlaceFallback
          \/ (\E placed \in SUBSET Targets : PlaceRepairs(placed)) => stop' = stop
    BY DEF SkipRepair, StartRepair, PlaceFallback, PlaceRepairs, Arrive
  <2>5. RegisterAgain \/ RegisterAgainFails \/ Exit \/ NoExit => stop' = stop
    BY DEF RegisterAgain, RegisterAgainFails, Exit, NoExit
  <2>6. StartRearm \/ RearmFails \/ RestoreLevel \/ RestoreRejected => stop' = stop
    BY DEF StartRearm, RearmFails, RestoreLevel, RestoreRejected, Arrive
  <2>7. stop' = stop
    BY <1>6, <2>1, <2>2, <2>3, <2>4, <2>5, <2>6 DEF Runtime
  <2> QED BY <1>1, <2>7
<1>7. CASE Crash \/ UNCHANGED vars
  BY <1>1, <1>7 DEF Crash, vars, exchange
<1> QED BY <1>3, <1>4, <1>5, <1>6, <1>7 DEF Next

-----------------------------------------------------------------------------
(* The results.                                                            *)

\* A cycle works on a position and a checkpoint that are no younger than the exchange,
\* and the re-arming knows what is missing, whatever faults intervene.
THEOREM Invariance == Spec => []Inv
BY InitInv, NextInv, PTL DEF Spec

\* The types, with the prices and the quantities of the orders among them.
THEOREM TypeCorrect == Spec => []TypeOK
<1>1. Inv => TypeOK
  BY DEF Inv
<1> QED BY <1>1, Invariance, PTL

\* Whoever moves it, and however old the state and the snapshot are the runtime
\* works on, the stop of an open position only tightens.
THEOREM StopOnlyTightens == Spec => StopNeverLoosens
<1>1. Inv /\ [Next]_vars => [qty' > 0 => stop' >= stop]_vars
  BY NextTightens
<1> QED
  BY <1>1, Invariance, PTL DEF Spec, StopNeverLoosens

\* Between cycles a registered level is hit, taken or rests, unless the cycle that
\* reported the partial close was cut off.
THEOREM NoneForgotten == Spec => []NoLevelForgotten
<1>1. Inv => NoLevelForgotten
  <2> SUFFICES ASSUME Inv, step = "idle", Open, store.known, snapshot = qty, ~lost
               PROVE  \A l \in store.levels : l \in store.hit \/ l \in taken \/ rows[l] > 0
    BY DEF NoLevelForgotten
  <2>1. ~partial
    BY DEF Inv, StepInv
  <2> QED BY <2>1 DEF Inv, RepairInv
<1> QED BY <1>1, Invariance, PTL
=============================================================================
