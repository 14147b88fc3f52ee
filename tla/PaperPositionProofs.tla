------------------------- MODULE PaperPositionProofs -------------------------
(***************************************************************************)
(* What each function that manages a paper position does to it, for every  *)
(* ladder, fraction, swing and price: it keeps the position Sound, never   *)
(* loosens its stop, and banks exactly the units that leave.               *)
(***************************************************************************)
EXTENDS PaperEngine, TLAPS

Accounted(p) ==
  /\ Contract!InOrder(p.hit)
  /\ p.rem = Size - Contract!UnitsOf(p.hit)
  /\ \A i \in p.hit : i < Len(p.tp)

RiskFree(p) ==
  /\ p.hit # {} => p.static = 0 /\ p.active /\ p.partial > 0
  /\ p.trail # None => p.active /\ p.trail >= NetFloor[Size]

\* The stop in force never lies beyond both stops it was taken from, so that
\* taking it again from them can only tighten it.
StopCovered(p) == p.stop <= p.static \/ (p.trail # None /\ p.stop <= p.trail)

Sound(p) ==
  /\ p \in PositionType
  /\ Accounted(p)
  /\ RiskFree(p)
  /\ StopCovered(p)
  /\ p.static <= 0
  /\ p.hit = {} => p.partial = 0

\* q manages p without closing a unit.
SameUnits(p, q) ==
  q.rem = p.rem /\ q.partial = p.partial /\ q.hit = p.hit /\ q.last = p.last

\* q is p after closing, at the last price, the units that left.
Banked(p, q) ==
  /\ q.last = p.last /\ p.hit \subseteq q.hit
  /\ q.partial = p.partial + p.last * (p.rem - q.rem)

-----------------------------------------------------------------------------
(* The functions that manage one position *)

LEMMA NewPositionSound ==
  ASSUME NEW plan \in Plans, plan.risk > 0, NEW entry \in Int
  PROVE  /\ Sound(NewPosition(plan, entry))
         /\ NewPosition(plan, entry).partial = 0
         /\ NewPosition(plan, entry).stop < 0
         /\ NewPosition(plan, entry).rem = Size
         /\ NewPosition(plan, entry).hit = {}
BY PlanAssumption, SizeAssumption
   DEF NewPosition, Sound, PositionType, PlanType, Risks, Accounted, RiskFree,
       StopCovered, Contract!InOrder, Contract!UnitsOf

LEMMA StopsUpdated ==
  ASSUME NEW p \in PositionType, NEW c \in Int, NEW b \in BOOLEAN
  PROVE  /\ [p EXCEPT !.static = c, !.active = b] \in PositionType
         /\ [p EXCEPT !.trail = c, !.active = b] \in PositionType
BY DEF PositionType

\* Whatever only tightens the stops of a sound position leaves it sound.
LEMMA TighterSound ==
  ASSUME NEW p, Sound(p), NEW q \in PositionType,
         q.rem = p.rem, q.partial = p.partial, q.hit = p.hit, q.tp = p.tp,
         q.stop = p.stop, p.static <= q.static, q.static <= 0, p.active => q.active,
         \/ q.trail = p.trail
         \/ /\ q.trail \in Int /\ q.active /\ q.trail >= NetFloor[Size]
            /\ p.trail # None => q.trail >= p.trail
  PROVE  Sound(q)
<1>1. p \in PositionType /\ NetFloor[Size] \in Nat
  BY TrailAssumption, SizeAssumption DEF Sound
<1>2. Accounted(q)
  BY DEF Sound, Accounted
<1>3. RiskFree(q)
  BY <1>1, PlanAssumption DEF Sound, RiskFree, PositionType
<1>4. StopCovered(q)
  BY <1>1, PlanAssumption DEF Sound, StopCovered, PositionType
<1>5. QED BY <1>2, <1>3, <1>4 DEF Sound

LEMMA MarkedSound ==
  ASSUME NEW p, Sound(p), NEW gain \in Int
  PROVE  /\ Sound(Marked(p, gain))
         /\ Marked(p, gain).rem = p.rem /\ Marked(p, gain).partial = p.partial
         /\ Marked(p, gain).hit = p.hit /\ Marked(p, gain).stop = p.stop
         /\ Marked(p, gain).last = gain
<1> DEFINE q == Marked(p, gain)
<1>1. Greater(p.best, gain) \in Nat
  BY DEF Sound, PositionType, Greater
<1>2. /\ q \in PositionType
      /\ q.rem = p.rem /\ q.partial = p.partial /\ q.hit = p.hit /\ q.tp = p.tp
      /\ q.stop = p.stop /\ q.static = p.static /\ q.active = p.active
      /\ q.trail = p.trail /\ q.last = gain
  BY <1>1 DEF Marked, Sound, PositionType
<1>3. p.static \in Int /\ p.static <= 0
  BY DEF Sound, PositionType
<1> HIDE DEF q
<1>4. Sound(q)
  BY <1>2, <1>3, TighterSound
<1>5. QED BY <1>2, <1>4 DEF q

LEMMA HoldBreakEvenSound ==
  ASSUME NEW p, Sound(p)
  PROVE  /\ Sound(HoldBreakEven(p)) /\ SameUnits(p, HoldBreakEven(p))
         /\ HoldBreakEven(p).stop = p.stop
<1> DEFINE q == HoldBreakEven(p)
<1>1. q = p \/ q = [p EXCEPT !.static = 0, !.active = TRUE]
  BY DEF HoldBreakEven
<1> HIDE DEF q
<1>2. p \in PositionType /\ p.static \in Int /\ p.static <= 0
  BY DEF Sound, PositionType
<1>3. CASE q = [p EXCEPT !.static = 0, !.active = TRUE]
  <2>1. /\ q.rem = p.rem /\ q.partial = p.partial /\ q.hit = p.hit /\ q.tp = p.tp
        /\ q.stop = p.stop /\ q.trail = p.trail /\ q.last = p.last
        /\ q.static = 0 /\ q.active
    BY <1>2, <1>3 DEF PositionType
  <2>2. q \in PositionType
    <3>1. 0 \in Int OBVIOUS
    <3>2. QED BY <1>2, <1>3, <3>1, StopsUpdated, Zenon
  <2>3. Sound(q)
    BY <1>2, <2>1, <2>2, TighterSound
  <2>4. QED BY <2>1, <2>3 DEF q, SameUnits
<1>4. QED BY <1>1, <1>3 DEF q, SameUnits

LEMMA ActivatedSound ==
  ASSUME NEW p, Sound(p)
  PROVE  /\ Sound(Activated(p)) /\ SameUnits(p, Activated(p))
         /\ Activated(p).stop = p.stop
BY DEF Activated, Sound, PositionType, Accounted, RiskFree, StopCovered, SameUnits

LEMMA TrailedSound ==
  ASSUME NEW p, Sound(p)
  PROVE  /\ Sound(Trailed(p)) /\ SameUnits(p, Trailed(p))
         /\ Trailed(p).stop = p.stop
         /\ p.hit # {} => Trailed(p).trail # None
<1> DEFINE candidate == Greater(p.best - TrailDistance[p.risk], NetFloor[p.rem])
           q == Trailed(p)
<1>1. candidate \in Int /\ candidate >= NetFloor[Size]
  <2>1. /\ p.best \in Nat /\ TrailDistance[p.risk] \in Nat
        /\ NetFloor[p.rem] \in Nat /\ NetFloor[p.rem] >= NetFloor[Size]
        /\ NetFloor[Size] \in Nat
    BY TrailAssumption, SizeAssumption DEF Sound, PositionType
  <2>2. QED BY <2>1 DEF Greater
<1>2. q = IF p.active /\ (p.trail = None \/ candidate > p.trail)
            THEN [p EXCEPT !.trail = candidate] ELSE p
  BY DEF Trailed, Tightened
<1> HIDE DEF candidate, q
<1>3. /\ q \in PositionType
      /\ q.rem = p.rem /\ q.partial = p.partial /\ q.hit = p.hit /\ q.tp = p.tp
      /\ q.stop = p.stop /\ q.static = p.static /\ q.active = p.active
      /\ q.last = p.last
      /\ q.trail = p.trail \/ (p.active /\ q.trail = candidate /\ (p.trail # None => candidate > p.trail))
      /\ p.active => q.trail # None
  BY <1>1, <1>2, PlanAssumption DEF Sound, PositionType
<1>4. p.static \in Int /\ p.static <= 0 /\ p.trail \in Int \union {None}
  BY DEF Sound, PositionType
<1>5. Sound(q)
  BY <1>1, <1>3, <1>4, TighterSound
<1>6. QED BY <1>3, <1>5 DEF q, SameUnits, Sound, RiskFree

LEMMA AcrOutcomesSound ==
  ASSUME NEW p, Sound(p), p.hit # {} => p.trail # None, NEW q \in AcrOutcomes(p)
  PROVE  Sound(q) /\ SameUnits(p, q) /\ q.stop = p.stop
<1> DEFINE even == [p EXCEPT !.static = Greater(@, 0)]
<1>1. CASE q = p
  BY <1>1 DEF SameUnits
<1>2. CASE q # p
  <2>1. 1 \in p.hit
    BY <1>2 DEF AcrOutcomes
  <2>2. p.static = 0 /\ p.active /\ p.trail \in Int
    BY <2>1 DEF Sound, RiskFree, PositionType
  <2>3. even = p
    BY <2>2 DEF Greater, Sound, PositionType
  <2>4. PICK swing \in Swings : swing > p.trail /\ q = [even EXCEPT !.trail = swing, !.active = TRUE]
    BY <1>2, <2>1, <2>2, <2>3, PlanAssumption DEF AcrOutcomes
  <2> HIDE DEF even
  <2>5. p \in PositionType /\ swing \in Int /\ q = [p EXCEPT !.trail = swing, !.active = TRUE]
    BY <2>3, <2>4, TrailAssumption DEF Sound
  <2>6. /\ q \in PositionType
        /\ q.rem = p.rem /\ q.partial = p.partial /\ q.hit = p.hit /\ q.tp = p.tp
        /\ q.stop = p.stop /\ q.static = p.static /\ q.active
        /\ q.last = p.last /\ q.trail = swing
    <3>1. q \in PositionType
      BY <2>5, StopsUpdated, Zenon
    <3>2. QED BY <2>5, <3>1 DEF PositionType
  <2>7. p.trail >= NetFloor[Size] /\ NetFloor[Size] \in Nat
    BY <2>2, PlanAssumption, TrailAssumption, SizeAssumption DEF Sound, RiskFree
  <2>8. q.trail \in Int /\ q.trail >= p.trail
    BY <2>2, <2>4, <2>5, <2>6
  <2>9. Sound(q)
    BY <2>2, <2>6, <2>7, <2>8, TighterSound
  <2>10. QED BY <2>6, <2>9 DEF SameUnits
<1>3. QED BY <1>1, <1>2

LEMMA RestoppedSound ==
  ASSUME NEW p, Sound(p)
  PROVE  /\ Sound(Restopped(p)) /\ SameUnits(p, Restopped(p))
         /\ Restopped(p).stop >= p.stop
<1> DEFINE effective == IF p.trail = None THEN p.static ELSE Greater(p.static, p.trail)
           q == Restopped(p)
<1>1. /\ p.static \in Int /\ p.stop \in Int /\ p.trail \in Int \union {None}
      /\ p \in PositionType
  BY DEF Sound, PositionType
<1>2. /\ effective \in Int /\ effective >= p.stop
      /\ effective <= p.static \/ (p.trail # None /\ effective <= p.trail)
  BY <1>1, PlanAssumption DEF Sound, StopCovered, Greater
<1>3. q = [p EXCEPT !.stop = effective]
  BY DEF Restopped
<1> HIDE DEF effective, q
<1>4. /\ q \in PositionType
      /\ q.rem = p.rem /\ q.partial = p.partial /\ q.hit = p.hit /\ q.tp = p.tp
      /\ q.stop = effective /\ q.static = p.static /\ q.active = p.active
      /\ q.last = p.last /\ q.trail = p.trail
  BY <1>1, <1>2, <1>3 DEF PositionType
<1>5. Sound(q)
  BY <1>2, <1>4 DEF Sound, Accounted, RiskFree, StopCovered
<1>6. QED BY <1>2, <1>4, <1>5 DEF q, SameUnits

-----------------------------------------------------------------------------
(* Partial closes *)

LEMMA Products ==
  /\ \A a, b \in Nat \ {0} : a * b \in Nat \ {0}
  /\ \A a, b, c \in Int : a * b \in Int /\ a * (b + c) = a * b + a * c
                                        /\ a * (b - c) = a * b - a * c
OBVIOUS

LEMMA UnitsUpdated ==
  ASSUME NEW p \in PositionType, NEW r \in 1..Size, NEW m \in Int,
         NEW h \in SUBSET {1, 2}, NEW b \in BOOLEAN, NEW c \in Int
  PROVE  [p EXCEPT !.rem = r, !.partial = m, !.hit = h, !.active = b, !.static = c]
           \in PositionType
BY DEF PositionType

\* Levels leave in order, each its fraction of the initial size.
LEMMA LevelUnits ==
  ASSUME NEW p, Sound(p), NEW i \in {1, 2}, i \notin p.hit, i = 2 => 1 \in p.hit
  PROVE  LET units == Lesser(p.rem, FractionOf(i))
             hit == p.hit \union {i}
         IN  /\ units \in Nat \ {0}
             /\ p.rem - units \in 1..Size
             /\ p.rem - units = Size - Contract!UnitsOf(hit)
             /\ hit \in SUBSET {1, 2} /\ Contract!InOrder(hit)
<1>1. p.hit = IF i = 1 THEN {} ELSE {1}
  BY DEF Sound, Accounted, Contract!InOrder
<1>2. p.rem = IF i = 1 THEN Size ELSE Size - Fraction1
  BY <1>1, SizeAssumption DEF Sound, Accounted, Contract!UnitsOf
<1>3. Lesser(p.rem, FractionOf(i)) = FractionOf(i)
  BY <1>2, SizeAssumption DEF Lesser, FractionOf
<1>4. p.hit \union {i} = IF i = 1 THEN {1} ELSE {1, 2}
  BY <1>1
<1>5. QED
  BY <1>2, <1>3, <1>4, SizeAssumption DEF FractionOf, Contract!UnitsOf, Contract!InOrder

LEMMA TookLevelSound ==
  ASSUME NEW p, Sound(p), NEW i \in {1, 2},
         i = 2 /\ 2 < Len(p.tp) /\ LevelReached(p, 2) => 1 \in p.hit
  PROVE  /\ Sound(TookLevel(p, i)) /\ Banked(p, TookLevel(p, i))
         /\ TookLevel(p, i).stop = p.stop
<1> DEFINE q == TookLevel(p, i)
           units == Lesser(p.rem, FractionOf(i))
           static == IF i = 1 THEN 0 ELSE p.static
           hit == p.hit \union {i}
<1>0. /\ p \in PositionType /\ p.rem \in Int /\ p.last \in Int /\ p.partial \in Int
      /\ p.static \in Int /\ p.static <= 0 /\ p.stop \in Int
  BY DEF Sound, PositionType
<1>1. CASE ~(i < Len(p.tp) /\ LevelReached(p, i))
  <2>1. q = p
    BY <1>1 DEF TookLevel
  <2>2. p.partial = p.partial + p.last * (p.rem - p.rem)
    BY <1>0
  <2>3. QED BY <2>1, <2>2 DEF Banked
<1>2. CASE i < Len(p.tp) /\ LevelReached(p, i)
  <2>1. i \notin p.hit /\ p.last > 0 /\ (i = 2 => 1 \in p.hit)
    BY <1>2 DEF LevelReached
  <2>2. /\ units \in Nat \ {0} /\ p.rem - units \in 1..Size
        /\ p.rem - units = Size - Contract!UnitsOf(hit)
        /\ hit \in SUBSET {1, 2} /\ Contract!InOrder(hit)
    BY <2>1, LevelUnits
  <2>3. p.last * units \in Nat \ {0}
    BY <1>0, <2>1, <2>2, Products
  <2>4. p.partial \in Nat
    BY <1>0 DEF Sound, RiskFree
  <2>5. static \in Int /\ p.static <= static /\ static <= 0
    BY <1>0
  <2>6. q = [p EXCEPT !.rem = p.rem - units, !.partial = p.partial + p.last * units,
                      !.hit = hit, !.active = TRUE, !.static = static]
    BY <1>2 DEF TookLevel
  <2> HIDE DEF units, static, hit, q
  <2>7. q \in PositionType
    <3>1. p.partial + p.last * units \in Int
      BY <2>3, <2>4
    <3>2. QED BY <1>0, <2>2, <2>5, <2>6, <3>1, UnitsUpdated, Zenon
  <2>8. /\ q.rem = p.rem - units /\ q.partial = p.partial + p.last * units
        /\ q.hit = hit /\ q.static = static
        /\ q.tp = p.tp /\ q.stop = p.stop /\ q.trail = p.trail /\ q.last = p.last
        /\ q.active
    BY <1>0, <2>6 DEF PositionType
  <2>9. static = 0
    BY <2>1 DEF static, Sound, RiskFree
  <2>10. Accounted(q)
    BY <1>2, <2>2, <2>8 DEF Sound, Accounted, hit
  <2>11. RiskFree(q)
    BY <2>3, <2>4, <2>8, <2>9 DEF Sound, RiskFree
  <2>12. StopCovered(q)
    BY <1>0, <2>5, <2>8 DEF Sound, StopCovered
  <2>13. Banked(p, q)
    BY <1>0, <2>2, <2>8 DEF Banked, hit
  <2>14. q.hit # {}
    BY <2>8 DEF hit
  <2>15. Sound(q)
    BY <2>5, <2>7, <2>8, <2>10, <2>11, <2>12, <2>14 DEF Sound
  <2>16. QED BY <2>8, <2>13, <2>15 DEF q
<1>3. QED BY <1>1, <1>2

LEMMA TookPartialsSound ==
  ASSUME NEW p, Sound(p)
  PROVE  /\ Sound(TookPartials(p)) /\ Banked(p, TookPartials(p))
         /\ TookPartials(p).stop = p.stop
<1> DEFINE q == TookLevel(p, 1)
           r == TookLevel(q, 2)
<1>1. Sound(q) /\ Banked(p, q) /\ q.stop = p.stop
  BY TookLevelSound
<1>2. ASSUME 2 < Len(q.tp), LevelReached(q, 2) PROVE 1 \in q.hit
  <2>1. q.tp = p.tp /\ q.hold = p.hold /\ q.last = p.last /\ p.tp \in Ladders
    BY DEF TookLevel, Sound, PositionType
  <2>2. p.tp[1] \in Nat /\ p.tp[2] \in Nat /\ p.tp[1] < p.tp[2] /\ 1 < Len(p.tp) /\ p.last \in Int
    BY <1>2, <2>1, LadderAssumption DEF Sound, PositionType
  <2>3. 1 \in p.hit \/ LevelReached(p, 1)
    BY <1>2, <2>1, <2>2 DEF LevelReached
  <2>4. QED BY <1>1, <2>2, <2>3 DEF TookLevel, Banked, Sound, PositionType
<1>3. Sound(r) /\ Banked(q, r) /\ r.stop = q.stop
  <2> HIDE DEF q
  <2>1. QED BY <1>1, <1>2, TookLevelSound
<1>4. TookPartials(p) = r
  BY DEF TookPartials
<1> HIDE DEF q, r
<1>5. Banked(p, r)
  <2>1. /\ p.rem \in Int /\ q.rem \in Int /\ r.rem \in Int /\ p.last \in Int
        /\ p.partial \in Int
    BY <1>1, <1>3 DEF Sound, PositionType
  <2>2. p.last * (p.rem - r.rem) = p.last * (p.rem - q.rem) + p.last * (q.rem - r.rem)
    BY <2>1, Products
  <2>3. /\ p.last * (p.rem - q.rem) \in Int /\ p.last * (q.rem - r.rem) \in Int
    BY <2>1, Products
  <2>4. QED BY <1>1, <1>3, <2>1, <2>2, <2>3 DEF Banked
<1>6. QED BY <1>1, <1>3, <1>4, <1>5

=============================================================================
