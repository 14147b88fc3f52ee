-------------------------- MODULE PaperEngineProofs --------------------------
(***************************************************************************)
(* Safety of the paper engine for every set of symbols, prices and plans.  *)
(*                                                                         *)
(* The positions, the balance and the trade log only change in three ways: *)
(* a position is opened, managed or closed.  StepsOnTheBook shows it, one  *)
(* step per action; every property of the book then follows from the three *)
(* cases.                                                                  *)
(***************************************************************************)
EXTENDS PaperPositionProofs, FiniteSetTheorems

\* q is what became of the position of s, its closed units banked.
Result(s, q) ==
  /\ Sound(q)
  /\ pos[s].hit \subseteq q.hit /\ q.stop >= pos[s].stop
  /\ q.partial = pos[s].partial + q.last * (pos[s].rem - q.rem)

Opened(s) ==
  /\ pos[s] = None /\ Cardinality(Open) < MaxOpen
  /\ \E p : /\ Sound(p) /\ p.partial = 0 /\ p.stop < 0 /\ p.rem = Size /\ p.hit = {}
            /\ pos' = [pos EXCEPT ![s] = p]
  /\ UNCHANGED <<booked, reported>>

Managed(s) == pos[s] # None /\ \E q : Result(s, q) /\ Settle(s, q)

Closed(s) == pos[s] # None /\ \E q : Result(s, q) /\ Finish(s, q)

BookStep == \/ UNCHANGED <<pos, booked, reported>>
            \/ \E s \in Symbols : Opened(s) \/ Managed(s) \/ Closed(s)

\* How far the running call and the cycle have come.
PhaseInv ==
  /\ phase = "pending" => todo \subseteq Pending
  /\ phase = "update" => todo \subseteq Open
  /\ phase = "open" => todo \subseteq Raised(batch)
  /\ stage = "monitor" => phase = "idle"

\* The decisions of the monitor are about positions of the scan.
WatchInv ==
  /\ stage = "scan" => renewed = {}
  /\ stage = "agent" /\ phase \in {"idle", "pending"} => watch \subseteq Open
  /\ stage = "agent" /\ phase # "open" => watch \intersect renewed = {}
  /\ \A s \in watch \intersect renewed : pos[s] # None => pos[s].last = 0

TrackedInv ==
  stage = "scan" /\ phase # "idle" => \A s \in tracked : batch[s] \in {None, Track}

BookInv ==
  /\ \A s \in Open : Sound(pos[s])
  /\ BooksBalance
  /\ CapacityRespected

IInv == TypeOK /\ BookInv /\ PhaseInv /\ WatchInv /\ TrackedInv

-----------------------------------------------------------------------------
(* What a step does to the book *)

LEMMA BookTypes ==
  ASSUME IInv, NEW s \in Symbols, pos[s] # None
  PROVE  /\ s \in Open /\ Sound(pos[s]) /\ pos[s] \in PositionType
         /\ pos[s].rem \in Int /\ pos[s].partial \in Int /\ pos[s].last \in Int
         /\ pos[s].stop \in Int /\ pos[s].entry \in Int
BY DEF IInv, BookInv, Open, Sound, PositionType

LEMMA UnchangedResult ==
  ASSUME IInv, NEW s \in Symbols, pos[s] # None, NEW q, Sound(q),
         q.rem = pos[s].rem, q.partial = pos[s].partial, q.hit = pos[s].hit,
         q.stop >= pos[s].stop
  PROVE  Result(s, q)
<1>1. q.last \in Int /\ pos[s].rem \in Int /\ pos[s].partial \in Int
  BY BookTypes DEF Sound, PositionType
<1>2. q.last * (pos[s].rem - pos[s].rem) = 0
  BY <1>1, Products
<1>3. QED BY <1>1, <1>2 DEF Result

LEMMA PricesAreIntegers ==
  \A c \in Prices : c \in Int
<1>1. \A c \in Prices : c \in Nat
  BY PriceAssumption, Zenon
<1>2. QED BY <1>1

LEMMA MarkIsPrice ==
  ASSUME TypeOK, NEW s \in Symbols
  PROVE  Mark(s) \in Int
<1>1. price[s] \in Int
  BY PricesAreIntegers DEF TypeOK
<1>2. ASSUME HasEntry(s) PROVE batch[s].current \in Int /\ batch[s].plan.entry \in Int
  <2>1. batch[s] \in SignalType
    BY <1>2 DEF TypeOK, HasEntry
  <2>2. batch[s].current \in Int /\ batch[s].plan \in PlanType
    BY <2>1, PlanAssumption DEF SignalType
  <2>3. QED BY <2>2 DEF PlanType
<1>3. QED BY <1>1, <1>2 DEF Mark

\* One tick manages or closes the position; it never leaves it unsound.
LEMMA UpdateOutcome ==
  ASSUME IInv, NEW s \in Symbols, UpdatePosition(s)
  PROVE  Managed(s) \/ Closed(s)
<1> DEFINE old == pos[s]
           p == Marked(old, Gain(old.side, old.entry, Mark(s)))
<1>1. pos[s] # None
  BY DEF UpdatePosition, Visit, IInv, PhaseInv, Open
<1>2. Sound(old) /\ Gain(old.side, old.entry, Mark(s)) \in Int
  BY <1>1, BookTypes, MarkIsPrice DEF IInv, Gain
<1>3. Sound(p) /\ p.rem = old.rem /\ p.partial = old.partial /\ p.hit = old.hit /\ p.stop = old.stop
  BY <1>2, MarkedSound
<1>4. (IF auto THEN ManageAuto(s, p) ELSE ManageLegacy(s, p))
  BY DEF UpdatePosition
<1>5. old.stop \in Int /\ old.rem \in Int /\ old.partial \in Int
  BY <1>1, BookTypes
<1> HIDE DEF p
<1>6. CASE ManageLegacy(s, p)
  <2>1. Result(s, p)
    BY <1>1, <1>3, <1>5, UnchangedResult
  <2>2. Settle(s, p) \/ Finish(s, p)
    BY <1>6 DEF ManageLegacy
  <2>3. QED BY <1>1, <2>1, <2>2 DEF Managed, Closed
<1>7. CASE ManageAuto(s, p)
  <2> DEFINE h == HoldBreakEven(p)
             a == Activated(h)
             c == Trailed(a)
  <2>1. /\ Sound(c) /\ SameUnits(p, c) /\ c.stop = p.stop
        /\ c.hit # {} => c.trail # None
    <3>1. Sound(h) /\ SameUnits(p, h) /\ h.stop = p.stop
      BY <1>3, HoldBreakEvenSound
    <3> HIDE DEF h
    <3>2. Sound(a) /\ SameUnits(h, a) /\ a.stop = h.stop
      BY <3>1, ActivatedSound
    <3> HIDE DEF a
    <3>3. Sound(c) /\ SameUnits(a, c) /\ c.stop = a.stop /\ (a.hit # {} => c.trail # None)
      BY <3>2, TrailedSound
    <3>4. QED BY <3>1, <3>2, <3>3 DEF SameUnits
  <2>2. PICK q \in AcrOutcomes(c) :
          \/ Finish(s, q)
          \/ LET r == Restopped(q)
                 t == TookPartials(r)
             IN  IF StopHit(r) THEN Finish(s, r)
                 ELSE IF LevelReached(t, Len(t.tp)) THEN Finish(s, t)
                 ELSE Settle(s, t)
    BY <1>7 DEF ManageAuto
  <2> HIDE DEF c
  <2>3. Sound(q) /\ SameUnits(c, q) /\ q.stop = c.stop
    BY <2>1, AcrOutcomesSound
  <2> DEFINE r == Restopped(q)
             t == TookPartials(r)
  <2>4. Sound(r) /\ SameUnits(q, r) /\ r.stop >= q.stop
    BY <2>3, RestoppedSound
  <2>5. Finish(s, q) \/ Finish(s, r) \/ Finish(s, t) \/ Settle(s, t)
    BY <2>2
  <2> HIDE DEF r
  <2>6. Sound(t) /\ Banked(r, t) /\ t.stop = r.stop
    BY <2>4, TookPartialsSound
  <2> HIDE DEF t
  <2>7. /\ q.rem = old.rem /\ q.partial = old.partial /\ q.hit = old.hit /\ q.stop = old.stop
        /\ r.rem = old.rem /\ r.partial = old.partial /\ r.hit = old.hit /\ r.stop >= old.stop
    BY <1>3, <2>1, <2>3, <2>4 DEF SameUnits
  <2>8. Result(s, q) /\ Result(s, r)
    BY <1>1, <1>5, <2>3, <2>4, <2>7, UnchangedResult
  <2>9. Result(s, t)
    <3>1. t.last = r.last
      BY <2>6 DEF Banked
    <3>2. QED BY <2>6, <2>7, <3>1 DEF Result, Banked
  <2>10. QED BY <1>1, <2>5, <2>8, <2>9 DEF Managed, Closed
<1>8. QED BY <1>4, <1>6, <1>7

LEMMA OpenOutcome ==
  ASSUME IInv, NEW s \in Symbols, NEW plan \in Plans, NEW entry \in Int,
         TryOpen(s, plan, entry), UNCHANGED <<booked, reported>>
  PROVE  \/ pos' = pos /\ renewed' = renewed
         \/ /\ Opened(s) /\ pos[s] = None /\ pos'[s].last = 0
            /\ pos' = [pos EXCEPT ![s] = pos'[s]]
            /\ renewed' = IF stage = "agent" THEN renewed \union {s} ELSE renewed
<1>1. CASE ~MayOpen(s, plan)
  BY <1>1 DEF TryOpen
<1>2. CASE MayOpen(s, plan)
  <2> DEFINE p == NewPosition(plan, entry)
  <2>1. Sound(p) /\ p.partial = 0 /\ p.stop < 0 /\ p.rem = Size /\ p.hit = {} /\ p.last = 0
    BY <1>2, NewPositionSound DEF MayOpen, NewPosition
  <2>2. /\ pos' = [pos EXCEPT ![s] = p] /\ pos[s] = None
        /\ renewed' = IF stage = "agent" THEN renewed \union {s} ELSE renewed
        /\ Cardinality(Open) < MaxOpen
    BY <1>2 DEF TryOpen, MayOpen
  <2>3. pos'[s] = p
    BY <2>2 DEF IInv, TypeOK
  <2> HIDE DEF p
  <2>4. QED BY <2>1, <2>2, <2>3 DEF Opened
<1>3. QED BY <1>1, <1>2

\* A flag of an open position changes; its units, its money and its stops do not.
LEMMA FlagOutcome ==
  ASSUME IInv, NEW s \in Symbols, pos[s] # None, NEW b \in BOOLEAN,
         \/ pos' = [pos EXCEPT ![s].hold = b]
         \/ pos' = [pos EXCEPT ![s].fresh = b],
         UNCHANGED <<booked, reported>>
  PROVE  Managed(s)
<1> DEFINE q == pos'[s]
<1>1. pos[s] \in PositionType /\ Sound(pos[s])
  BY BookTypes
<1>2. q = [pos[s] EXCEPT !.hold = b] \/ q = [pos[s] EXCEPT !.fresh = b]
  BY DEF IInv, TypeOK
<1>3. pos' = [pos EXCEPT ![s] = q]
  BY DEF IInv, TypeOK
<1> HIDE DEF q
<1>4. /\ q \in PositionType
      /\ q.rem = pos[s].rem /\ q.partial = pos[s].partial /\ q.hit = pos[s].hit
      /\ q.tp = pos[s].tp /\ q.stop = pos[s].stop /\ q.static = pos[s].static
      /\ q.active = pos[s].active /\ q.trail = pos[s].trail
  BY <1>1, <1>2 DEF PositionType
<1>5. Sound(q)
  BY <1>1, <1>4 DEF Sound, Accounted, RiskFree, StopCovered
<1>6. Result(s, q)
  <2>1. q.stop >= pos[s].stop
    BY <1>1, <1>4 DEF PositionType
  <2>2. QED BY <1>4, <1>5, <2>1, UnchangedResult
<1>7. Settle(s, q)
  <2>1. q.last * (pos[s].rem - q.rem) = 0
    <3>1. q.last \in Int /\ pos[s].rem \in Int
      BY <1>1, <1>4 DEF PositionType
    <3>2. QED BY <1>4, <3>1, Products
  <2>2. booked' = [booked EXCEPT ![s] = @ + q.last * (pos[s].rem - q.rem)]
    <3>1. booked[s] + 0 = booked[s] /\ booked = [booked EXCEPT ![s] = booked[s]]
      BY DEF IInv, TypeOK
    <3>2. QED BY <2>1, <3>1
  <2>3. QED BY <1>3, <2>2 DEF Settle
<1>8. QED BY <1>6, <1>7 DEF Managed

LEMMA OrderPlans ==
  ASSUME TypeOK, NEW s \in Symbols
  PROVE  /\ pend[s] # None => pend[s].plan \in Plans /\ pend[s].plan.entry \in Int
         /\ HasEntry(s) => /\ batch[s].plan \in Plans /\ batch[s].plan.entry \in Int
                           /\ batch[s].current \in Int
<1>1. \A plan \in Plans : plan.entry \in Int
  BY PlanAssumption DEF PlanType
<1>2. pend[s] # None => pend[s] \in OrderType
  BY DEF TypeOK
<1>3. HasEntry(s) => batch[s] \in SignalType
  BY DEF TypeOK, HasEntry
<1>4. QED BY <1>1, <1>2, <1>3 DEF OrderType, SignalType

LEMMA FillOutcome ==
  ASSUME IInv, NEW s \in Symbols, FillOrder(s)
  PROVE  \/ pos' = pos /\ renewed' = renewed
         \/ /\ Opened(s) /\ pos[s] = None /\ pos'[s].last = 0
            /\ pos' = [pos EXCEPT ![s] = pos'[s]]
            /\ renewed' = IF stage = "agent" THEN renewed \union {s} ELSE renewed
<1>1. pend[s] # None
  BY DEF FillOrder, Visit, IInv, PhaseInv, Pending
<1>2. pend[s].plan \in Plans /\ pend[s].plan.entry \in Int
  BY <1>1, OrderPlans DEF IInv
<1>3. TryOpen(s, pend[s].plan, pend[s].plan.entry) /\ UNCHANGED <<booked, reported>>
  BY DEF FillOrder
<1>4. QED BY <1>2, <1>3, OpenOutcome

LEMMA EntryOutcome ==
  ASSUME IInv, NEW s \in Symbols, OpenPosition(s)
  PROVE  \/ pos' = pos /\ renewed' = renewed
         \/ /\ Opened(s) /\ pos[s] = None /\ pos'[s].last = 0
            /\ pos' = [pos EXCEPT ![s] = pos'[s]]
            /\ renewed' = IF stage = "agent" THEN renewed \union {s} ELSE renewed
<1>1. HasEntry(s)
  BY DEF OpenPosition, Visit, IInv, PhaseInv, Raised, HasEntry
<1> DEFINE plan == batch[s].plan
           entry == IF plan.mode = "LIMIT" THEN plan.entry ELSE batch[s].current
<1>2. plan \in Plans /\ entry \in Int
  BY <1>1, OrderPlans DEF IInv
<1>3. UNCHANGED <<pos, renewed>> \/ TryOpen(s, plan, entry)
  BY DEF OpenPosition
<1>4. UNCHANGED <<booked, reported>>
  BY DEF OpenPosition
<1> HIDE DEF plan, entry
<1>5. QED BY <1>2, <1>3, <1>4, OpenOutcome

LEMMA ExitOutcome ==
  ASSUME IInv, NEW s \in Symbols, NEW urgency, MonitorExit(s, urgency)
  PROVE  UNCHANGED <<pos, booked, reported>> \/ Closed(s)
<1>1. CASE pos[s] # None /\ Finish(s, pos[s])
  <2>1. pos[s].stop >= pos[s].stop /\ Sound(pos[s])
    BY <1>1, BookTypes
  <2>2. Result(s, pos[s])
    BY <1>1, <2>1, UnchangedResult
  <2>3. QED BY <1>1, <2>2 DEF Closed
<1>2. QED BY <1>1 DEF MonitorExit

LEMMA StepsOnTheBook ==
  ASSUME IInv, [Next]_vars
  PROVE  BookStep
<1>1. CASE UNCHANGED vars
  BY <1>1 DEF vars, book, BookStep
<1>2. ASSUME NEW s \in Symbols, CancelOrder(s) \/ KeepOrder(s) PROVE BookStep
  BY <1>2 DEF CancelOrder, KeepOrder, book, BookStep
<1>3. ASSUME NEW s \in Symbols, FillOrder(s) PROVE BookStep
  BY <1>3, FillOutcome DEF FillOrder, BookStep
<1>4. ASSUME NEW s \in Symbols, UpdatePosition(s) PROVE BookStep
  BY <1>4, UpdateOutcome DEF BookStep
<1>5. ASSUME NEW s \in Symbols, OpenPosition(s) PROVE BookStep
  BY <1>5, EntryOutcome DEF OpenPosition, BookStep
<1>6. ASSUME NEW s \in Symbols, NEW b \in BOOLEAN, MonitorHold(s, b) PROVE BookStep
  <2>1. CASE pos[s] = None
    BY <1>6, <2>1 DEF MonitorHold, BookStep
  <2>2. CASE pos[s] # None
    <3>1. pos' = [pos EXCEPT ![s].hold = b] /\ UNCHANGED <<booked, reported>>
      BY <1>6, <2>2 DEF MonitorHold
    <3>2. QED BY <2>2, <3>1, FlagOutcome DEF BookStep
  <2>3. QED BY <2>1, <2>2
<1>7. ASSUME NEW s \in Symbols, NEW u \in {"IMMEDIATE", "NEXT_CANDLE"}, MonitorExit(s, u)
      PROVE BookStep
  BY <1>7, ExitOutcome DEF BookStep
<1>8. ASSUME NEW s \in Symbols, MinHoldPasses(s) PROVE BookStep
  <2>1. pos[s] # None /\ pos' = [pos EXCEPT ![s].fresh = FALSE] /\ UNCHANGED <<booked, reported>>
    BY <1>8 DEF MinHoldPasses
  <2>2. FALSE \in BOOLEAN
    OBVIOUS
  <2>3. Managed(s)
    BY <2>1, <2>2, FlagOutcome
  <2>4. QED BY <2>3 DEF BookStep
<1>9. ASSUME NEW s \in Symbols, TtlPasses(s) \/ \E p \in Prices : Tick(s, p) PROVE BookStep
  BY <1>9 DEF TtlPasses, Tick, book, BookStep
<1>10. ASSUME \/ StartScan \/ ToUpdate \/ ToOpen \/ Save \/ StartAgent \/ NoAgentEntries
              \/ EndCycle \/ Restart
       PROVE  BookStep
  BY <1>10 DEF StartScan, ToUpdate, ToOpen, Save, StartAgent, NoAgentEntries, EndCycle,
     Restart, book, BookStep
<1>11. QED
  BY <1>1, <1>2, <1>3, <1>4, <1>5, <1>6, <1>7, <1>8, <1>9, <1>10
     DEF Next, Cycle, Engine, Monitor, Environment

-----------------------------------------------------------------------------
(* What the three cases of BookStep leave behind *)

\* The primed book of the symbol that moved, field by field.
LEMMA BookMoves ==
  ASSUME IInv, BookStep
  PROVE  \/ UNCHANGED <<pos, booked, reported>>
         \/ \E s \in Symbols :
              /\ \/ /\ pos[s] = None /\ Sound(pos'[s]) /\ pos'[s].partial = 0
                    /\ pos'[s].stop < 0 /\ pos'[s].rem = Size /\ pos'[s].hit = {}
                    /\ Cardinality(Open) < MaxOpen
                    /\ booked' = booked /\ reported' = reported
                 \/ /\ pos[s] # None /\ Result(s, pos'[s])
                    /\ booked' = [booked EXCEPT ![s] =
                                    @ + pos'[s].last * (pos[s].rem - pos'[s].rem)]
                    /\ reported' = reported
                 \/ /\ pos[s] # None /\ pos'[s] = None
                    /\ \E q : /\ Result(s, q)
                              /\ booked' = [booked EXCEPT ![s] = @ + q.last * pos[s].rem]
                              /\ reported' = [reported EXCEPT ![s] =
                                                @ + q.partial + q.last * q.rem]
              /\ pos' = [pos EXCEPT ![s] = pos'[s]]
<1>1. ASSUME NEW s \in Symbols, NEW q, pos' = [pos EXCEPT ![s] = q]
      PROVE  pos'[s] = q /\ pos' = [pos EXCEPT ![s] = pos'[s]]
  BY <1>1 DEF IInv, TypeOK
<1>2. ASSUME NEW s \in Symbols, Opened(s)
      PROVE  /\ pos[s] = None /\ Sound(pos'[s]) /\ pos'[s].partial = 0
             /\ pos'[s].stop < 0 /\ pos'[s].rem = Size /\ pos'[s].hit = {}
             /\ Cardinality(Open) < MaxOpen
             /\ booked' = booked /\ reported' = reported
             /\ pos' = [pos EXCEPT ![s] = pos'[s]]
  <2>1. PICK p : /\ Sound(p) /\ p.partial = 0 /\ p.stop < 0 /\ p.rem = Size /\ p.hit = {}
                 /\ pos' = [pos EXCEPT ![s] = p]
    BY <1>2 DEF Opened
  <2>2. pos'[s] = p /\ pos' = [pos EXCEPT ![s] = pos'[s]]
    BY <1>1, <2>1
  <2>3. QED BY <1>2, <2>1, <2>2 DEF Opened
<1>3. ASSUME NEW s \in Symbols, Managed(s)
      PROVE  /\ pos[s] # None /\ Result(s, pos'[s])
             /\ booked' = [booked EXCEPT ![s] =
                             @ + pos'[s].last * (pos[s].rem - pos'[s].rem)]
             /\ reported' = reported
             /\ pos' = [pos EXCEPT ![s] = pos'[s]]
  <2>1. PICK q : Result(s, q) /\ Settle(s, q)
    BY <1>3 DEF Managed
  <2>2. pos'[s] = q /\ pos' = [pos EXCEPT ![s] = pos'[s]]
    BY <1>1, <2>1 DEF Settle
  <2>3. QED BY <1>3, <2>1, <2>2 DEF Managed, Settle
<1>4. ASSUME NEW s \in Symbols, Closed(s)
      PROVE  /\ pos[s] # None /\ pos'[s] = None
             /\ \E q : /\ Result(s, q)
                       /\ booked' = [booked EXCEPT ![s] = @ + q.last * pos[s].rem]
                       /\ reported' = [reported EXCEPT ![s] = @ + q.partial + q.last * q.rem]
             /\ pos' = [pos EXCEPT ![s] = pos'[s]]
  <2>1. PICK q : Result(s, q) /\ Finish(s, q)
    BY <1>4 DEF Closed
  <2>2. pos'[s] = None /\ pos' = [pos EXCEPT ![s] = pos'[s]]
    BY <1>1, <2>1 DEF Finish
  <2>3. QED BY <1>4, <2>1, <2>2 DEF Closed, Finish
<1>5. QED BY <1>2, <1>3, <1>4 DEF BookStep

LEMMA SoundIsPosition ==
  ASSUME NEW q, Sound(q)
  PROVE  /\ q \in PositionType /\ q # None
         /\ q.rem \in 1..Size /\ q.partial \in Int /\ q.last \in Int /\ q.stop \in Int
BY NoneAssumption DEF Sound, PositionType

LEMMA BookTyped ==
  ASSUME IInv, BookStep
  PROVE  /\ pos' \in [Symbols -> PositionType \union {None}]
         /\ booked' \in [Symbols -> Int] /\ reported' \in [Symbols -> Int]
         /\ \A s \in Symbols : pos'[s] # None => Sound(pos'[s])
<1>1. /\ pos \in [Symbols -> PositionType \union {None}]
      /\ booked \in [Symbols -> Int] /\ reported \in [Symbols -> Int]
      /\ \A s \in Symbols : pos[s] # None => Sound(pos[s])
  BY DEF IInv, TypeOK, BookInv, Open
<1>2. CASE UNCHANGED <<pos, booked, reported>>
  BY <1>1, <1>2
<1>3. ASSUME NEW s \in Symbols, pos' = [pos EXCEPT ![s] = pos'[s]],
             pos'[s] = None \/ Sound(pos'[s])
      PROVE  /\ pos' \in [Symbols -> PositionType \union {None}]
             /\ \A z \in Symbols : pos'[z] # None => Sound(pos'[z])
  <2>1. pos'[s] \in PositionType \union {None}
    BY <1>3, SoundIsPosition
  <2>2. QED BY <1>1, <1>3, <2>1
<1>4. ASSUME NEW s \in Symbols, pos[s] # None, NEW q, Result(s, q)
      PROVE  /\ booked[s] + q.last * (pos[s].rem - q.rem) \in Int
             /\ booked[s] + q.last * pos[s].rem \in Int
             /\ reported[s] + q.partial + q.last * q.rem \in Int
  <2>1. /\ q.last \in Int /\ q.rem \in Int /\ q.partial \in Int
        /\ pos[s].rem \in Int /\ booked[s] \in Int /\ reported[s] \in Int
    BY <1>1, <1>4, SoundIsPosition, SizeAssumption DEF Result
  <2> DEFINE a == q.last * (pos[s].rem - q.rem)
             b == q.last * pos[s].rem
             c == q.last * q.rem
  <2>2. a \in Int /\ b \in Int /\ c \in Int
    BY <2>1, Products
  <2> HIDE DEF a, b, c
  <2>3. booked[s] + a \in Int /\ booked[s] + b \in Int /\ reported[s] + q.partial + c \in Int
    BY <2>1, <2>2
  <2>4. QED BY <2>3 DEF a, b, c
<1>5. CASE \E s \in Symbols :
              /\ \/ /\ pos[s] = None /\ Sound(pos'[s])
                    /\ booked' = booked /\ reported' = reported
                 \/ /\ pos[s] # None /\ Result(s, pos'[s])
                    /\ booked' = [booked EXCEPT ![s] =
                                    @ + pos'[s].last * (pos[s].rem - pos'[s].rem)]
                    /\ reported' = reported
                 \/ /\ pos[s] # None /\ pos'[s] = None
                    /\ \E q : /\ Result(s, q)
                              /\ booked' = [booked EXCEPT ![s] = @ + q.last * pos[s].rem]
                              /\ reported' = [reported EXCEPT ![s] =
                                                @ + q.partial + q.last * q.rem]
              /\ pos' = [pos EXCEPT ![s] = pos'[s]]
  BY <1>1, <1>3, <1>4, <1>5 DEF Result
<1>6. QED BY <1>2, <1>5, BookMoves

LEMMA BooksStayBalanced ==
  ASSUME IInv, BookStep
  PROVE  BooksBalance'
<1>1. /\ pos \in [Symbols -> PositionType \union {None}]
      /\ booked \in [Symbols -> Int] /\ reported \in [Symbols -> Int]
      /\ \A s \in Symbols : booked[s] = reported[s] + IF pos[s] = None THEN 0 ELSE pos[s].partial
  BY DEF IInv, TypeOK, BookInv, BooksBalance
<1>2. CASE UNCHANGED <<pos, booked, reported>>
  BY <1>1, <1>2 DEF BooksBalance
<1>3. ASSUME NEW s \in Symbols, pos' = [pos EXCEPT ![s] = pos'[s]],
             \A z \in Symbols \ {s} : booked'[z] = booked[z] /\ reported'[z] = reported[z],
             booked'[s] = reported'[s] + IF pos'[s] = None THEN 0 ELSE pos'[s].partial
      PROVE  BooksBalance'
  <2>1. \A z \in Symbols \ {s} : pos'[z] = pos[z]
    BY <1>1, <1>3
  <2>2. QED BY <1>1, <1>3, <2>1 DEF BooksBalance
<1>4. ASSUME NEW s \in Symbols, pos[s] = None, Sound(pos'[s]), pos'[s].partial = 0,
             booked' = booked, reported' = reported, pos' = [pos EXCEPT ![s] = pos'[s]]
      PROVE  BooksBalance'
  BY <1>1, <1>3, <1>4
<1>5. ASSUME NEW s \in Symbols, pos[s] # None, NEW q, Result(s, q)
      PROVE  /\ booked[s] + q.last * (pos[s].rem - q.rem) = reported[s] + q.partial
             /\ booked[s] + q.last * pos[s].rem = reported[s] + q.partial + q.last * q.rem
  <2>1. /\ q.last \in Int /\ q.rem \in Int /\ q.partial \in Int /\ pos[s].partial \in Int
        /\ pos[s].rem \in Int /\ booked[s] \in Int /\ reported[s] \in Int
    BY <1>1, <1>5, SoundIsPosition, BookTypes, SizeAssumption DEF Result
  <2> DEFINE a == q.last * (pos[s].rem - q.rem)
             b == q.last * pos[s].rem
             c == q.last * q.rem
  <2>2. a \in Int /\ b \in Int /\ c \in Int /\ a = b - c
    BY <2>1, Products
  <2>3. q.partial = pos[s].partial + a /\ booked[s] = reported[s] + pos[s].partial
    BY <1>1, <1>5 DEF Result
  <2> HIDE DEF a, b, c
  <2>4. booked[s] + a = reported[s] + q.partial /\ booked[s] + b = reported[s] + q.partial + c
    BY <2>1, <2>2, <2>3
  <2>5. QED BY <2>4 DEF a, b, c
<1>6. ASSUME NEW s \in Symbols, pos[s] # None, Result(s, pos'[s]),
             booked' = [booked EXCEPT ![s] = @ + pos'[s].last * (pos[s].rem - pos'[s].rem)],
             reported' = reported, pos' = [pos EXCEPT ![s] = pos'[s]]
      PROVE  BooksBalance'
  <2>1. pos'[s] # None
    BY <1>6, SoundIsPosition DEF Result
  <2>2. booked'[s] = booked[s] + pos'[s].last * (pos[s].rem - pos'[s].rem)
        /\ \A z \in Symbols \ {s} : booked'[z] = booked[z]
    BY <1>1, <1>6
  <2>3. QED BY <1>3, <1>5, <1>6, <2>1, <2>2
<1>7. ASSUME NEW s \in Symbols, pos[s] # None, pos'[s] = None, NEW q, Result(s, q),
             booked' = [booked EXCEPT ![s] = @ + q.last * pos[s].rem],
             reported' = [reported EXCEPT ![s] = @ + q.partial + q.last * q.rem],
             pos' = [pos EXCEPT ![s] = pos'[s]]
      PROVE  BooksBalance'
  <2>1. /\ booked'[s] = booked[s] + q.last * pos[s].rem
        /\ reported'[s] = reported[s] + q.partial + q.last * q.rem
        /\ \A z \in Symbols \ {s} : booked'[z] = booked[z] /\ reported'[z] = reported[z]
    BY <1>1, <1>7
  <2>2. reported'[s] \in Int
    BY BookTyped
  <2>3. booked'[s] = reported'[s] + 0
    BY <1>5, <1>7, <2>1, <2>2
  <2>4. QED BY <1>3, <1>7, <2>1, <2>3
<1>8. QED BY <1>2, <1>4, <1>6, <1>7, BookMoves

LEMMA OpenIsFinite ==
  /\ IsFiniteSet(Open) /\ Cardinality(Open) \in Nat
  /\ \A b : IsFiniteSet(Raised(b)) /\ Cardinality(Raised(b)) \in Nat
<1>1. \A S \in SUBSET Symbols : IsFiniteSet(S) /\ Cardinality(S) \in Nat
  BY SymbolsAssumption, FS_Subset, FS_CardinalityType
<1>2. QED BY <1>1 DEF Open, Raised

LEMMA CapacityStays ==
  ASSUME IInv, BookStep
  PROVE  CapacityRespected'
<1>1. Cardinality(Open) <= MaxOpen /\ Cardinality(Open) \in Nat /\ IsFiniteSet(Open)
  BY OpenIsFinite DEF IInv, BookInv, CapacityRespected
<1>2. pos \in [Symbols -> PositionType \union {None}] /\ MaxOpen \in Nat
  BY ConfigAssumption DEF IInv, TypeOK
<1>3. CASE UNCHANGED <<pos, booked, reported>>
  BY <1>1, <1>3 DEF CapacityRespected, Open
<1>4. ASSUME NEW s \in Symbols, Cardinality(Open) < MaxOpen, pos' = [pos EXCEPT ![s] = pos'[s]]
      PROVE  CapacityRespected'
  <2>1. Open' \in SUBSET (Open \union {s})
    BY <1>2, <1>4 DEF Open
  <2>2. /\ IsFiniteSet(Open \union {s}) /\ Cardinality(Open \union {s}) \in Nat
        /\ Cardinality(Open \union {s}) <= Cardinality(Open) + 1
    <3>1. /\ IsFiniteSet(Open \union {s})
          /\ Cardinality(Open \union {s}) =
               IF s \in Open THEN Cardinality(Open) ELSE Cardinality(Open) + 1
      BY <1>1, FS_AddElement, Zenon
    <3>2. Cardinality(Open \union {s}) \in Nat
      BY <3>1, FS_CardinalityType
    <3>3. QED BY <1>1, <3>1, <3>2
  <2>3. Cardinality(Open') <= Cardinality(Open \union {s}) /\ Cardinality(Open') \in Nat
    BY <2>1, <2>2, FS_Subset, FS_CardinalityType
  <2>4. QED BY <1>1, <1>2, <1>4, <2>2, <2>3 DEF CapacityRespected
<1>5. ASSUME NEW s \in Symbols, pos[s] # None, pos' = [pos EXCEPT ![s] = pos'[s]]
      PROVE  CapacityRespected'
  <2>1. Open' \in SUBSET Open
    BY <1>2, <1>5 DEF Open
  <2>2. Cardinality(Open') <= Cardinality(Open) /\ Cardinality(Open') \in Nat
    BY <1>1, <2>1, FS_Subset, FS_CardinalityType
  <2>3. QED BY <1>1, <1>2, <2>2 DEF CapacityRespected
<1>6. QED BY <1>3, <1>4, <1>5, BookMoves

LEMMA BookInvStays ==
  ASSUME IInv, BookStep
  PROVE  BookInv'
<1>1. \A s \in Open' : Sound(pos'[s])
  BY BookTyped DEF Open
<1>2. QED BY <1>1, BooksStayBalanced, CapacityStays DEF BookInv

-----------------------------------------------------------------------------
(* What a step leaves of the running call and of the cycle *)

LEMMA OneSymbolMoves ==
  ASSUME IInv, NEW s \in Symbols, Managed(s) \/ Closed(s)
  PROVE  \A z \in Symbols \ {s} : pos'[z] = pos[z]
<1>1. ASSUME NEW q, pos' = [pos EXCEPT ![s] = q]
      PROVE  \A z \in Symbols \ {s} : pos'[z] = pos[z]
  BY <1>1 DEF IInv, TypeOK
<1>2. QED BY <1>1 DEF Managed, Closed, Settle, Finish

\* The symbols a phase has still to visit were chosen among those it is about.
LEMMA PhaseInvStays ==
  ASSUME IInv, Next
  PROVE  PhaseInv'
<1> USE DEF PhaseInv, Pending, Open
<1>1. PhaseInv /\ TypeOK
  BY DEF IInv
<1>2. ASSUME StartScan \/ StartAgent PROVE PhaseInv'
  BY <1>1, <1>2 DEF StartScan, StartAgent, Call, book
<1>3. ASSUME NEW s \in Symbols, CancelOrder(s) \/ KeepOrder(s) \/ FillOrder(s) PROVE PhaseInv'
  BY <1>1, <1>3 DEF CancelOrder, KeepOrder, FillOrder, Visit, book, TypeOK
<1>4. ASSUME NEW s \in Symbols, UpdatePosition(s) PROVE PhaseInv'
  <2>1. /\ phase = "update" /\ phase' = "update" /\ todo' = todo \ {s}
        /\ stage' = stage
    BY <1>4 DEF UpdatePosition, Visit
  <2>2. \A z \in Symbols \ {s} : pos'[z] = pos[z]
    BY <1>4, UpdateOutcome, OneSymbolMoves
  <2>3. \A z \in todo \ {s} : z \in Open'
    BY <1>1, <2>1, <2>2
  <2>4. QED BY <1>1, <2>1, <2>3
<1>5. ASSUME NEW s \in Symbols, OpenPosition(s) PROVE PhaseInv'
  BY <1>1, <1>5 DEF OpenPosition, Visit, Raised
<1>6. ASSUME ToUpdate \/ ToOpen \/ Save \/ NoAgentEntries \/ EndCycle \/ Restart PROVE PhaseInv'
  BY <1>1, <1>6 DEF ToUpdate, ToOpen, Save, NoAgentEntries, EndCycle, Restart, book, Raised
<1>7. ASSUME NEW s \in Symbols, NEW b, MonitorHold(s, b) \/ MonitorExit(s, b) PROVE PhaseInv'
  BY <1>1, <1>7 DEF MonitorHold, MonitorExit, Decided
<1>8. ASSUME NEW s \in Symbols, MinHoldPasses(s) \/ TtlPasses(s) \/ \E p \in Prices : Tick(s, p)
      PROVE  PhaseInv'
  BY <1>1, <1>8 DEF MinHoldPasses, TtlPasses, Tick, control, book
<1>9. QED
  BY <1>2, <1>3, <1>4, <1>5, <1>6, <1>7, <1>8
     DEF Next, Cycle, Engine, Monitor, Environment

\* Positions leave between the scan and the monitor only inside the agents' call;
\* what it opens instead is marked renewed and has not seen a tick.
LEMMA WatchInvStays ==
  ASSUME IInv, Next
  PROVE  WatchInv'
<1>1. WatchInv /\ PhaseInv /\ TypeOK
  BY DEF IInv
<1>2. ASSUME NEW s \in Symbols, NEW b, MonitorHold(s, b) \/ MonitorExit(s, b) PROVE WatchInv'
  <2>1. /\ stage = "monitor" /\ stage' = "monitor" /\ watch' = watch \ {s} /\ renewed' = renewed
    BY <1>2 DEF MonitorHold, MonitorExit, Decided
  <2>2. \A z \in Symbols \ {s} : pos'[z] = pos[z]
    BY <1>1, <1>2 DEF MonitorHold, MonitorExit, Finish, TypeOK
  <2>3. QED BY <1>1, <2>1, <2>2 DEF WatchInv, TypeOK
<1>3. ASSUME NEW s \in Symbols, UpdatePosition(s) PROVE WatchInv'
  <2>1. /\ phase = "update" /\ phase' = phase /\ stage' = stage
        /\ watch' = watch /\ renewed' = renewed
    BY <1>3 DEF UpdatePosition, Visit
  <2>2. stage # "monitor"
    BY <1>1, <2>1 DEF PhaseInv
  <2>3. \A z \in watch \intersect renewed : FALSE
    BY <1>1, <2>1, <2>2 DEF WatchInv, TypeOK
  <2>4. QED BY <1>1, <2>1, <2>3 DEF WatchInv
<1>4. ASSUME NEW s \in Symbols, FillOrder(s) \/ OpenPosition(s) PROVE WatchInv'
  <2>1. /\ phase \in {"pending", "open"} /\ phase' = phase /\ stage' = stage /\ watch' = watch
        /\ FillOrder(s) => phase = "pending"
        /\ OpenPosition(s) => phase = "open"
    BY <1>4 DEF FillOrder, OpenPosition, Visit
  <2>2. stage # "monitor"
    BY <1>1, <2>1 DEF PhaseInv
  <2>3. \/ pos' = pos /\ renewed' = renewed
        \/ /\ pos[s] = None /\ pos'[s] # None /\ pos'[s].last = 0
           /\ \A z \in Symbols \ {s} : pos'[z] = pos[z]
           /\ renewed' = IF stage = "agent" THEN renewed \union {s} ELSE renewed
    <3>1. ASSUME Opened(s) PROVE pos'[s] # None
      BY <1>1, <3>1, SoundIsPosition DEF Opened, TypeOK
    <3>2. ASSUME pos' = [pos EXCEPT ![s] = pos'[s]]
          PROVE  \A z \in Symbols \ {s} : pos'[z] = pos[z]
      BY <1>1, <3>2 DEF TypeOK
    <3>3. QED BY <1>4, <3>1, <3>2, FillOutcome, EntryOutcome
  <2>4. CASE pos' = pos /\ renewed' = renewed
    BY <1>1, <2>1, <2>4 DEF WatchInv, Open
  <2>5. CASE /\ pos[s] = None /\ pos'[s] # None /\ pos'[s].last = 0
             /\ \A z \in Symbols \ {s} : pos'[z] = pos[z]
             /\ renewed' = IF stage = "agent" THEN renewed \union {s} ELSE renewed
    <3>1. stage' = "scan" => renewed' = {}
      BY <1>1, <2>1, <2>5 DEF WatchInv
    <3>2. stage' = "agent" /\ phase' \in {"idle", "pending"} => watch' \subseteq Open'
      BY <1>1, <2>1, <2>5 DEF WatchInv, Open
    <3>3. stage' = "agent" /\ phase' # "open" => watch' \intersect renewed' = {}
      BY <1>1, <2>1, <2>5 DEF WatchInv, Open
    <3>4. \A z \in watch' \intersect renewed' : pos'[z] # None => pos'[z].last = 0
      BY <1>1, <2>1, <2>5 DEF WatchInv, TypeOK
    <3>5. QED BY <3>1, <3>2, <3>3, <3>4 DEF WatchInv
  <2>6. QED BY <2>3, <2>4, <2>5
<1>5. ASSUME NEW s \in Symbols, CancelOrder(s) \/ KeepOrder(s) PROVE WatchInv'
  BY <1>1, <1>5 DEF CancelOrder, KeepOrder, Visit, book, WatchInv, Open
<1>6. ASSUME NEW s \in Symbols, MinHoldPasses(s) PROVE WatchInv'
  <2>1. /\ UNCHANGED <<stage, phase, watch, renewed>> /\ phase = "idle" /\ pos[s] # None
        /\ pos' = [pos EXCEPT ![s] = pos'[s]] /\ pos'[s].last = pos[s].last /\ pos'[s] # None
    <3>1. pos' = [pos EXCEPT ![s].fresh = FALSE] /\ pos[s] \in PositionType /\ pos[s] # None
          /\ UNCHANGED control /\ phase = "idle"
      BY <1>1, <1>6 DEF MinHoldPasses, TypeOK
    <3>2. pos'[s] = [pos[s] EXCEPT !.fresh = FALSE] /\ pos' = [pos EXCEPT ![s] = pos'[s]]
      BY <1>1, <3>1 DEF TypeOK
    <3>3. [pos[s] EXCEPT !.fresh = FALSE] \in PositionType
          /\ [pos[s] EXCEPT !.fresh = FALSE].last = pos[s].last
      BY <3>1 DEF PositionType
    <3>4. QED BY <3>1, <3>2, <3>3, NoneAssumption DEF control
  <2>2. QED BY <1>1, <2>1 DEF WatchInv, TypeOK, Open
<1>7. ASSUME NEW s \in Symbols, TtlPasses(s) \/ \E p \in Prices : Tick(s, p) PROVE WatchInv'
  BY <1>1, <1>7 DEF TtlPasses, Tick, control, book, WatchInv, Open
<1>8. ASSUME StartScan \/ StartAgent PROVE WatchInv'
  BY <1>1, <1>8 DEF StartScan, StartAgent, Call, book, WatchInv, Open
<1>9. ASSUME ToUpdate \/ ToOpen PROVE WatchInv'
  BY <1>1, <1>9 DEF ToUpdate, ToOpen, book, WatchInv, Open
<1>10. ASSUME Save PROVE WatchInv'
  <2>1. /\ phase = "open" /\ phase' = "idle" /\ pos' = pos /\ renewed' = renewed
        /\ stage = "scan" \/ stage = "agent"
        /\ stage = "agent" => stage' = "monitor" /\ watch' = watch
    BY <1>1, <1>10 DEF Save, book, PhaseInv, TypeOK
  <2>2. stage = "scan" => \/ stage' = "agent" /\ watch' = Open
                          \/ stage' = "scan" /\ watch' = watch
    BY <1>10 DEF Save
  <2>3. QED BY <1>1, <2>1, <2>2 DEF WatchInv, Open
<1>11. ASSUME NoAgentEntries \/ EndCycle \/ Restart PROVE WatchInv'
  BY <1>1, <1>11 DEF NoAgentEntries, EndCycle, Restart, book, WatchInv, Open
<1>12. QED
  BY <1>2, <1>3, <1>4, <1>5, <1>6, <1>7, <1>8, <1>9, <1>10, <1>11
     DEF Next, Cycle, Engine, Monitor, Environment

\* The scan's call holds no entry of a symbol that was open or pending.
LEMMA TrackedInvStays ==
  ASSUME IInv, Next
  PROVE  TrackedInv'
<1>1. TrackedInv /\ TypeOK
  BY DEF IInv
<1>2. ASSUME StartScan PROVE TrackedInv'
  <2>1. PICK b : (\A s \in Symbols : b[s] \in ScanSignals(s, agents')) /\ batch' = b
    BY <1>2 DEF StartScan, Call
  <2>2. tracked' = Open \union Pending
    BY <1>2 DEF StartScan
  <2>3. \A s \in tracked' : batch'[s] \in {None, Track}
    BY <2>1, <2>2 DEF ScanSignals, Open, Pending
  <2>4. QED BY <2>3 DEF TrackedInv
<1>3. ASSUME StartAgent \/ NoAgentEntries PROVE TrackedInv'
  BY <1>3 DEF StartAgent, NoAgentEntries, TrackedInv
<1>4. ASSUME Save \/ ToUpdate \/ ToOpen \/ EndCycle \/ Restart PROVE TrackedInv'
  <2>1. \/ phase' = "idle"
        \/ UNCHANGED <<stage, batch, tracked>> /\ phase # "idle"
    BY <1>4, <1>1 DEF Save, ToUpdate, ToOpen, EndCycle, Restart, IInv, PhaseInv
  <2>2. QED BY <1>1, <2>1 DEF TrackedInv
<1>5. ASSUME NEW s \in Symbols, Engine(s) PROVE TrackedInv'
  BY <1>1, <1>5 DEF Engine, CancelOrder, FillOrder, KeepOrder, UpdatePosition, OpenPosition,
     Visit, TrackedInv
<1>6. ASSUME NEW s \in Symbols, Monitor(s) PROVE TrackedInv'
  BY <1>1, <1>6 DEF Monitor, MonitorHold, MonitorExit, Decided, TrackedInv
<1>7. ASSUME NEW s \in Symbols, MinHoldPasses(s) \/ TtlPasses(s) \/ \E p \in Prices : Tick(s, p)
      PROVE  TrackedInv'
  BY <1>1, <1>7 DEF MinHoldPasses, TtlPasses, Tick, control, TrackedInv
<1>8. QED
  BY <1>2, <1>3, <1>4, <1>5, <1>6, <1>7 DEF Next, Cycle, Environment

=============================================================================
