---------------------------- MODULE PaperTheorems ----------------------------
(***************************************************************************)
(* The theorems of the paper engine: its type invariant and its safety     *)
(* invariants, what a step never does, and that it implements the shared   *)
(* lifecycle contract, for every value of the constants.                   *)
(***************************************************************************)
EXTENDS PaperEngineProofs

\* The signals of a call are entries of known plans, or only followed.
LEMMA SignalsTyped ==
  ASSUME TypeOK, NEW s \in Symbols, NEW byAgents
  PROVE  /\ ScanSignals(s, byAgents) \subseteq SignalType \union {None, Track}
         /\ AgentSignals(s) \subseteq SignalType \union {None, Track}
<1>1. price[s] \in Int
  BY PricesAreIntegers DEF TypeOK
<1>2. ScannerSignals(s, byAgents) \subseteq SignalType \union {None}
  BY <1>1 DEF ScannerSignals, SignalType
<1>3. \A e \in [plan : Plans, current : Prices \union {plan.entry : plan \in Plans}] :
        e \in SignalType
  <2>1. \A plan \in Plans : plan.entry \in Int
    BY PlanAssumption DEF PlanType
  <2>2. QED BY <2>1, PricesAreIntegers DEF SignalType
<1>4. ScanSignals(s, byAgents) \subseteq SignalType \union {None, Track}
  BY <1>2, Zenon DEF ScanSignals
<1>5. AgentSignals(s) \subseteq SignalType \union {None, Track}
  BY <1>3, Zenon DEF AgentSignals
<1>6. QED BY <1>4, <1>5

LEMMA CallTyped ==
  ASSUME TypeOK, NEW b, Call(b), b \in [Symbols -> SignalType \union {None, Track}]
  PROVE  /\ batch' \in [Symbols -> SignalType \union {None, Track}]
         /\ entries' \in Nat /\ todo' \subseteq Symbols /\ phase' = "pending"
<1>1. Cardinality(Raised(b)) \in Nat
  BY OpenIsFinite
<1>2. entries \in Nat
  BY DEF TypeOK
<1>3. entries + Cardinality(Raised(b)) \in Nat
  BY <1>1, <1>2
<1>4. QED BY <1>3 DEF Call, Pending

LEMMA PendTyped ==
  ASSUME TypeOK, NEW s \in Symbols, NEW o,
         o = None \/ (\E plan \in Plans : o = [plan |-> plan, due |-> FALSE])
                  \/ (pend[s] # None /\ o = [pend[s] EXCEPT !.due = TRUE]),
         pend' = [pend EXCEPT ![s] = o]
  PROVE  pend' \in [Symbols -> OrderType \union {None}]
<1>1. pend \in [Symbols -> OrderType \union {None}]
  BY DEF TypeOK
<1>2. ASSUME NEW plan \in Plans PROVE [plan |-> plan, due |-> FALSE] \in OrderType
  BY DEF OrderType
<1>3. ASSUME NEW q \in OrderType PROVE [q EXCEPT !.due = TRUE] \in OrderType
  BY DEF OrderType
<1>4. o \in OrderType \union {None}
  BY <1>1, <1>2, <1>3, Zenon
<1>5. QED BY <1>1, <1>4, Zenon

-----------------------------------------------------------------------------
(* Types *)

\* The control variables that no step of an engine call touches.
LEMMA ControlTyped ==
  ASSUME IInv, Next
  PROVE  /\ price' \in [Symbols -> Prices]
         /\ stage' \in {"scan", "agent", "monitor"}
         /\ phase' \in {"idle", "pending", "update", "open"}
         /\ auto' \in BOOLEAN /\ agents' \in BOOLEAN
<1>1. /\ price \in [Symbols -> Prices]
      /\ stage \in {"scan", "agent", "monitor"}
      /\ phase \in {"idle", "pending", "update", "open"}
      /\ auto \in BOOLEAN /\ agents \in BOOLEAN
      /\ AutoExit \subseteq BOOLEAN /\ AgentControls \subseteq BOOLEAN
  BY ConfigAssumption DEF IInv, TypeOK
<1>2. ASSUME NEW s \in Symbols, NEW p \in Prices, Tick(s, p)
      PROVE  price' \in [Symbols -> Prices] /\ UNCHANGED <<stage, phase, auto, agents>>
  BY <1>1, <1>2 DEF Tick, control
<1>3. ASSUME StartScan
      PROVE  /\ price' = price /\ stage' = stage /\ phase' = "pending"
             /\ auto' \in AutoExit /\ agents' \in AgentControls
  BY <1>3 DEF StartScan, Call
<1>4. ASSUME StartAgent \/ NoAgentEntries \/ ToUpdate \/ ToOpen \/ Save \/ EndCycle \/ Restart
      PROVE  /\ price' = price /\ auto' = auto /\ agents' = agents
             /\ stage' \in {stage, "scan", "agent", "monitor"}
             /\ phase' \in {phase, "pending", "update", "open", "idle"}
  BY <1>4 DEF StartAgent, NoAgentEntries, ToUpdate, ToOpen, Save, EndCycle, Restart, Call
<1>5. ASSUME NEW s \in Symbols, Engine(s) PROVE UNCHANGED <<price, stage, phase, auto, agents>>
  BY <1>5 DEF Engine, CancelOrder, FillOrder, KeepOrder, UpdatePosition, OpenPosition, Visit
<1>6. ASSUME NEW s \in Symbols, Monitor(s) PROVE UNCHANGED <<price, stage, phase, auto, agents>>
  BY <1>6 DEF Monitor, MonitorHold, MonitorExit, Decided
<1>7. ASSUME NEW s \in Symbols, MinHoldPasses(s) \/ TtlPasses(s)
      PROVE  UNCHANGED <<price, stage, phase, auto, agents>>
  BY <1>7 DEF MinHoldPasses, TtlPasses, control
<1>8. QED
  BY <1>1, <1>2, <1>3, <1>4, <1>5, <1>6, <1>7, Zenon DEF Next, Cycle, Environment

LEMMA CallVariablesTyped ==
  ASSUME IInv, Next
  PROVE  /\ batch' \in [Symbols -> SignalType \union {None, Track}]
         /\ tracked' \subseteq Symbols /\ todo' \subseteq Symbols
         /\ watch' \subseteq Symbols /\ renewed' \subseteq Symbols
         /\ entries' \in Nat
<1> DEFINE Goal == /\ batch' \in [Symbols -> SignalType \union {None, Track}]
                   /\ tracked' \subseteq Symbols /\ todo' \subseteq Symbols
                   /\ watch' \subseteq Symbols /\ renewed' \subseteq Symbols
                   /\ entries' \in Nat
<1>1. /\ batch \in [Symbols -> SignalType \union {None, Track}]
      /\ tracked \subseteq Symbols /\ todo \subseteq Symbols
      /\ watch \subseteq Symbols /\ renewed \subseteq Symbols
      /\ entries \in Nat /\ TypeOK
  BY DEF IInv, TypeOK
<1>2. ASSUME StartScan PROVE Goal
  <2>1. PICK b \in [Symbols -> UNION {ScanSignals(s, agents') : s \in Symbols}] :
          (\A s \in Symbols : b[s] \in ScanSignals(s, agents')) /\ Call(b)
    BY <1>2 DEF StartScan
  <2>2. b \in [Symbols -> SignalType \union {None, Track}]
    BY <1>1, <2>1, SignalsTyped, Zenon
  <2>3. tracked' = Open \union Pending /\ UNCHANGED <<watch, renewed>>
    BY <1>2 DEF StartScan
  <2>4. QED BY <1>1, <2>1, <2>2, <2>3, CallTyped DEF Open, Pending
<1>3. ASSUME StartAgent PROVE Goal
  <2>1. PICK b \in [Symbols -> UNION {AgentSignals(s) : s \in Symbols}] :
          (\A s \in Symbols : b[s] \in AgentSignals(s)) /\ Call(b)
    BY <1>3 DEF StartAgent
  <2>2. b \in [Symbols -> SignalType \union {None, Track}]
    BY <1>1, <2>1, SignalsTyped, Zenon
  <2>3. UNCHANGED <<tracked, watch, renewed>>
    BY <1>3 DEF StartAgent
  <2>4. QED BY <1>1, <2>1, <2>2, <2>3, CallTyped
<1>4. ASSUME Save PROVE Goal
  <2>1. NoSignals \in [Symbols -> SignalType \union {None, Track}]
    BY DEF NoSignals
  <2>2. /\ batch' = NoSignals /\ (watch' = Open \/ watch' = watch)
        /\ UNCHANGED <<tracked, todo, renewed, entries>>
    BY <1>4 DEF Save
  <2>3. QED BY <1>1, <2>1, <2>2 DEF Open
<1>5. ASSUME ToUpdate \/ ToOpen \/ NoAgentEntries \/ EndCycle \/ Restart PROVE Goal
  <2>1. /\ UNCHANGED <<batch, tracked, entries>>
        /\ todo' = todo \/ todo' \subseteq Symbols
        /\ watch' = watch \/ watch' = {}
        /\ renewed' = renewed \/ renewed' = {}
    BY <1>5 DEF ToUpdate, ToOpen, NoAgentEntries, EndCycle, Restart, Open, Raised
  <2>2. QED BY <1>1, <2>1
<1>6. ASSUME NEW s \in Symbols, Engine(s) PROVE Goal
  <2>1. /\ UNCHANGED <<batch, tracked, watch, entries>> /\ todo' = todo \ {s}
        /\ renewed' = renewed \/ renewed' = renewed \union {s}
    BY <1>6 DEF Engine, CancelOrder, FillOrder, KeepOrder, UpdatePosition, OpenPosition,
       Visit, TryOpen
  <2>2. QED BY <1>1, <2>1
<1>7. ASSUME NEW s \in Symbols, Monitor(s) PROVE Goal
  BY <1>1, <1>7 DEF Monitor, MonitorHold, MonitorExit, Decided
<1>8. ASSUME NEW s \in Symbols, MinHoldPasses(s) \/ TtlPasses(s) \/ \E p \in Prices : Tick(s, p)
      PROVE  Goal
  BY <1>1, <1>8 DEF MinHoldPasses, TtlPasses, Tick, control
<1>9. QED
  BY <1>2, <1>3, <1>4, <1>5, <1>6, <1>7, <1>8 DEF Next, Cycle, Environment

LEMMA OrdersTyped ==
  ASSUME IInv, Next
  PROVE  pend' \in [Symbols -> OrderType \union {None}]
<1>1. TypeOK /\ pend \in [Symbols -> OrderType \union {None}]
  BY DEF IInv, TypeOK
<1>2. ASSUME NEW s \in Symbols, CancelOrder(s) \/ FillOrder(s)
      PROVE  pend' \in [Symbols -> OrderType \union {None}]
  BY <1>1, <1>2 DEF CancelOrder, FillOrder
<1>3. ASSUME NEW s \in Symbols, OpenPosition(s)
      PROVE  pend' \in [Symbols -> OrderType \union {None}]
  <2>1. batch[s].plan \in Plans
    <3>1. HasEntry(s)
      BY <1>3 DEF OpenPosition, Visit, IInv, PhaseInv, Raised, HasEntry
    <3>2. QED BY <1>1, <3>1, OrderPlans
  <2>2. pend' = pend \/ pend' = [pend EXCEPT ![s] = [plan |-> batch[s].plan, due |-> FALSE]]
    BY <1>3 DEF OpenPosition
  <2>3. QED BY <1>1, <2>1, <2>2, PendTyped, Zenon
<1>4. ASSUME NEW s \in Symbols, TtlPasses(s)
      PROVE  pend' \in [Symbols -> OrderType \union {None}]
  <2>1. pend[s] # None /\ pend' = [pend EXCEPT ![s].due = TRUE]
    BY <1>4 DEF TtlPasses
  <2>2. pend' = [pend EXCEPT ![s] = [pend[s] EXCEPT !.due = TRUE]]
    BY <2>1, Zenon
  <2>3. QED BY <1>1, <2>1, <2>2, PendTyped, Zenon
<1>5. ASSUME NEW s \in Symbols, KeepOrder(s) \/ UpdatePosition(s) \/ Monitor(s)
      PROVE  pend' = pend
  BY <1>5 DEF KeepOrder, UpdatePosition, Monitor, MonitorHold, MonitorExit, Decided, book
<1>6. ASSUME NEW s \in Symbols, MinHoldPasses(s) \/ \E p \in Prices : Tick(s, p)
      PROVE  pend' = pend
  BY <1>6 DEF MinHoldPasses, Tick, book
<1>7. ASSUME \/ StartScan \/ ToUpdate \/ ToOpen \/ Save \/ StartAgent \/ NoAgentEntries
             \/ EndCycle \/ Restart
      PROVE  pend' = pend
  BY <1>7 DEF StartScan, ToUpdate, ToOpen, Save, StartAgent, NoAgentEntries, EndCycle,
     Restart, book
<1>8. QED
  BY <1>1, <1>2, <1>3, <1>4, <1>5, <1>6, <1>7, Zenon DEF Next, Cycle, Engine, Environment

-----------------------------------------------------------------------------
(* The inductive invariant *)

LEMMA InitIInv ==
  ASSUME Init
  PROVE  IInv
<1>1. TypeOK
  <2>1. price \in [Symbols -> Prices]
    <3>1. EntryPrices \subseteq Prices
      BY PriceAssumption, Zenon
    <3>2. QED BY <3>1, Zenon DEF Init
  <2>2. pend \in [Symbols -> OrderType \union {None}]
    <3>1. \A plan \in Plans : [plan |-> plan, due |-> FALSE] \in OrderType
      BY DEF OrderType
    <3>2. \A s \in Symbols : pend[s] \in OrderType \union {None}
      BY <3>1 DEF Init
    <3>3. pend = [s \in Symbols |-> pend[s]]
      BY DEF Init
    <3>4. QED BY <3>2, <3>3, Zenon
  <2>3. auto \in BOOLEAN /\ agents \in BOOLEAN
    BY ConfigAssumption, Zenon DEF Init
  <2>4. /\ pos \in [Symbols -> PositionType \union {None}]
        /\ booked \in [Symbols -> Int] /\ reported \in [Symbols -> Int]
        /\ batch \in [Symbols -> SignalType \union {None, Track}]
        /\ tracked = {} /\ todo = {} /\ watch = {} /\ renewed = {} /\ entries \in Nat
        /\ stage = "scan" /\ phase = "idle"
    BY DEF Init, NoSignals
  <2>5. QED BY <2>1, <2>2, <2>3, <2>4 DEF TypeOK
<1>2. BookInv
  <2>1. Open = {} /\ \A s \in Symbols : pos[s] = None /\ booked[s] = 0 /\ reported[s] = 0
    BY DEF Init, Open
  <2>2. Cardinality(Open) <= MaxOpen
    BY <2>1, FS_EmptySet, ConfigAssumption
  <2>3. QED BY <2>1, <2>2 DEF BookInv, BooksBalance, CapacityRespected
<1>3. PhaseInv /\ WatchInv /\ TrackedInv
  BY DEF Init, PhaseInv, WatchInv, TrackedInv
<1>4. QED BY <1>1, <1>2, <1>3 DEF IInv

LEMMA NextIInv ==
  ASSUME IInv, [Next]_vars
  PROVE  IInv'
<1>1. CASE Next
  <2>1. BookStep
    BY StepsOnTheBook
  <2>2. TypeOK'
    BY <1>1, <2>1, BookTyped, OrdersTyped, ControlTyped, CallVariablesTyped, Zenon DEF TypeOK
  <2>3. BookInv'
    BY <2>1, BookInvStays
  <2>4. QED
    BY <1>1, <2>2, <2>3, PhaseInvStays, WatchInvStays, TrackedInvStays DEF IInv
<1>2. CASE UNCHANGED vars
  BY <1>2 DEF vars, book, control, IInv, TypeOK, BookInv, BooksBalance, CapacityRespected,
     PhaseInv, WatchInv, TrackedInv, Open, Pending, Raised
<1>3. QED BY <1>1, <1>2

LEMMA Invariance == Spec => []IInv
<1>1. QED BY InitIInv, NextIInv, PTL DEF Spec

-----------------------------------------------------------------------------
(* Invariants *)

\* Every variable of the engine keeps its type: a position has at least one unit
\* left, its best gain never falls below the entry, its orders are known plans.
THEOREM TypeCorrect == Spec => []TypeOK
<1>1. IInv => TypeOK
  BY DEF IInv
<1>2. QED BY <1>1, Invariance, PTL

\* _close_position_partial never closes a unit twice nor a level out of order: what
\* an open position has left is the initial size less the levels it took.
THEOREM LevelsAreAccounted == Spec => []LadderAccounted
<1>1. IInv => LadderAccounted
  BY DEF IInv, BookInv, Sound, Accounted, LadderAccounted
<1>2. QED BY <1>1, Invariance, PTL

\* The balance and the trade log agree: the balance moved by the realized profit of
\* the closed events and by what the open positions banked in partial closes.
THEOREM BalanceMatchesTradeLog == Spec => []BooksBalance
<1>1. IInv => BooksBalance
  BY DEF IInv, BookInv
<1>2. QED BY <1>1, Invariance, PTL

\* After its first take profit a position cannot lose: its stop is at the entry,
\* its trailing stop armed, and a trailing stop pays the fees wherever it is.
THEOREM PartialsMakeRiskFree == Spec => []RiskFreeAfterPartial
<1>1. IInv => RiskFreeAfterPartial
  BY DEF IInv, BookInv, Sound, RiskFree, RiskFreeAfterPartial
<1>2. QED BY <1>1, Invariance, PTL

\* Fills, scanner entries and agent entries together respect max_open_positions.
THEOREM CapacityIsRespected == Spec => []CapacityRespected
<1>1. IInv => CapacityRespected
  BY DEF IInv, BookInv
<1>2. QED BY <1>1, Invariance, PTL

-----------------------------------------------------------------------------
(* What a step never does *)

\* No tick, partial close, hold flag, reload of the configuration or restart moves
\* the stop of an open trade away from profit (_update_effective_stop).
THEOREM StopOnlyTightens == Spec => StopNeverLoosens
<1>1. ASSUME IInv, [Next]_vars
      PROVE  [\A s \in Open : pos'[s] # None => pos'[s].stop >= pos[s].stop]_vars
  <2>1. \A s \in Open : pos[s].stop \in Int /\ s \in Symbols /\ pos[s] # None
    BY <1>1, BookTypes DEF Open
  <2>2. BookStep
    BY <1>1, StepsOnTheBook
  <2>3. CASE UNCHANGED <<pos, booked, reported>>
    BY <2>1, <2>3
  <2>4. ASSUME NEW z \in Symbols, pos' = [pos EXCEPT ![z] = pos'[z]],
               pos[z] = None \/ pos'[z] = None \/ Result(z, pos'[z])
        PROVE  \A s \in Open : pos'[s] # None => pos'[s].stop >= pos[s].stop
    <3>1. \A s \in Symbols \ {z} : pos'[s] = pos[s]
      BY <1>1, <2>4 DEF IInv, TypeOK
    <3>2. QED BY <2>1, <2>4, <3>1 DEF Result
  <2>5. QED BY <1>1, <2>2, <2>3, <2>4, BookMoves
<1>2. QED BY <1>1, Invariance, PTL DEF Spec, StopNeverLoosens

\* A monitor decision never closes a position that opened after it was made: at
\* the agents' entry its profit is zero, inside the band that suppresses exits.
THEOREM ExitsKeepSuccessors == Spec => ExitsOnlyItsTrade
<1>1. ASSUME IInv, [Next]_vars
      PROVE  [\A s \in renewed : stage = "monitor" /\ pos[s] # None => pos'[s] # None]_vars
  <2> SUFFICES ASSUME NEW s \in renewed, stage = "monitor", pos[s] # None
               PROVE  pos'[s] # None
    OBVIOUS
  <2>1. /\ s \in Symbols /\ phase = "idle"
        /\ s \in watch => pos[s].last = 0
        /\ pos \in [Symbols -> PositionType \union {None}]
    BY <1>1 DEF IInv, TypeOK, PhaseInv, WatchInv
  <2>2. pos[s] \in PositionType /\ -pos[s].static \in Int
    BY <2>1 DEF PositionType
  <2>3. ASSUME NEW z \in Symbols, NEW u, MonitorExit(z, u) PROVE pos'[s] # None
    <3>1. CASE z = s
      <4>1. pos[s].last = 0
        BY <2>1, <2>3, <3>1 DEF MonitorExit, Decided
      <4>2. ~ImmediateCloses(pos[s]) /\ ~NextCandleCloses(pos[s])
        BY <2>2, <4>1 DEF ImmediateCloses, NextCandleCloses, RiskNow
      <4>3. QED BY <2>3, <3>1, <4>2 DEF MonitorExit
    <3>2. CASE z # s
      BY <2>1, <2>3, <3>2 DEF MonitorExit, Finish
    <3>3. QED BY <3>1, <3>2
  <2>4. ASSUME NEW z \in Symbols, NEW b \in BOOLEAN, MonitorHold(z, b) \/ MinHoldPasses(z)
        PROVE  pos'[s] # None
    <3>1. CASE pos[z] # None
      <4>1. Managed(z)
        <5>1. FALSE \in BOOLEAN OBVIOUS
        <5>2. \E c \in BOOLEAN : \/ pos' = [pos EXCEPT ![z].hold = c]
                                 \/ pos' = [pos EXCEPT ![z].fresh = c]
          BY <2>4, <3>1, <5>1, Zenon DEF MonitorHold, MinHoldPasses
        <5>3. UNCHANGED <<booked, reported>>
          BY <2>4 DEF MonitorHold, MinHoldPasses
        <5>4. QED BY <1>1, <3>1, <5>2, <5>3, FlagOutcome
      <4>2. PICK q : Sound(q) /\ pos' = [pos EXCEPT ![z] = q]
        BY <4>1 DEF Managed, Settle, Result
      <4>3. q # None
        BY <4>2, SoundIsPosition
      <4>4. QED BY <2>1, <4>2, <4>3
    <3>2. CASE pos[z] = None
      BY <2>4, <3>2 DEF MonitorHold, MinHoldPasses
    <3>3. QED BY <3>1, <3>2
  <2>5. ASSUME NEW z \in Symbols, Engine(z) PROVE FALSE
    BY <2>1, <2>5 DEF Engine, CancelOrder, FillOrder, KeepOrder, UpdatePosition, OpenPosition, Visit
  <2>6. ASSUME NEW z \in Symbols, TtlPasses(z) \/ \E p \in Prices : Tick(z, p)
        PROVE  pos' = pos
    BY <2>6 DEF TtlPasses, Tick, book
  <2>7. ASSUME \/ StartScan \/ ToUpdate \/ ToOpen \/ Save \/ StartAgent \/ NoAgentEntries
               \/ EndCycle \/ Restart
        PROVE  pos' = pos
    BY <2>7 DEF StartScan, ToUpdate, ToOpen, Save, StartAgent, NoAgentEntries, EndCycle,
       Restart, book
  <2>8. CASE UNCHANGED vars
    BY <2>8 DEF vars, book
  <2>9. TRUE \in BOOLEAN OBVIOUS
  <2>10. QED
    BY <1>1, <2>3, <2>4, <2>5, <2>6, <2>7, <2>8, <2>9 DEF Next, Cycle, Monitor, Environment
<1>2. QED BY <1>1, Invariance, PTL DEF Spec, ExitsOnlyItsTrade

\* What was open or pending when the scan began is never entered by the same call.
THEOREM TrackedIsNotEntered == Spec => ClosedIsNotReopened
<1>1. ASSUME IInv, [Next]_vars
      PROVE  [\A s \in tracked : stage = "scan" /\ phase = "open" => pos'[s] = pos[s]]_vars
  <2> SUFFICES ASSUME NEW s \in tracked, stage = "scan", phase = "open"
               PROVE  pos'[s] = pos[s]
    OBVIOUS
  <2>1. /\ s \in Symbols /\ s \notin Raised(batch) /\ todo \subseteq Raised(batch)
        /\ pos \in [Symbols -> PositionType \union {None}]
    BY <1>1 DEF IInv, TypeOK, PhaseInv, TrackedInv, Raised
  <2>2. ASSUME NEW z \in Symbols, OpenPosition(z) PROVE pos'[s] = pos[s]
    <3>1. z # s
      BY <2>1, <2>2 DEF OpenPosition, Visit
    <3>2. pos' = pos \/ \E p : pos' = [pos EXCEPT ![z] = p]
      BY <2>2 DEF OpenPosition, TryOpen
    <3>3. QED BY <2>1, <3>1, <3>2
  <2>3. ASSUME NEW z \in Symbols,
               \/ CancelOrder(z) \/ FillOrder(z) \/ KeepOrder(z) \/ UpdatePosition(z)
               \/ Monitor(z) \/ MinHoldPasses(z)
        PROVE  FALSE
    BY <2>3 DEF CancelOrder, FillOrder, KeepOrder, UpdatePosition, Visit, Monitor,
       MonitorHold, MonitorExit, Decided, MinHoldPasses
  <2>4. ASSUME NEW z \in Symbols, TtlPasses(z) \/ \E p \in Prices : Tick(z, p)
        PROVE  pos' = pos
    BY <2>4 DEF TtlPasses, Tick, book
  <2>5. ASSUME \/ StartScan \/ ToUpdate \/ ToOpen \/ Save \/ StartAgent \/ NoAgentEntries
               \/ EndCycle \/ Restart
        PROVE  pos' = pos
    BY <2>5 DEF StartScan, ToUpdate, ToOpen, Save, StartAgent, NoAgentEntries, EndCycle,
       Restart, book
  <2>6. CASE UNCHANGED vars
    BY <2>6 DEF vars, book
  <2>7. QED
    BY <1>1, <2>2, <2>3, <2>4, <2>5, <2>6 DEF Next, Cycle, Engine, Environment
<1>2. QED BY <1>1, Invariance, PTL DEF Spec, ClosedIsNotReopened

-----------------------------------------------------------------------------
(* Refinement *)

\* The view of the contract moves with the position of one symbol.
LEMMA ContractView ==
  ASSUME TypeOK, NEW s \in Symbols, pos' = [pos EXCEPT ![s] = pos'[s]]
  PROVE  /\ [z \in Symbols |-> Remaining(z)]' =
              [[z \in Symbols |-> Remaining(z)] EXCEPT ![s] = Remaining(s)']
         /\ [z \in Symbols |-> Levels(z)]' =
              [[z \in Symbols |-> Levels(z)] EXCEPT ![s] = Levels(s)']
         /\ [z \in Symbols |-> Stop(z)]' =
              [[z \in Symbols |-> Stop(z)] EXCEPT ![s] = Stop(s)']
<1>1. \A z \in Symbols \ {s} : pos'[z] = pos[z]
  BY DEF TypeOK
<1>2. \A z \in Symbols \ {s} :
        Remaining(z)' = Remaining(z) /\ Levels(z)' = Levels(z) /\ Stop(z)' = Stop(z)
  BY <1>1 DEF Remaining, Levels, Stop
<1>3. QED BY <1>2

LEMMA OpensByContract ==
  ASSUME TypeOK, NEW s \in Symbols, pos' = [pos EXCEPT ![s] = pos'[s]],
         pos[s] = None, Sound(pos'[s]), pos'[s].stop < 0, pos'[s].rem = Size, pos'[s].hit = {}
  PROVE  Contract!Open(s)
<1>1. pos'[s] # None /\ pos'[s].stop \in Int
  BY SoundIsPosition
<1>2. /\ Remaining(s) = 0 /\ Remaining(s)' = Size
      /\ Levels(s) = {} /\ Levels(s)' = {}
      /\ Stop(s)' \in Int /\ Stop(s)' < 0
  BY <1>1 DEF Remaining, Levels, Stop
<1>3. [z \in Symbols |-> Levels(z)]' = [z \in Symbols |-> Levels(z)]
  BY <1>2, ContractView
<1>4. [z \in Symbols |-> Stop(z)]'[s] = Stop(s)'
  OBVIOUS
<1>5. QED BY <1>2, <1>3, <1>4, ContractView DEF Contract!Open, Contract!Flat

LEMMA ManagesByContract ==
  ASSUME TypeOK, NEW s \in Symbols, pos' = [pos EXCEPT ![s] = pos'[s]],
         Sound(pos[s]), pos[s] # None, Result(s, pos'[s])
  PROVE  Contract!Manage(s)
<1>1. /\ Sound(pos'[s]) /\ pos'[s] # None /\ pos'[s].stop \in Int
      /\ pos[s].stop \in Int /\ pos[s].rem \in 1..Size
      /\ pos[s].hit \subseteq pos'[s].hit /\ pos'[s].stop >= pos[s].stop
  BY SoundIsPosition DEF Result
<1>2. /\ Remaining(s) # 0
      /\ Levels(s) \subseteq Levels(s)' /\ Levels(s)' \in {{}, {1}, {1, 2}}
      /\ Remaining(s)' = Size - Contract!UnitsOf(Levels(s)')
      /\ Stop(s)' \in Int /\ Stop(s)' >= Stop(s)
  BY <1>1 DEF Remaining, Levels, Stop, Sound, Accounted, Contract!InOrder
<1>3. /\ [z \in Symbols |-> Stop(z)]'[s] = Stop(s)'
      /\ [z \in Symbols |-> Stop(z)][s] = Stop(s)
      /\ [z \in Symbols |-> Levels(z)][s] = Levels(s)
      /\ [z \in Symbols |-> Remaining(z)][s] = Remaining(s)
  OBVIOUS
<1>4. QED BY <1>2, <1>3, ContractView DEF Contract!Manage, Contract!Flat

LEMMA ClosesByContract ==
  ASSUME TypeOK, NEW s \in Symbols, pos' = [pos EXCEPT ![s] = pos'[s]],
         Sound(pos[s]), pos[s] # None, pos'[s] = None
  PROVE  Contract!Close(s)
<1>1. pos[s].rem \in 1..Size
  BY SoundIsPosition
<1>2. /\ Remaining(s) # 0
      /\ Remaining(s)' = 0 /\ Levels(s)' = {} /\ Stop(s)' = 0
  BY <1>1 DEF Remaining, Levels, Stop
<1>3. [z \in Symbols |-> Remaining(z)][s] = Remaining(s)
  OBVIOUS
<1>4. QED BY <1>2, <1>3, ContractView DEF Contract!Close, Contract!Flat

\* The paper engine implements the lifecycle contract it shares with live trading:
\* every step opens, manages or closes one trade by its rules, or touches none.
THEOREM ImplementsContract == Spec => KeepsContract
<1>1. Init => Contract!Init
  BY DEF Init, Contract!Init, Remaining, Levels, Stop
<1>2. ASSUME IInv, [Next]_vars
      PROVE  [Contract!Next]_(Contract!contractVars)
  <2>1. BookStep /\ TypeOK /\ \A s \in Symbols : pos[s] # None => Sound(pos[s])
    BY <1>2, StepsOnTheBook DEF IInv, BookInv, Open
  <2>2. CASE UNCHANGED <<pos, booked, reported>>
    BY <2>2 DEF Contract!contractVars, Remaining, Levels, Stop
  <2>3. ASSUME NEW s \in Symbols, Contract!Open(s) \/ Contract!Manage(s) \/ Contract!Close(s)
        PROVE  Contract!Next
    BY <2>3 DEF Contract!Next
  <2>4. QED
    BY <1>2, <2>1, <2>2, <2>3, BookMoves, OpensByContract, ManagesByContract, ClosesByContract
<1>3. QED BY <1>1, <1>2, Invariance, PTL DEF Spec, KeepsContract, Contract!Spec

=============================================================================
