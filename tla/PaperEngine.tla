----------------------------- MODULE PaperEngine -----------------------------
(***************************************************************************)
(* The realtime paper engine (app/paper/realtime_engine.py) and the cycle  *)
(* of run_once that drives it: scanner prices, agent entries, monitor      *)
(* decisions, in that order, again and again.                              *)
(*                                                                         *)
(* Every price of a position is a gain: ticks towards profit, measured     *)
(* from its entry, so that the long and the short branches of the code     *)
(* are one.  A position has Size units; its fractions are units too.       *)
(*                                                                         *)
(* Each call of the engine loads the state file, works through the calls   *)
(* symbol by symbol, and saves.  No other process writes the file, so the  *)
(* steps of one call are not interleaved with another call.                *)
(***************************************************************************)
EXTENDS Integers, Sequences, FiniteSets, FiniteSetsExt

CONSTANTS
  Symbols,
  Prices,          \* prices the scanner may report
  EntryPrices,     \* bound: prices at which a MARKET entry is raised
  Plans,           \* entry plans of the scanner or of the Decision Agent
  Ladders,         \* take-profit ladders of those plans
  None,            \* no position, no order, no trailing stop, no signal
  Track,           \* a SKIP signal: a price without an entry
  MaxOpen,         \* max_open_positions
  Size, Fraction1, Fraction2,
  Activation,      \* gain that arms the trailing stop, for each initial risk
  TrailDistance,   \* distance of the trailing stop, for each initial risk
  NetFloor,        \* gain that pays the fees, for each number of units left
  Swings,          \* gains at which an ACR swing may place the trailing stop
  StartBalance, MarginPerUnit,
  AutoExit,        \* values auto_exit.enabled takes as the file is reloaded
  UseAcr,          \* use_acr_position_manager with candles at hand
  AgentControls,   \* values agent_pipeline.execute_decisions takes likewise
  MaxEntries       \* bound: entry signals in a behaviour

PlanType ==
  [side : {"BUY", "SHORT"}, mode : {"MARKET", "LIMIT"}, lo : Int, hi : Int,
   entry : Int, risk : Int, tp : Ladders, hold : BOOLEAN]

ASSUME SizeAssumption ==
  /\ Size \in Nat /\ Fraction1 \in Nat \ {0} /\ Fraction2 \in Nat \ {0}
  /\ Fraction1 + Fraction2 < Size

ASSUME LadderAssumption ==
  \A tp \in Ladders : /\ tp \in Seq(Nat \ {0})
                      /\ Len(tp) \in 1..3
                      /\ \A i, j \in 1..Len(tp) : i < j => tp[i] < tp[j]

ASSUME SymbolsAssumption == IsFiniteSet(Symbols)

ASSUME PriceAssumption == Prices \subseteq Nat \ {0} /\ EntryPrices \subseteq Prices

ASSUME PlanAssumption ==
  /\ Plans \subseteq PlanType
  /\ None \notin Int /\ None # Track

ASSUME ConfigAssumption ==
  /\ MaxOpen \in Nat /\ StartBalance \in Nat /\ MarginPerUnit \in Nat
  /\ AutoExit \subseteq BOOLEAN /\ UseAcr \in BOOLEAN /\ AgentControls \subseteq BOOLEAN

\* The initial risks of the positions these plans open.
Risks == {plan.risk : plan \in Plans}

\* The fewer units are left, the farther the price that pays their fees.
ASSUME TrailAssumption ==
  /\ Activation \in [Risks -> Nat] /\ TrailDistance \in [Risks -> Nat]
  /\ NetFloor \in [1..Size -> Nat \ {0}]
  /\ \A u \in 1..Size : NetFloor[u] >= NetFloor[Size]
  /\ Swings \subseteq Int

PositionType ==
  [side : {"BUY", "SHORT"}, entry : Int, risk : Risks \ {0}, tp : Ladders,
   rem : 1..Size, static : Int, trail : Int \union {None}, active : BOOLEAN,
   stop : Int, best : Nat, hit : SUBSET {1, 2}, hold : BOOLEAN,
   fresh : BOOLEAN, last : Int, partial : Int]

OrderType == [plan : Plans, due : BOOLEAN]
SignalType == [plan : Plans, current : Int]

ASSUME NoneAssumption == None \notin PositionType

VARIABLES
  price,     \* last close of each symbol
  pos,       \* open_positions
  pend,      \* pending_orders
  booked,    \* what the closes of each symbol added to state["balance"]
  reported,  \* sum of realized_pnl over the closed events of each symbol
  stage,     \* part of the cycle: "scan", "agent", "monitor"
  phase,     \* part of process_signals: "idle", "pending", "update", "open"
  auto,      \* auto_exit.enabled as this cycle read it
  agents,    \* execute_decisions as this cycle read it: the agents raise entries
  tracked,   \* open or pending as this cycle's scan began
  batch,     \* the signals of the running call
  todo,      \* symbols the phase has still to visit
  watch,     \* positions whose monitor decision is still to be applied
  renewed,   \* symbols whose position opened after those decisions were made
  entries    \* entry signals so far

book == <<pos, pend, booked, reported>>
control == <<stage, phase, auto, agents, tracked, batch, todo, watch, renewed, entries>>
vars == <<price, book, control>>

-----------------------------------------------------------------------------
(* Helpers *)

Greater(a, b) == IF a >= b THEN a ELSE b
Lesser(a, b) == IF a <= b THEN a ELSE b

Gain(side, entry, p) == IF side = "BUY" THEN p - entry ELSE entry - p

Open == {s \in Symbols : pos[s] # None}
Pending == {s \in Symbols : pend[s] # None}

Balance == StartBalance + MapThenSumSet(LAMBDA s : booked[s], Symbols)
UsedCapital == MarginPerUnit * MapThenSumSet(LAMBDA s : pos[s].rem, Open)

HasEntry(s) == batch[s] \notin {None, Track}

\* The price process_signals takes from the signal of s for its position. A
\* LIMIT entry carries the planned entry there, not the market.
Mark(s) == IF HasEntry(s) /\ batch[s].plan.mode = "LIMIT" THEN batch[s].plan.entry
           ELSE IF HasEntry(s) THEN batch[s].current
           ELSE price[s]

\* current_price of the signal of s; 0 when the call has none.
Current(s) == IF batch[s] = None THEN 0
              ELSE IF HasEntry(s) THEN batch[s].current ELSE price[s]

InZone(plan, p) == plan.lo <= p /\ p <= plan.hi

-----------------------------------------------------------------------------
(* Management of one position on one tick, as functions of the position *)

NewPosition(plan, entry) ==
  [side |-> plan.side, entry |-> entry, risk |-> plan.risk, tp |-> plan.tp,
   rem |-> Size, static |-> -plan.risk, trail |-> None, active |-> FALSE,
   stop |-> -plan.risk, best |-> 0, hit |-> {}, hold |-> plan.hold,
   fresh |-> TRUE, last |-> 0, partial |-> 0]

Marked(p, gain) == [p EXCEPT !.last = gain, !.best = Greater(@, gain)]

\* Trend-hold: one initial risk in profit moves the stop to the entry.
HoldBreakEven(p) ==
  IF p.hold /\ p.static < 0 /\ p.last >= -p.static
    THEN [p EXCEPT !.static = 0, !.active = TRUE] ELSE p

Activated(p) ==
  IF p.last >= Activation[p.risk] THEN [p EXCEPT !.active = TRUE] ELSE p

\* Defect: the newest candidate always replaces the trailing stop.
TightenedOrLoosened(p, candidate) == [p EXCEPT !.trail = candidate]

Tightened(p, candidate) ==
  IF p.trail = None \/ candidate > p.trail THEN [p EXCEPT !.trail = candidate] ELSE p

\* The trailing stop never promises less than the fees of what is left.
Trailed(p) ==
  IF p.active
    THEN Tightened(p, Greater(p.best - TrailDistance[p.risk], NetFloor[p.rem]))
    ELSE p

\* The ACR bridge acts on the scanner's candles, only after the first level: the
\* stop goes to break-even and a swing may tighten the trailing stop. The candles
\* are fetched apart from the price, so the swing is any tightening one.
AcrOutcomes(p) ==
  IF ~UseAcr \/ stage # "scan" \/ 1 \notin p.hit THEN {p}
  ELSE LET even == [p EXCEPT !.static = Greater(@, 0)]
       IN  {p, even} \union
           {[even EXCEPT !.trail = swing, !.active = TRUE] :
              swing \in {c \in Swings : p.trail = None \/ c > p.trail}}

Restopped(p) ==
  [p EXCEPT !.stop = IF p.trail = None THEN p.static ELSE Greater(p.static, p.trail)]

StopHit(p) == p.last <= p.stop

\* Defect: a level that was taken is taken again while the price stays beyond it.
LevelReachedAgain(p, i) == ~p.hold /\ p.last >= p.tp[i] /\ p.last > 0

LevelReached(p, i) ==
  /\ ~p.hold
  /\ i \notin p.hit
  /\ p.last >= p.tp[i] /\ p.last > 0

\* Defect: the second level closes everything that is left.
FractionOfRest(i) == IF i = 1 THEN Fraction1 ELSE Size

FractionOf(i) == IF i = 1 THEN Fraction1 ELSE Fraction2

\* Defect: the partial close leaves the stop where the entry set it.
TookLevelAtRisk(p, i) ==
  IF i < Len(p.tp) /\ LevelReached(p, i)
    THEN LET units == Lesser(p.rem, FractionOf(i))
         IN  [p EXCEPT !.rem = @ - units, !.partial = @ + p.last * units,
                       !.hit = @ \union {i}, !.active = TRUE]
    ELSE p

\* A partial close at level i, unless i is the last level.
TookLevel(p, i) ==
  IF i < Len(p.tp) /\ LevelReached(p, i)
    THEN LET units == Lesser(p.rem, FractionOf(i))
         IN  [p EXCEPT !.rem = @ - units, !.partial = @ + p.last * units,
                       !.hit = @ \union {i}, !.active = TRUE,
                       !.static = IF i = 1 THEN 0 ELSE @]
    ELSE p

\* Defect: a tick beyond both levels takes the farther one only.
TookFarthest(p) == IF 2 < Len(p.tp) /\ LevelReached(p, 2) THEN TookLevel(p, 2)
                                                          ELSE TookLevel(p, 1)

TookPartials(p) == TookLevel(TookLevel(p, 1), 2)

-----------------------------------------------------------------------------
(* What the state file keeps when the call is done with a position *)

\* p replaces the position of s; units that left were closed at its last price.
Settle(s, p) ==
  /\ pos' = [pos EXCEPT ![s] = p]
  /\ booked' = [booked EXCEPT ![s] = @ + p.last * (pos[s].rem - p.rem)]
  /\ UNCHANGED reported

\* Defect: the closed event reports the last close only.
FinishWithoutPartials(s, p) ==
  /\ pos' = [pos EXCEPT ![s] = None]
  /\ booked' = [booked EXCEPT ![s] = @ + p.last * pos[s].rem]
  /\ reported' = [reported EXCEPT ![s] = @ + p.last * p.rem]

\* Everything left is closed at the last price; the event sums up the trade.
Finish(s, p) ==
  /\ pos' = [pos EXCEPT ![s] = None]
  /\ booked' = [booked EXCEPT ![s] = @ + p.last * pos[s].rem]
  /\ reported' = [reported EXCEPT ![s] = @ + p.partial + p.last * p.rem]

\* auto_exit disabled: the stop as stored, or the whole position at level 1.
ManageLegacy(s, p) ==
  IF StopHit(p) \/ (~p.hold /\ p.last >= p.tp[1]) THEN Finish(s, p) ELSE Settle(s, p)

\* An invalidation by the candles, the stop, then the levels, in that order.
ManageAuto(s, p) ==
  \E q \in AcrOutcomes(Trailed(Activated(HoldBreakEven(p)))) :
    \/ /\ UseAcr /\ stage = "scan" /\ 1 \in q.hit
       /\ Finish(s, q)
    \/ LET r == Restopped(q)
           t == TookPartials(r)
       IN  IF StopHit(r) THEN Finish(s, r)
           ELSE IF LevelReached(t, Len(t.tp)) THEN Finish(s, t)
           ELSE Settle(s, t)

\* Defect: the capacity is not looked at again when an order is filled.
MayOpenBeyondCapacity(s, plan) ==
  pos[s] = None /\ plan.risk > 0 /\ Balance - UsedCapital > 0

\* What _maybe_open_position checks before it opens at the given entry price.
MayOpen(s, plan) ==
  /\ pos[s] = None
  /\ Cardinality(Open) < MaxOpen
  /\ plan.risk > 0
  /\ Balance - UsedCapital > 0

TryOpen(s, plan, entry) ==
  IF MayOpen(s, plan)
    THEN /\ pos' = [pos EXCEPT ![s] = NewPosition(plan, entry)]
         /\ renewed' = IF stage = "agent" THEN renewed \union {s} ELSE renewed
    ELSE UNCHANGED <<pos, renewed>>

-----------------------------------------------------------------------------
(* Signals *)

MarketAt(plan, p) == plan.mode = "MARKET" => p \in EntryPrices

\* The scanner's own BUY and SELL rows enter at the market, unless the agents
\* raise the entries. Any other row of a symbol that is not tracked does nothing.
ScannerSignals(s, byAgents) ==
  {None} \union
    {[plan |-> plan, current |-> price[s]] :
       plan \in {q \in Plans : ~byAgents /\ q.mode = "MARKET" /\ MarketAt(q, price[s])}}

\* Defect: an entry signal of an open symbol is passed on like any other.
ScanSignalsUnguarded(s, byAgents) ==
  IF s \in Open \union Pending THEN {Track} \union ScannerSignals(s, byAgents)
                               ELSE ScannerSignals(s, byAgents)

\* prepare_paper_signals: what is open or pending is only followed, never entered.
ScanSignals(s, byAgents) ==
  IF s \in Open \union Pending THEN {None, Track} ELSE ScannerSignals(s, byAgents)

\* An approved agent entry. Its current price is the scanner's when the symbol
\* is among the pipeline signals, which leave out what the scan tracked, and the
\* planned entry otherwise (a WATCH row taken as a soft entry).
AgentSignals(s) ==
  {None} \union
    {e \in [plan : Plans, current : Prices \union {plan.entry : plan \in Plans}] :
       /\ e.current = e.plan.entry \/ (s \notin tracked /\ e.current = price[s])
       /\ MarketAt(e.plan, e.current)}

Raised(b) == {s \in Symbols : b[s] \notin {None, Track}}

NoSignals == [s \in Symbols |-> None]

\* Defect: only orders whose symbol has a price are looked at.
CallPriced(b) ==
  /\ batch' = b
  /\ entries + Cardinality(Raised(b)) <= MaxEntries
  /\ entries' = entries + Cardinality(Raised(b))
  /\ phase' = "pending"
  /\ todo' = {s \in Pending : b[s] # None}

\* process_signals starts on the batch b: every pending order comes first.
Call(b) ==
  /\ batch' = b
  /\ entries + Cardinality(Raised(b)) <= MaxEntries
  /\ entries' = entries + Cardinality(Raised(b))
  /\ phase' = "pending"
  /\ todo' = Pending

-----------------------------------------------------------------------------
(* The cycle *)

Init ==
  /\ price \in [Symbols -> EntryPrices]
  /\ pos = [s \in Symbols |-> None]
  /\ pend \in [Symbols -> {None} \union
                 {[plan |-> plan, due |-> FALSE] : plan \in {q \in Plans : q.mode = "MARKET"}}]
  /\ booked = [s \in Symbols |-> 0]
  /\ reported = [s \in Symbols |-> 0]
  /\ stage = "scan" /\ phase = "idle"
  /\ auto \in AutoExit /\ agents \in AgentControls
  /\ tracked = {} /\ batch = NoSignals /\ todo = {}
  /\ watch = {} /\ renewed = {} /\ entries = 0

\* run_once reads the configuration and the state, and scans what it tracks.
StartScan ==
  /\ stage = "scan" /\ phase = "idle"
  /\ auto' \in AutoExit /\ agents' \in AgentControls
  /\ \E b \in [Symbols -> UNION {ScanSignals(s, agents') : s \in Symbols}] :
       /\ \A s \in Symbols : b[s] \in ScanSignals(s, agents')
       /\ Call(b)
  /\ tracked' = Open \union Pending
  /\ UNCHANGED <<price, book, stage, watch, renewed>>

Visit(s, p) ==
  /\ phase = p /\ s \in todo
  /\ todo' = todo \ {s}
  /\ UNCHANGED <<price, stage, phase, auto, agents, tracked, batch, watch, entries>>

\* An order without the zone mark comes from an older state file.
CancelOrder(s) ==
  /\ Visit(s, "pending")
  /\ pend[s].plan.mode = "MARKET" \/ pend[s].due
  /\ pend' = [pend EXCEPT ![s] = None]
  /\ UNCHANGED <<pos, booked, reported, renewed>>

InZoneNow(s) == pend[s].plan.mode = "LIMIT" /\ ~pend[s].due /\ InZone(pend[s].plan, Current(s))

\* A filled order is gone even when the position cannot be opened.
FillOrder(s) ==
  /\ Visit(s, "pending")
  /\ InZoneNow(s)
  /\ pend' = [pend EXCEPT ![s] = None]
  /\ TryOpen(s, pend[s].plan, pend[s].plan.entry)
  /\ UNCHANGED <<booked, reported>>

KeepOrder(s) ==
  /\ Visit(s, "pending")
  /\ pend[s].plan.mode = "LIMIT" /\ ~pend[s].due /\ ~InZoneNow(s)
  /\ UNCHANGED <<book, renewed>>

UpdatePosition(s) ==
  /\ Visit(s, "update")
  /\ LET p == Marked(pos[s], Gain(pos[s].side, pos[s].entry, Mark(s)))
     IN  IF auto THEN ManageAuto(s, p) ELSE ManageLegacy(s, p)
  /\ UNCHANGED <<pend, renewed>>

\* The zone is tested before anything else: a LIMIT outside it becomes, or
\* replaces, the pending order of the symbol.
OpenPosition(s) ==
  /\ Visit(s, "open")
  /\ LET plan == batch[s].plan
     IN  IF plan.mode = "LIMIT" /\ ~InZone(plan, batch[s].current)
           THEN /\ pend' = [pend EXCEPT ![s] = [plan |-> plan, due |-> FALSE]]
                /\ UNCHANGED <<pos, renewed>>
           ELSE /\ TryOpen(s, plan, IF plan.mode = "LIMIT" THEN plan.entry ELSE batch[s].current)
                /\ UNCHANGED pend
  /\ UNCHANGED <<booked, reported>>

ToUpdate ==
  /\ phase = "pending" /\ todo = {}
  /\ phase' = "update"
  /\ todo' = {s \in Open : batch[s] # None}
  /\ UNCHANGED <<price, book, stage, auto, agents, tracked, batch, watch, renewed, entries>>

ToOpen ==
  /\ phase = "update" /\ todo = {}
  /\ phase' = "open"
  /\ todo' = Raised(batch)
  /\ UNCHANGED <<price, book, stage, auto, agents, tracked, batch, watch, renewed, entries>>

\* The state is saved. After the scan's call the agents see the open positions.
Save ==
  /\ phase = "open" /\ todo = {}
  /\ phase' = "idle" /\ batch' = NoSignals
  /\ stage' = IF stage = "agent" THEN "monitor" ELSE IF agents THEN "agent" ELSE "scan"
  /\ watch' = IF stage = "scan" /\ agents THEN Open ELSE watch
  /\ UNCHANGED <<price, book, auto, agents, tracked, todo, renewed, entries>>

StartAgent ==
  /\ stage = "agent" /\ phase = "idle"
  /\ \E b \in [Symbols -> UNION {AgentSignals(s) : s \in Symbols}] :
       /\ \A s \in Symbols : b[s] \in AgentSignals(s)
       /\ Raised(b) # {}
       /\ Call(b)
  /\ UNCHANGED <<price, book, stage, auto, agents, tracked, watch, renewed>>

NoAgentEntries ==
  /\ stage = "agent" /\ phase = "idle"
  /\ stage' = "monitor"
  /\ UNCHANGED <<price, book, phase, auto, agents, tracked, batch, todo, watch, renewed, entries>>

-----------------------------------------------------------------------------
(* Monitor decisions *)

Decided(s) ==
  /\ stage = "monitor" /\ s \in watch
  /\ watch' = watch \ {s}
  /\ UNCHANGED <<price, pend, stage, phase, auto, agents, tracked, batch, todo, renewed, entries>>

\* HOLD with a tp1_enabled flag; no flag, or a skipped symbol, keeps hold as it is.
MonitorHold(s, hold) ==
  /\ Decided(s)
  /\ pos' = IF pos[s] = None THEN pos ELSE [pos EXCEPT ![s].hold = hold]
  /\ UNCHANGED <<booked, reported>>

\* risk_amount of run_once: the distance from the entry to the static stop now.
RiskNow(p) == -p.static

\* Defect: an IMMEDIATE exit closes whatever the profit is.
ImmediateAlwaysCloses(p) == TRUE

\* The gates of close_from_decision on pnl_ratio = last / risk, 0 without risk.
ImmediateCloses(p) ==
  RiskNow(p) > 0 /\ (100 * p.last <= -15 * RiskNow(p) \/ 100 * p.last > 35 * RiskNow(p))

NextCandleCloses(p) ==
  RiskNow(p) > 0 /\ ~p.fresh /\ (10 * p.last <= -3 * RiskNow(p) \/ p.last > RiskNow(p))

MonitorExit(s, urgency) ==
  /\ Decided(s)
  /\ IF pos[s] # None /\ (IF urgency = "IMMEDIATE" THEN ImmediateCloses(pos[s])
                                                  ELSE NextCandleCloses(pos[s]))
       THEN Finish(s, pos[s])
       ELSE UNCHANGED <<pos, booked, reported>>

EndCycle ==
  /\ stage = "monitor" /\ watch = {}
  /\ stage' = "scan" /\ renewed' = {}
  /\ UNCHANGED <<price, book, phase, auto, agents, tracked, batch, todo, watch, entries>>

-----------------------------------------------------------------------------
(* The world outside *)

\* Prices move; the program only sees the ones its next scan fetches.
Tick(s, p) ==
  /\ stage = "scan" /\ phase = "idle"
  /\ price' = [price EXCEPT ![s] = p]
  /\ UNCHANGED <<book, control>>

MinHoldPasses(s) ==
  /\ phase = "idle" /\ pos[s] # None /\ pos[s].fresh
  /\ pos' = [pos EXCEPT ![s].fresh = FALSE]
  /\ UNCHANGED <<price, pend, booked, reported, control>>

TtlPasses(s) ==
  /\ phase = "idle" /\ pend[s] # None /\ ~pend[s].due
  /\ pend' = [pend EXCEPT ![s].due = TRUE]
  /\ UNCHANGED <<price, pos, booked, reported, control>>

\* The process is stopped between two calls and started again: the state file
\* survives, the decisions that were still to be applied do not.
Restart ==
  /\ phase = "idle" /\ stage # "scan"
  /\ stage' = "scan" /\ watch' = {} /\ renewed' = {}
  /\ UNCHANGED <<price, book, phase, auto, agents, tracked, batch, todo, entries>>

-----------------------------------------------------------------------------
Engine(s) ==
  \/ CancelOrder(s)
  \/ FillOrder(s)
  \/ KeepOrder(s)
  \/ UpdatePosition(s)
  \/ OpenPosition(s)

Monitor(s) ==
  \/ \E hold \in BOOLEAN : MonitorHold(s, hold)
  \/ \E urgency \in {"IMMEDIATE", "NEXT_CANDLE"} : MonitorExit(s, urgency)

Cycle ==
  \/ StartScan
  \/ ToUpdate
  \/ ToOpen
  \/ Save
  \/ StartAgent
  \/ NoAgentEntries
  \/ EndCycle
  \/ \E s \in Symbols : Engine(s) \/ Monitor(s)

Environment ==
  \/ Restart
  \/ \E s \in Symbols : MinHoldPasses(s) \/ TtlPasses(s) \/ \E p \in Prices : Tick(s, p)

Next == Cycle \/ Environment

Spec == Init /\ [][Next]_vars

\* The loop of main() takes its next step as long as the process runs, and a
\* stopped process is started again.
FairSpec == Spec /\ WF_vars(Cycle)

-----------------------------------------------------------------------------
(* Properties *)

Levels(s) == IF pos[s] = None THEN {} ELSE pos[s].hit
Remaining(s) == IF pos[s] = None THEN 0 ELSE pos[s].rem
Stop(s) == IF pos[s] = None THEN 0 ELSE pos[s].stop

Contract == INSTANCE LifecycleContract WITH
  remaining <- [s \in Symbols |-> Remaining(s)],
  levels <- [s \in Symbols |-> Levels(s)],
  stop <- [s \in Symbols |-> Stop(s)]

TypeOK ==
  /\ price \in [Symbols -> Prices]
  /\ pos \in [Symbols -> PositionType \union {None}]
  /\ pend \in [Symbols -> OrderType \union {None}]
  /\ booked \in [Symbols -> Int] /\ reported \in [Symbols -> Int]
  /\ stage \in {"scan", "agent", "monitor"}
  /\ phase \in {"idle", "pending", "update", "open"}
  /\ auto \in BOOLEAN /\ agents \in BOOLEAN
  /\ batch \in [Symbols -> SignalType \union {None, Track}]
  /\ \A S \in {tracked, todo, watch, renewed} : S \subseteq Symbols
  /\ entries \in Nat

\* What an open position has left is the initial size less a fraction of the
\* initial size for every level taken; level 2 is never taken before level 1 and
\* the last level of a ladder never by a partial close, whatever ticks, gaps,
\* hold flips and reloads of auto_exit came between (_close_position_partial).
LadderAccounted ==
  \A s \in Open : /\ Contract!InOrder(pos[s].hit)
                  /\ pos[s].rem = Size - Contract!UnitsOf(pos[s].hit)
                  /\ \A i \in pos[s].hit : i < Len(pos[s].tp)

\* The balance grows by exactly what the closed events of the trade log report,
\* plus what the partial closes of the open positions have banked so far.
BooksBalance ==
  \A s \in Symbols :
    booked[s] = reported[s] + IF pos[s] = None THEN 0 ELSE pos[s].partial

\* Once a level was taken the position rides for free: its own stop is at the
\* entry and the trailing stop is armed; and a trailing stop, whoever placed it
\* (distance, ACR swing), always pays the fees of the initial size at least.
RiskFreeAfterPartial ==
  \A s \in Open :
    /\ pos[s].hit # {} => pos[s].static = 0 /\ pos[s].active /\ pos[s].partial > 0
    /\ pos[s].trail # None => pos[s].active /\ pos[s].trail >= NetFloor[Size]

\* The fills of pending orders and the entries of both calls together never
\* exceed max_open_positions, in whatever order they are visited.
CapacityRespected == Cardinality(Open) <= MaxOpen

\* While a trade is open, no tick, monitor decision, reload of auto_exit or
\* restart moves its effective stop away from profit.
StopNeverLoosens ==
  [][\A s \in Open : pos'[s] # None => pos'[s].stop >= pos[s].stop]_vars

\* Decisions are made on the positions of the scan but applied after the agent
\* entries ran: an EXIT decided for a trade never closes its successor.
ExitsOnlyItsTrade ==
  [][\A s \in renewed : stage = "monitor" /\ pos[s] # None => pos'[s] # None]_vars

\* prepare_paper_signals: what the scan found open is not opened again by the
\* entry signals of the same call, even when the call closes it first.
ClosedIsNotReopened ==
  [][\A s \in tracked : stage = "scan" /\ phase = "open" => pos'[s] = pos[s]]_vars

\* Every trade keeps the shared lifecycle contract.
KeepsContract == Contract!Spec

\* load_open_position_symbols keeps a pending symbol in the scan, and an expired
\* order leaves even when the scan has no price of it: it is cancelled or
\* replaced by a newer one.
ExpiredOrderLeaves ==
  \A s \in Symbols :
    (pend[s] # None /\ pend[s].due) ~> (pend[s] = None \/ ~pend[s].due)

\* run_realtime.py: "LIMIT plans wait for the zone instead of buying the current
\* momentum peak": no LIMIT plan opens while the scanner's price is outside it.
LimitWaitsForZone ==
  [][\A s \in Symbols :
       /\ phase = "open" /\ HasEntry(s) /\ batch[s].plan.mode = "LIMIT"
       /\ pos[s] = None /\ pos'[s] # None
       => InZone(batch[s].plan, price[s])]_vars

\* close_from_decision: IMMEDIATE closes "on real loss or solid profit": while a
\* decision waits for a position more than 0.35 of its initial risk in profit, an
\* IMMEDIATE exit would close it.
SolidProfitExits ==
  \A s \in watch \intersect Open :
    stage = "monitor" /\ 100 * pos[s].last > 35 * pos[s].risk => ImmediateCloses(pos[s])

=============================================================================
