# Formal models of crypto-quant-bot

TLA+ modules for the trading core of this repository, TLC configurations that
check them on small instances, and proofs that TLAPS checks for every instance.
Paths below are relative to `src/`; `RE` is `app/paper/realtime_engine.py`, `RR`
is `run_realtime.py`, `BA` is `app/executor_agent/bitunix_futures_adapter.py`, `LL`
is `app/execution/live_lifecycle.py` and `BR` is `app/agent_pipeline/bridge.py`.

- [1 The system](#1-the-system)
- [2 Modules](#2-modules)
- [3 State and actions against the code](#3-state-and-actions-against-the-code)
- [4 Runs](#4-runs)
- [5 Proofs](#5-proofs)
- [6 What is left out](#6-what-is-left-out)
- [7 Plan](#7-plan)

## 1 The system

One process, `run_realtime.py`, repeats a cycle (`run_once`): scan the market,
manage paper positions, let the agents propose entries and judge open positions,
apply their decisions to the paper engine and, when live trading is enabled, to
the exchange. State lives in JSON files that each component reads, changes and
writes back. The dashboard is a separate process that reads those files and
writes the configuration, which the loop reads again in every cycle.

### Trading on paper

**Paper engine** (`RE`). *State:* balance, `open_positions`, `pending_orders` in
one state file; an append-only file of trade events. *Operations:*
`process_signals` (pending orders, then updates of positions, then entries),
`update_tp1_flag`, `close_from_decision`. *Hard:* five writers move the two stops
of a position; levels are taken over many ticks, with gaps over several levels
and flags that change in between; fills and entries compete for the slots and
for the balance; the file is overwritten in place and events are appended
afterwards. *Correct when:* what is left of a position is its initial size less
the levels it took; the balance and the trade log tell the same story; a stop
never loosens; capacity is respected; an expired order leaves.

**Runtime loop** (`RR`). *State:* none that survives, except checkpoint files;
within a cycle it carries the scan, the agent payload and a snapshot of
positions. *Operations:* `run_once`, `main`. *Hard:* decisions are made on the
positions of the scan and applied after the agents' entries ran; prices missing
from one list are replaced by the plan's own entry; the configuration changes
between cycles; the process is stopped anywhere. *Correct when:* a decision only
touches the trade it was made for; a limit plan waits for its zone; what a call
closes it does not reopen.

**ACR bridge** (`app/strategies/acr_engine_bridge.py`, `acr_position_manager.py`).
*State:* none; changes the position it is given. *Operations:* break-even, swing
trailing, invalidation. *Correct when:* it only tightens.

### The lifecycle shared by paper and live

**Take-profit geometry** (`app/execution/lifecycle_contract.py`,
`app/decision_agent/agent.py`, `RE`, `app/executor_agent/agent.py`). *State:*
none. *Operations:* propose, sanitise, normalise and split the levels of a trade.
*Hard:* four functions in three files compute the same ladder from inputs that
are inverted, repeated, unsorted or missing. *Correct when:* the ladder is never
empty or unordered, and paper and live agree.

**Lifecycle contract** (`lifecycle_contract.py`, its use in `RE` and
`live_lifecycle.py`). What a trade promises whoever manages it: units leave level
by level as fractions of the initial size, the stop only tightens, everything
leaves at the end. *State, operations:* of its implementations.

**Live lifecycle controller** (`LL`, called from `RR` and `BA`). *State:* one JSON
record per live position: initial quantity, ladder, levels hit, highest price; the
quantities of the last partial-close notice. *Operations:* register a plan or adopt
a position, reconcile with the exchange, trail the stop, restore take profits after
a partial close. *Interacts with:* the exchange, whose fills race every one of
these, and the operator. *Hard:* one snapshot of the position serves a whole cycle;
the state of a position that was not read is deleted and made anew; the checkpoint
that starts the restoring moves on before it; a rejection in the middle of it.
*Correct when:* the stop only tightens, and catches up; a level that was not taken is
not forgotten; the store follows the position.

### Live orders

**Bitunix adapter and TP reconciliation** (`BA`, `run_repair_tpsl.py`). *State:* a
file of pending take-profit plans with attempts and timestamps, a file of quantities
the exchange found too small. *Operations:* place an entry and queue its plan;
reconcile plans with positions; retry, give up, expire; repair what has no
protection; cancel LIMIT entries. *Hard:* positions and orders are read by parallel
requests; the plan is queued after the entry was accepted; the file is saved once at
the end; a time-out is not a rejection. *Correct when:* a symbol carries the entries of
one cycle; a position gets the levels of its own plan, each once, and does not stay
without any.

**Executor Agent** (`app/executor_agent/agent.py`, `models.py`,
`binance_futures_adapter.py`). Stateless: guards, quantity, geometry, entry;
exits through the exit gate. *Correct when:* a refused plan places nothing and an
approved exit is executed.

**Live order manager** (`app/live/`), **kill switch and live execution**
(`app/execution/`). The manager is not wired into the runtime. The kill switch sets
the mode of the settings to paper. `LiveExecutor` is an older route, off unless a
second setting allows it.

### From the scan to an entry

**Agent pipeline** (`BR`, `coordinator.py`, candidates prepared in `RR`). *State:* a
file of streaks of shorts, a progress file that becomes the payload. *Operations:*
join rankings into candidates, order and cap them, let the agents evaluate each, judge
the open positions, hand the decisions to exchange or paper engine. *Hard:* one row
carries a long and a short half, which filters treat apart; two caps over two queues;
a list of candidates in progress made in advance; reservations read once per cycle.
*Correct when:* the payload marks nothing as in progress when it is complete; the caps
leave out only worse candidates; a symbol gets one decision, and one entry order.

### Journals and messages

**Trade log and learning recorder** (`app/learning_agent/`, `RE`). *State:* the
trade log, the learning journal, a checkpoint each for paper and live closes.
*Operations:* append the events of a call; record the closes that are new. *Hard:*
each step leaves its result in a file of its own, and the process stops between any
two. *Correct when:* no checkpoint claims what was not done; repetitions are paid for
by faults; every close is learned in the end.

**Telegram notifications** (`app/telegram/trade_reporter.py`, `RR:310-470`).
*State:* a delivery checkpoint for full closes, one for partial ones. *Correct when:*
each close is announced, and again only after a fault. The docstring at `RR:318`
promises more (section 4).

### Around the core

| component | state, operations | why it matters to the models |
|---|---|---|
| Decision Agent, Chart Agent | none | the levels and order type of a plan; scores are numeric |
| Entry guards and risk (`app/risk`) | none | veto a row or refuse a decision; the models admit both |
| Scanner, strategies, indicators | none | raise signals and candles; the models admit all |
| Exchange clients (`app/exchange`, `app/data`) | connections | prices are the environment's |
| Settings (`app/settings`, `app/config`) | configuration file | values may change between cycles |
| Event bus (`app/events`) | subscribers | not used by the loop |
| Dashboard (`app/dashboard`) | caches, websocket clients, scheduler | a reader of the files |
| Portfolio, analytics, monitoring | none | reports over the logs |
| Backtest, research; MCP, LLM | none | offline, advisory |

`PROJECT.json` lists every component with its status and every hazard at the
line where it bites.

## 2 Modules

| module | what it is |
|---|---|
| `TakeProfitLadder` | the ladder of one entry, as Decision Agent, paper engine and live executor compute it |
| `LifecycleContract` | the abstract trade: units, levels taken, stop |
| `PaperEngine` | the paper engine and the cycle of `run_once` around it; implements `LifecycleContract` |
| `PaperPositionProofs` | lemmas on the functions that manage one position on one tick |
| `PaperEngineProofs` | what the actions do to the positions, and the lemma that each conjunct of the invariant is kept |
| `PaperTheorems` | the inductive invariant and the theorems about `Spec` |
| `TradeRecording` | trade log, notices and recorders, with the files they leave |
| `LiveProtection` | entries on the exchange, the queue of take profits, its reconciliation and the repair |
| `LiveLifecycle` | one live position: registration, trailing stop, restoring of its ladder |
| `EntryPipeline` | from the rows of a scan to the entries of a cycle, on paper and live |
| `TradeRecordingProofs`, `LiveProtectionProofs`, `LiveLifecycleProofs`, `EntryPipelineProofs` | theorems about them |
| `MCTakeProfitLadder`, `MCPaperEngine`, `MCLiveLifecycle`, `MCEntryPipeline` | instances for TLC; `TradeRecording` and `LiveProtection` need none |

`PaperEngine` takes ladders as they come (its constant `Ladders`), ordered, one
to three levels, all in profit: `LadderAssumption`. That this is what an entry
really yields is `PaperLadderIsOrdered` of `TakeProfitLadder`. The two modules
meet in that formula.

The live side is cut in three at its files. `EntryPipeline` decides which orders go
out and sees an account that moves; `LiveProtection` follows one symbol from there to
a protected position, its file being the queue of plans; `LiveLifecycle` takes over
when the position is registered, its file being the store of states. What one module
leaves to another is any outcome in it: an entry decision in `LiveProtection` comes
from nowhere, the plan of `LiveLifecycle` is placed in one step. The repair is in both:
`LiveProtection` asks whether a position gets some protection, with every answer of the
exchange; `LiveLifecycle` what a second ladder, measured from the stop of the moment,
does to the registered one. `TradeRecording` takes closes as they come, from paper
engine and exchange.

## 3 State and actions against the code

### PaperEngine

Prices of a position are *gains*: ticks towards profit from its entry. The code
writes every comparison twice, once per side; as gains the two are one, and a
run with long and short positions covers both. Quantities are units: `Size` of
them in a new position, of which `Fraction1` and `Fraction2` leave at the first
two levels. `PROJECT.json` maps every definition to its lines.

| variable | in the code |
|---|---|
| `price` | close of each symbol, as the next scan will fetch it |
| `pos` | `open_positions`: remaining size, static, trailing and effective stop, best price, levels hit, hold flag, last price, partial profit, and whether it is younger than `min_hold_seconds` |
| `pend` | `pending_orders`: the plan and whether its time is over |
| `booked` | the balance, as what each symbol's closes added |
| `reported` | sum of `realized_pnl` over closed events of each symbol |
| `stage`, `watch`, `renewed` | where `run_once` is; monitor decisions still to be applied; which positions are younger than those decisions |
| `phase`, `batch`, `todo` | where `process_signals` is, its signals, what the loop has still to visit |
| `tracked`, `auto`, `agents` | what this cycle read: open and pending symbols, `auto_exit.enabled`, `execute_decisions` |
| `entries` | counts signals, for the bound only |

| action | in the code |
|---|---|
| `StartScan`, `StartAgent`, `NoAgentEntries`, `EndCycle` | the calls of `run_once`, in order |
| `CancelOrder`, `FillOrder`, `KeepOrder` | one turn of the loop in `_process_pending_orders` |
| `UpdatePosition` | `_update_position`, whole: mark, hold break-even, arming, trailing, ACR, effective stop, stop, levels or the legacy exit |
| `OpenPosition` | `_maybe_open_position`: zone, slot, risk, balance |
| `ToUpdate`, `ToOpen`, `Save` | the three loops of `process_signals` follow each other; the file is saved |
| `MonitorHold`, `MonitorExit` | `update_tp1_flag` and `close_from_decision` with the gates of both urgencies |
| `Tick`, `MinHoldPasses`, `TtlPasses`, `Restart` | the world: prices move, time passes, the process is restarted |

The loops over symbols visit them in any order. The code's order is that of the
ranking, which the environment decides.

A crash within a call of the engine is `Restart` before that call: until the file
is saved nothing of the call survives. `Restart` between two calls loses the
decisions and entries of the cycle. What lies between the saving of the file and
the appending of events is `ProcessSignals` and `AppendTradeEvent` of
`TradeRecording`.

The margin at work: `UsedCapital` charges `MarginPerUnit` for each unit left,
one size per position, so sizing is out, but the test `available <= 0` is in.

### TakeProfitLadder

An entry picks its preferences, a plan is proposed (`BuildEntryPlan` by the
Decision Agent from structural levels, `ScannerSignal` with any levels at all),
and `OpenBoth` computes both ladders. All numbers are ticks of gain. `risk` is the
distance to the plan's own stop, from which its levels are measured; `stop` is a
`stop_loss_percent`, which replaces that stop afterwards on both sides (`LiveRisk`,
`PaperRisk`), taken as the same distance from either entry. `drift` is how much better
than planned the paper engine enters a plan at the market, at the price of the moment
(`RE:372-376`): the same levels and the same stop are seen from there
(`FromPaperEntry`). The split is that of the shipped settings: `tp_fractions` of the
paper engine is configurable (`RE:46`), the contract's is not. The three
steps of the paper engine's rebuild (cut to profit side and three levels, lift
to 2R, pad with 3R and 4R) are kept apart because it is their order that could
go wrong. A ladder is a set of gains until it is opened: `Lowest(n, S)` is the `[:n]`
of a sorted list, `Sorted` the order in which it is stored. `Remaining` is the loop of
the paper engine over its levels, `SumOf` the `sum` in the contract. A scanner signal
names at most three levels, as `signals/builder.py:52` and `:125` make them.

### TradeRecording

| variable | in the code |
|---|---|
| `closed`, `torn`, `logged` | the state file of the paper engine and whether a stop cut it short; `logs/paper_trades.jsonl` |
| `cut` | history: closes whose event was still to be appended when the process stopped |
| `history`, `rows` | closed positions Bitunix reports; what this cycle read of them |
| `journal`, `paperMarks`, `liveMarks` | the learning journal and the two checkpoints of the recorder |
| `started`, `seen`, `baseline` | the checkpoint of the close notices: whether it is there, what it holds, what it began with |
| `messages` | what reached the chat |
| `step`, `batch`, `known` | where the cycle is, what the present loop has left, its copy of the checkpoint |

`ProcessSignals`, `AppendTradeEvent`, `LoadDetails`, `StartBaseline`, `StartNotices`,
`SendConfirmed`, `SendUnanswered`, `SaveSeen`, `ProcessNewClosures`,
`ProcessBitunixClosedPositions`, `RecordTrade` and the two saves of marks are the
cycle in the order of the code. `Crash` forgets what is in memory; `CrashInWrite` also
cuts the file that is being written. Files that are written to a temporary name and
moved into place cannot be cut. Rows of a loop are taken in any order.

### LiveProtection

| variable | in the code |
|---|---|
| `least`, `working`, `held`, `qty`, `resting` | on the exchange: the largest quantity it refuses as too small, entry orders, the entries the position was made from, what is left of it, take profits by price |
| `plans`, `minimum` | `bitunix_pending_take_profits.json`; the quantities found too small |
| `seen`, `orders`, `free` | what the cycle has read, and whether the symbol is blocked in it |
| `step`, `todo`, `plan`, `keep`, `placed` | where the cycle is: orders left to send, the plan at work, what will be saved, whether the repair protects something |
| `missed`, `blind`, `first`, `origin`, `sent`, `served`, `slips` | history for the properties: cycles that overlooked a position and their entries, the cycle of an entry (named by the first it sent), orders per level, levels done, lost answers and crashes |

| action | in the code |
|---|---|
| `ReadPositions`, `ReadOrders` | the parallel requests of `_load_bitunix_details`, each of which may fail; the reserved symbols of `RR` |
| `ReconcileWithoutPosition`, `Defer`, `GiveUp`, `Confirm`, `Fail`, `StartPlacing` | the branches of `reconcile_take_profits` for the plan of the symbol |
| `PlaceAccepted`, `PlaceRejected`, `PlaceLost`, `PlaceTooSmall`, `SavePlans` | its loop of placements and the save at its end |
| `StartRepair`, `RepairAccepted`, `RepairRefused`, `RepairFallback`, `SkipRepair` | `repair_unprotected_positions` |
| `CancelInvalidLimitEntries`, `EntryAccepted`, `EntryLost`, `QueueTakeProfits`, `NoEntry` | the rest of the cycle: an entry for each row of the symbol that gets through, until no more comes (`NoEntry`). What blocks a symbol (`BR:350`, `BA:158`, filled at `RR:778` and by failing reconciliations) is not touched by an order that was sent |
| `FillEntry`, `StopOut`, `Trigger` | the exchange, between any two steps |
| `AgePlan`, `Crash` | time, and a stop of the process |

Prices are multiples of the risk; the stop stays where it was, so the default ladder of
a repair is that of the entry. Each level takes a third instead of 30, 30 and 40 per
cent. A plan ages from fresh to expired (60 s) to orphan (an hour) between cycles.

### LiveLifecycle

| variable | in the code |
|---|---|
| `price`, `qty`, `stop`, `rows`, `taken` | market and exchange: what is left of the position, its stop, its take profits, those triggered and not put back since |
| `plan` | the queued levels are still to be placed |
| `store` | `bitunix_live_lifecycle.json`: whether there is a state, initial quantity, ladder, levels hit, highest price. `current_stop` and `remaining_quantity` are read anew by each reconcile |
| `snapshot` | the checkpoint of the partial-close notices |
| `seen`, `partial`, `candidate`, `todo`, `step` | the cycle: position as read, whether it shrank, the stop and the orders it is about to set |
| `lost` | history: the re-arming of the last partial close was cut off |

| action | in the code |
|---|---|
| `ReadPosition`, `Notice` | account read of `RR`; `notify_new_bitunix_partial_closes` |
| `RegisterFirst`, `RegisterAgain` (and their failures) | `register_existing_live_lifecycle_positions` at its two calls |
| `Monitor`, `MonitorSkips` | `apply_live_lifecycle_monitor`: reconcile, then `update_stop_from_candles` |
| `TightenStop`, `TightenRefused` | `tighten_stop`, which reads the stop again |
| `PlacePlan`, `BuildCoordinator`, `BuildFails` | the reconciliation of plans when the coordinator is built |
| `StartRepair`, `PlaceRepairs`, `PlaceFallback`, `SkipRepair` | `repair_unprotected_positions`, which runs after it in every coordinator build (`RR:815-817`) |
| `Exit`, `NoExit` | exits of the agents |
| `StartRearm`, `RestoreLevel`, `RestoreRejected`, `RearmFails` | `rearm_remaining_take_profits` |
| `Move`, `Trigger`, `StopOut`, `TightenByHand` | market, exchange, operator |

A take profit is known by its price, for the repair measures from the stop that is in
force: with the initial stop its prices are those of a default ladder, later they move
away from it, and at break-even the three are one. The repair asks what rests at each of
its prices and never what was taken there. After the first take profit it therefore
sends, in the cycle that sees the partial close, a new order of 30 per cent of the
remainder to the price that was just taken, and what the reconciliation or the re-arming
restores comes on top. A property that said a taken level stays taken is false of the
code, also of the re-arming alone: when a price of the repair meets a level of the entry
its fill may count as that of the nearer level.

### EntryPipeline

| variable | in the code |
|---|---|
| `mode`, `counters` | execution mode of the settings; `short_confirmation_state.json`, counted up to `Required` |
| `open`, `working` | positions and waiting entry orders, on the exchange or in the paper engine |
| `offered`, `hard`, `soft` | candidates; those with a direction and those to watch, best first |
| `atHard`, `atSoft` | how far the loop of the agents has come in the two lists |
| `reserved`, `sending` | `pending_entry_symbols` (with the adapter's own blocked symbols); `executor.live` |
| `shown`, `entries`, `file` | records of the payload: how many of a symbol are being processed, and all the others; whether the file says it is complete |
| `scanned`, `watched` | what the caps are compared with |
| `monitor`, `decided`, `exits` | positions left to judge; what the paper engine will get |

`Scan` is everything from the rankings to the candidates: streaks, vetoes,
`prepare_paper_signals`, WATCH rows. `Candidate` is `_to_candidate`. `Begin` reads the
account and makes the preview; `PassOver`, `SkipReserved`, `CandlesMissing`, `NoEntry`
and `Enter` are the ways through `_evaluate`; `Monitor`, `Publish`, `RouteEntries`,
`RouteExits` and `EndLive` follow. `Abandon` is an exception of the pipeline or a stop
of the process. Candidates of equal confidence come in any order.

In paper mode the rows of the long ranking, the confirmed shorts and the tracked symbols
become one row per symbol in `prepare_paper_signals`, but the agents see the merged rows
only with ACR or the entry guards enabled (`RR:1643-1655`, `RR:1705-1729`); with both
off they get the unmerged list of live mode. The model is of the shipped configuration,
which has ACR on: `RowsKept` always merges in paper mode, and `PaperOffersOnce` depends
on it.

## 4 Runs

| run | question | result |
|---|---|---|
| `ladder` | does every proposal become a usable ladder, and do paper and live agree where live accepts? | holds, 128 thousand states |
| `ladder_parity` | is the geometry shared, as `lifecycle_contract.py:3-5` says? | violated |
| `trade` | one symbol, whole trades | holds, 76 thousand states |
| `portfolio` | two symbols, one slot | holds, 1.04 million states |
| `solid_profit` | does an IMMEDIATE exit close a position in solid profit, as its docstring says? | violated |
| `limit_zone` | does a LIMIT plan wait for its zone, as `RR:2086-2087` says? | violated |
| `recording` | are closes logged, announced and learned, across crashes and failing requests? | holds, 60 thousand states |
| `exposure` | when may a symbol get a second entry, and which plan gives a position its levels? | holds, 2.6 million states |
| `protection` | do the levels of a plan arrive once each, and is a position protected in the end? | holds, 192 thousand states |
| `lifecycle` | what do trailing, partial closes and re-arming do to one position? | holds, 370 thousand states |
| `pipeline` | from rows to entries over any number of cycles, on paper and live | holds, 119 thousand states |
| `pipeline_reserves` | does a pending entry reserve its symbol, as `RR:1862-1864` says? | violated |

**`ladder`.** Levels lie on both sides of the entry and around 2R, 3R and 4R of
two stop distances, so every branch of the rebuild is taken: levels too near, too
many, repeated, on the wrong side, none. `QuantitiesAgree` compares the split of
the live orders with what the paper engine closes level by level.
`AcceptedLadderIsShared` names the settings that make the two sides differ by design.
`take_profit_percent` has two meanings: one sole level on paper, a replacement of the
first level live. A `stop_loss_percent` wider than the stop of the plan makes paper lift
the first level to twice the *new* risk, while live keeps the level that was planned for
the old one (with risk 1, stop 2 and levels 2, 3, 4: paper 4, 6, 8, live 2, 3, 4). A
paper entry worse than the planned one does the same, and a configured risk-reward
measures from whichever entry it is given. Up to those (`SameMeasure`) both sides place
the same prices.

**`trade`.** Prices 3 to 13 around an entry at 5 reach the stop, every level and,
in one tick, several levels at once. Ten units are the least that split 30/30/40.
One position after another is not needed for any property of this run, since
nothing survives a close but the two accounts; two entries are covered by
`portfolio` and, for every number, by the theorems. The configuration may switch
`auto_exit` in every cycle; the agents are in charge.

- `LadderAccounted`, `BooksBalance`, `RiskFreeAfterPartial`: see section 5.
- `StopNeverLoosens`: five writers, and the stop in force is recomputed a tick
  later. That it holds rests on `NetFloor` growing as units leave and on the
  first level setting the static stop before a swing can see it.
- `KeepsContract`: every step maps to a step of `LifecycleContract` or a stutter,
  under `remaining`, `levels` and `stop` of the position.
- `ExpiredOrderLeaves`, the one liveness property: an expired order is cancelled
  or replaced although its symbol may never be priced again. *Fairness:*
  `WF_vars(Cycle)`. `main` runs its loop until it is stopped and a stopped process
  is started by its supervisor, so a step of the cycle that stays possible is
  taken. Nothing is assumed of prices, time, restarts or of which step it is;
  loops visit each symbol once per call. Restarts cannot starve the scan's call:
  they put the cycle back to its scan, they are not possible within a call, and
  the pending orders are the first thing every call does.

**`portfolio`.** Two symbols compete for one slot, with orders, scanner entries
and agent entries, in one cycle and over several; one full loss uses up the balance. `ExitsOnlyItsTrade` needs two calls of the engine within one cycle: the decision
is made on the positions of the scan, the agents' call closes one and opens its
successor, then the decision arrives. It holds because a new position carries no
profit and fails both gates; the mutant that drops a gate breaks it.
`ClosedIsNotReopened`: a symbol the scan tracks is only followed.

**`recording`.** One paper trade and two live ones, two faults: a fault for the close
and one for its repetition, and a second live close to be confused with the first.
The three liveness properties assume `WF_vars(Cycle)` (the loop of `main` goes on as
long as it runs), and that a request that is made for ever is answered some time:
`SF_vars(LoadDetails(TRUE))`, `SF_vars(SendConfirmed(t))`. All three except a torn
state file: after it every cycle raises before it reaches log and recorder, a fact of
the code that the properties name instead of hiding.
`LiveLearnedOnce` has no allowance for faults, `PaperLearnedOncePerFault` has: the live
recorder reads the journal before it writes, the paper recorder trusts its checkpoint.

**`exposure`.** Two decisions, in one cycle or in two, one fault, a quantity of two, the
least of which something is left after the first level. The number of states comes from
the exchange, which fills, triggers and closes between any two steps. `ExposureIsSingle`
names the only ways to a second entry: a second row of the symbol in the same cycle
(`pipeline_reserves` shows how a symbol comes to two rows), or a cycle whose read of the
positions failed, or saw neither order nor position of an entry that was filled between
its two reads. No *later* cycle adds one. `PositionGetsItsOwnLevels` is about old plans
in the queue; two rows of one cycle leave two plans, of which the newest is taken for
the position whichever of the two entries was filled, and the property says so. The
run does not reach two rows followed by a third decision; the theorem does.

**`protection`.** One decision, a quantity of six, and a minimum that makes either a
level of the repair too small after a partial close, or already a level of the plan.
*Fairness:* the cycle goes round (`WF_vars(Runtime)`), the positions are read with their
identifier some time, the repair that may start again and again starts some time, and
its last resort, one order for the whole position, is accepted some time. Without that,
no code could protect a position. `EventuallyProtected` rests on the repair: a
plan may expire, be rejected for good or be lost in a crash.

**`lifecycle`.** Prices at the first level, where one is taken and the stop may follow,
and at the last, so that a jump takes several levels; ten units in one position, the
least that makes tenths; one fault. A repair that has something to place is counted as
one too: it may happen in every cycle, and each one multiplies the states. A repair
*and* a failed read in one behaviour are therefore beyond this run. The theorems cover
every price, size and number of faults. `NoLevelForgotten` excepts
what the code cannot know: a partial close reported by a cycle that was cut off before
its re-arming, or that came before there was a checkpoint (`lost`). *Fairness:* the cycle goes
round; reads of the position, registration, monitoring and setting of the stop, when
possible again and again, succeed some time. `StoreFollowsPosition` and `StopCatchesUp`
are of the form `[]<>` because a failed read may undo what they say at any time.

**`pipeline`.** Two symbols, one of each kind of row, caps of two and one, two cycles for
a short: the least where the second cap is smaller than the first, where a symbol can
be in all three sources, and where a candidate is left out. Symmetry exchanges the two
symbols; there is no liveness property in this run. Counters stop at `Required`, the
rest is bounded by the rows.

**Disagreements.** Each is a finding in `PROJECT.json`.
1. *`ladder_parity`.* TP2 and TP3 are snapped to structure independently. One
   level beyond 4R, and none between 3R and 4R, becomes both: with risk 1 and a level at
   5 the plan is 2, 5, 5. Paper drops the repeated level and trades a ladder of two; the
   live executor refuses the plan. (A level at exactly 4R does it too: it is TP2, and
   TP3 falls back to the multiple.)
2. *`solid_profit`.* The profit ratio of an exit is measured against the distance
   from the entry to the static stop *as it is now*. After the first take profit,
   or the break-even of hold mode, that is zero, the ratio becomes 0, and every
   exit decision of the agents is suppressed, in profit or in loss.
3. *`limit_zone`.* For a symbol that is not among the pipeline signals the current
   price is the plan's own entry, the middle of its zone: it opens at once.
4. *`pipeline_reserves`.* In live mode a confirmed short that the long ranking lists
   with action SKIP and `short_action` SELL is two candidates. The reservations are
   those of the beginning of the cycle, so both orders go out.

One more, without a run of its own: `notify_new_bitunix_closes` says "Deliver each
authoritative Bitunix full close exactly once" (`RR:318`). It delivers at least once: a
lost answer, or a stop between the message and the checkpoint, repeats it.
`AnnouncedOncePerFault` is the weaker statement that holds, and `CloseIsAnnounced` the
other half; the `1 + faults` of the former is reached.

`CHECK_DEADLOCK FALSE` is said only where an entry ends (`TakeProfitLadder`) and where
a torn state file stops the runtime for good (`TradeRecording`): the other cycles
never stop.

Bounds: `MaxEntries` bounds entry signals of a behaviour, `EntryPrices` the prices
at which market plans are raised; `Prices`, `Swings`, `Plans`, `Ladders` are the
small sets of `MCPaperEngine`. The theorems hold without them.

## 5 Proofs

TLAPS checks every theorem for all values of the constants that satisfy the
assumptions of its module. Those of `PaperEngine` are a finite set of symbols, ordered
ladders in profit, fractions that leave something, a fee floor that does not shrink as
units leave; those of the other modules only give the constants their types, and keep
paper and live trades apart. `LadderAssumption` of `PaperEngine` is itself a theorem,
`LadderIsOrdered`.

### The paper engine

| theorem | says |
|---|---|
| `TypeCorrect` | `[]TypeOK` |
| `LevelsAreAccounted` | `[]LadderAccounted` |
| `BalanceMatchesTradeLog` | `[]BooksBalance` |
| `PartialsMakeRiskFree` | `[]RiskFreeAfterPartial` |
| `CapacityIsRespected` | `[]CapacityRespected` |
| `StopOnlyTightens` | `StopNeverLoosens` |
| `ExitsKeepSuccessors` | `ExitsOnlyItsTrade` |
| `TrackedIsNotEntered` | `ClosedIsNotReopened` |
| `ImplementsContract` | `KeepsContract` |

The argument has three floors.

1. *One position, one tick* (`PaperPositionProofs`). `Sound(p)` says what every
   stored position satisfies: levels in order and accounted for, static stop at
   the initial risk or at the entry, risk-free after a partial, the trailing stop
   armed and above the fees, the effective stop no better than what the two stops
   promise. Each function of `UpdatePosition` (`Marked`, `HoldBreakEven`,
   `Trailed`, `AcrOutcomes`, `Restopped`, `TookLevel`) is shown to keep it and to
   move the stop, the levels and the banked profit the right way only. It is the
   strengthening everything else rests on: `StopNeverLoosens` is not inductive
   without knowing that the stored effective stop never exceeds the better of the
   stored static and trailing stops, from which the next one is computed.
2. *One step* (`PaperEngineProofs`). Every action leaves the book alone, or
   opens, manages or closes the position of one symbol (`StepsOnTheBook`). All
   later arguments are by these four cases, not by actions.
3. *The behaviour* (`PaperTheorems`). `IInv` is `TypeOK`, the book (sound
   positions, balanced accounts, capacity) and three facts about the cycle:
   the visited symbols have what the phase expects (an order, a position, an
   entry); a position renewed since the decisions still stands at its entry price;
   entry signals of the scan's call are never of tracked symbols. Without the
   first the actions would not be typed, without the second and third the last
   two action properties are not provable. `Invariance` is `Spec => []IInv`.

### Trade recording

| theorem | says |
|---|---|
| `RecordingTypes` | `[]TypeOK` |
| `NothingIsSkipped` | `[]CheckpointsClaimOnlyDone` |
| `LiveClosesLearnedOnce` | `[]LiveLearnedOnce` |
| `PaperClosesLearnedOncePerFault` | `[]PaperLearnedOncePerFault` |
| `ClosesAnnouncedOncePerFault` | `[]AnnouncedOncePerFault` |
| `LogIsComplete` | `[]LogMissesOnlyCrashed` |

The bounds on repetitions are not inductive: a loop does its work before it writes its
checkpoint. `Told` and `Kept` are the set in force, the copy in memory during the loop
and the file otherwise; a trade has been repeated at most once per fault, plus once if
that set names it. A crash exchanges the copy for the file and pays for it with a fault.
`LoopOK` says what each loop may still have left. `LogMissesOnlyCrashed` needs of it that
what is left to append was closed and neither logged nor cut off before, and that only
closed trades are logged (`OnlyClosedLogged`).

### The ladder of an entry

Of `TakeProfitLadderProofs`, for any structural levels, any list of up to three levels
from the scanner, any distance of the stop and any preferences:

| theorem | says |
|---|---|
| `TypeCorrect` | `[]TypeOK` |
| `LadderIsOrdered` | `[]PaperLadderIsOrdered`: what `PaperEngine` assumes of `Ladders` |
| `FirstLevelPays` | `[]PaperFirstLevelPaysMinRR` |
| `OrdersMatchCloses` | `[]QuantitiesAgree` |
| `AcceptedIsShared` | `[]AcceptedLadderIsShared` |

The steps of the entry are trivial and the functions are not. `Inv` only says that
the ladders are those of the plan, and that a plan of the Decision Agent has its first
level at `MinRR` and nothing before it (`PlanIsSound`). The rest are lemmas about sets
of at most three levels: how `Lowest` cuts them, that exactly one sequence is their
sorted form (`SortingExists`, `SortedFacts`), and which levels sanitising, lifting and
padding keep. For the quantities `RemainingIs` evaluates the loop of the paper engine
level by level. `LevelsAreShared` is the reason why paper and live agree: as long as the
stop of the position is no wider than the plan's and its entry no worse, the first level
still pays twice the risk (`MovedFacts`), and the live checks leave nothing of an accepted
plan for the rebuild of the paper engine to change; with a configured risk-reward both
sides compute the same multiples (`MultiplesAreShared`).

### Live orders

Of `LiveProtectionProofs`, for any number of decisions and faults and any minimum:

| theorem | says |
|---|---|
| `TypeCorrect` | `[]TypeOK` |
| `SingleExposure` | `[]ExposureIsSingle` |
| `SentOncePerSlip` | `[]LevelsSentOncePerSlip` |
| `OwnLevels` | `PositionGetsItsOwnLevels` |
| `DroppedWhenServed` | `NothingDroppedUnserved` |

The invariant has three parts. `TypeInv` adds to the types what the step at hand works on:
the plan of the placing loop is the newest of the file. `CarryInv` is about entries: one
sent beside an older one was sent in the same cycle, or by a cycle that overlooked a
position (`LatestCarried`); while orders are still to be read, positions read as none are
none unless one was overlooked (`NoneSeenNoneHeld`); while the symbol is not blocked
afterwards, the exchange carries what this cycle has sent and nothing else
(`CarriesItsOwn`), for nothing can be filled until it sends an order itself.
`PlanInv` is about levels: an entry without a plan has sent none (`Forgotten`); a plan
lists every level that has not been served, and what it lists went out at most once per
slip (`PlansSound`), which the loop and the save keep (`LoopSound`, `KeepSound`). A
crash between a placement and the save is the step that needs the slip.

### One live position

Of `LiveLifecycleProofs`, for any prices, levels, trailing distance, size of the entry
and number of faults:

| theorem | says |
|---|---|
| `TypeCorrect` | `[]TypeOK` |
| `StopOnlyTightens` | `StopNeverLoosens` |
| `NoneForgotten` | `[]NoLevelForgotten` |

Between cycles nothing else is needed for `NoLevelForgotten` than what it says; within a
cycle it does not hold, and the invariant follows how the cycle finds a partial close out:
by a checkpoint that is larger than the position, or, without a checkpoint, by a quantity
that is less than the whole. `WholeInv`: while the position is whole, the first level and
every registered level rest, so a position without a checkpoint has missed nothing.
`SeenInv`: what the checkpoint says is at least what the cycle has read, and that at least
what is left. `StepInv`: what each step of the cycle knows, the re-arming that it has a
partial close to handle and something left to send. `RepairInv`: while the checkpoint is up
to date, no report was cut off and no partial close is still to be handled, every registered
level is hit, taken, resting or among what the re-arming is about to send. `Inv` is the four
with `TypeOK`.

Most steps are one of three kinds, and a lemma covers each: the position shrinks and the
checkpoint falls behind it (`ShrinkKeeps`), orders arrive (`ArrivedKeeps`), or the orders
stay as they are (`QuietKeeps`). `RepairKeeps` is the second kind: the repair takes no order
away, and that is all the proof needs of it. The re-arming is the step with arithmetic:
`RoundedIs`, `PartsFit` and `RestoredIs` say that the rounded parts of the nearer missing
levels are together no more than what is left, so the furthest gets a quantity too. `StopOnlyTightens` comes from
`NextTightens`, which looks at each writer of the stop with the position it re-reads. That
a level once taken stays taken is no theorem: it is false of the code (section 3).

### The pipeline

Of `EntryPipelineProofs`, for any rows, symbols, caps and thresholds:

| theorem | says |
|---|---|
| `TypeCorrect` | `[]TypeOK`, the caps of a cycle with it |
| `OneOfferPerSymbol` | `[]PaperOffersOnce` |
| `NoneLeftProcessing` | `[]NothingLeftProcessing` |
| `OnlyForBetter` | `[]LeftOutForBetter` |

`OneOfferPerSymbol` is inductive as it stands; what it takes is that the three sources
of candidates are disjoint and that a candidate keeps the symbol of its row, whichever
half of it speaks. The other two need `WorkInv`, which joins the two ways of counting:
the preview gives its free slots to the first ready candidates of the two lists, the
agents count what they evaluated. A symbol has no more records being processed than its
candidates have places ahead of the agents in the windows of the preview (`ShownAhead`),
what was evaluated is no more than the ready candidates behind them (`CountedBehind`), and
is at least as sure as what is ahead (`EvaluatedAhead`).

### What is only model-checked

Every liveness property: fairness and ENABLED are out of the prover's reach. Every
invariant and every action property that a passing run checks is a theorem.

Where an operator is defined by recursion over data, as with folds and `SelectSeq`, the
prover knows nothing of it. The models therefore state such computations as functions of
levels or places, or by what determines them (a sorted list is *the* increasing sequence of
a set); the few arguments by induction that are left go through the least element of a set
of naturals, which the library gives for a set (`HasLeast`), or go over the three levels
one by one.

## 6 What is left out

- Position sizing, leverage and rounding: one size for all, no rounding to 8
  digits. Amounts are integers.
- `trailing_stop_percent`: an alternative distance that replaces the ATR one and
  the ACR swing; `TrailDistance` depends on the initial risk only.
- Which swing or invalidation candles show: any swing that tightens, any
  invalidation, at any tick after the first level, in the scan's call only (the
  agents' signals carry no candles).
- Several signals of one symbol in one call; the scanner, the pipeline and the
  agents give one each.
- Monitor entries the pipeline skipped, and HOLD without a flag: `MonitorHold` with
  the flag the position has.
- A disabled paper engine, and configurations in which `take_profit` is missing
  from an old state file.

`TradeRecording`
- The content of records and messages; observations a close is matched with. The page of
  100 closed positions is taken to hold all of them. Telegram is configured. A line of the
  journal cut short is not modelled; reports of the paper engine are sent once.

`LiveProtection`
- Several symbols and sides; rounding of quantities and prices; a ladder that the repair
  computes after the stop has moved (`LiveLifecycle` has it). The plan's registration (`LiveLifecycle` has it), and errors
  within it. Start-up order; credentials, leverage and geometry refusals.
- Plans of strategies the code does not write any more, and the placing of a stop for them.
- The repair tool of the operator.
- The refresh after an entry (`RR:2008-2042`): it reads a name that is not defined there,
  raises and is logged, so it does nothing.

`LiveLifecycle`
- Short positions and a second life of the position. Hold mode: the runtime passes an
  empty decision, so it is never asked for.
- Candles: the highest price is any price that is at least the present one, which
  includes candles before the entry. Fees and profit floor are constants of the run.
- Partial placement of the plan, answers lost by the repair and quantities too small for
  it (`LiveProtection` has them). The tolerance with which the repair compares prices.
- Lots: a level of the plan is three or four tenths of the entry exactly, in units as
  small as its eight digits ask for, and reconciling has no tolerance. Parts of the
  re-arming are rounded. What the exchange makes of finer quantities than its lots is not
  known here. Should it execute less than the part of a level, that level would never count
  as hit, and would be restored.

`EntryPipeline`
- What the agents compute: any decision, approval and exit. Candles, policies, language
  models and learning are folded into it. The dry-run mode; settings with
  `execute_decisions` or soft entries off; a mode that changes between cycles. Signals for
  `tracked_symbols` outside the rankings.
- The gap between the two requests of the account read (`LiveProtection` has it).

Not modelled at all, with the reasons in `PROJECT.json`: numeric heuristics (scanner,
strategies, indicators, chart agent), network clients, settings, the event bus, the
dashboard (a reader of the files), reports, backtests, and code that nothing in the
runtime calls (`app/live`, `app/execution/kill_switch.py`).

## 7 Plan

Done: the paper side (`TakeProfitLadder`, *`LifecycleContract`*, `PaperEngine`), the files
between its components (`TradeRecording`), the live side (`LiveProtection`,
`LiveLifecycle`) and what feeds both (`EntryPipeline`), each with its proofs.

Worth doing next, in order of importance:

1. *An abstract live trade.* The promise of `LiveLifecycle` stated as a specification of
   its own, of which the exchange triggers the steps, and a refinement to it.
2. *Several symbols in `LiveProtection`.* The queue is one file for all of them; the
   branch of a symbol without position is what they share.
3. *Hold mode*, when the runtime begins to pass decisions to the monitor.
4. *Lots* in `LiveLifecycle`, once it is known what the exchange does with them.
