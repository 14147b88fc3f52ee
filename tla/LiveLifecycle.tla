----------------------------- MODULE LiveLifecycle -----------------------------
(***************************************************************************)
(* The lifecycle of one open Bitunix position: registration, trailing stop *)
(* and the re-arming of take profits after a partial close.                *)
(*                                                                         *)
(* A live cycle reads the position once and works on that snapshot to its  *)
(* end: it compares the quantity with the one the last cycle wrote down,   *)
(* reports a partial close, registers the position and trails its stop,    *)
(* builds the coordinator (which reconciles the queued take profits and    *)
(* repairs the default ladder), registers again, lets the agents decide on *)
(* an exit, and after a partial close restores the levels that have        *)
(* vanished.  The exchange triggers orders between any two steps, and an   *)
(* operator may tighten the stop by hand.                                  *)
(*                                                                         *)
(* The model is of one long position, whose entry carried the stop and the *)
(* first take profit; the other two are placed by the coordinator.  A take *)
(* profit is known by its price.  The repair measures its prices from the  *)
(* stop of the moment, which trails: its ladder moves away from the one of *)
(* the entry, and a price may be taken more than once.                     *)
(***************************************************************************)
EXTENDS Integers, FiniteSets, FiniteSetsExt, Functions

CONSTANTS
  Prices,        \* prices the market visits
  Entry,         \* entry price
  InitialStop,
  LevelPrice,    \* prices of the three take profits
  Tenth,         \* a tenth of the quantity of the entry: the unit is as small as
                 \* the parts of the entry need
  Percent,       \* trailing_stop_percent of the settings
  Fees,          \* what the taker fees add to the break-even price
  LeastProfit,   \* net profit a trailed stop has to leave
  MaxFaults      \* bound: crashes, failed reads, rejected orders of the re-arming,
                 \* and repairs that have something to place

ASSUME PricesAssumption == Prices \subseteq Nat /\ IsFiniteSet(Prices)
ASSUME EntryAssumption == Entry \in Nat /\ InitialStop \in 1..Entry - 1
\* _valid_protection_levels
ASSUME LevelAssumption ==
  /\ LevelPrice \in [1..3 -> Nat]
  /\ LevelPrice[1] < LevelPrice[2] /\ LevelPrice[2] < LevelPrice[3]
ASSUME SizeAssumption == Tenth \in Nat \ {0}
ASSUME TrailAssumption == Percent \in 1..99 /\ Fees \in Nat /\ LeastProfit \in Nat
ASSUME FaultsAssumption == MaxFaults \in Nat

VARIABLES
  price,      \* of the market
  qty,        \* what is left of the position
  stop,       \* the stop on the exchange
  rows,       \* take profits on the exchange: price -> quantity
  plan,       \* the queued levels are still to be placed
  store,      \* the lifecycle state of the position; a file
  snapshot,   \* quantity in the partial-close checkpoint, 0 when it has no row
  step,       \* where the cycle is
  seen,       \* the position as the cycle has read it
  partial,    \* the cycle has seen a smaller quantity than the checkpoint
  candidate,  \* stop the controller is about to set
  todo,       \* take profits the present loop has left to place: price -> quantity
  taken,      \* prices that have been triggered and not been put back since
  lost,       \* the re-arming has missed a partial close: a fault intervened, or
              \* the close came before the checkpoint or the state was written
  faults

exchange == <<qty, stop, rows, taken>>
cycle == <<seen, partial, candidate, todo>>
vars == <<price, exchange, plan, store, snapshot, step, cycle, lost, faults>>

Levels == 1..3
Tenths == <<3, 3, 4>>   \* TP_FRACTIONS, DEFAULT_TP_FRACTIONS
Size == 10 * Tenth
Part(l) == Tenth * Tenths[l]
Ladder == Range(LevelPrice)

\* The sum of what a function says of the levels.
Total(f) == f[1] + f[2] + f[3]

Trail(peak) == (peak * (100 - Percent)) \div 100
\* trailing_net_profit_floor
ProfitFloor(q) == Entry + Fees + (LeastProfit + q - 1) \div q
Activation == Entry * (100 + Percent)

\* DEFAULT_TP_R_MULTIPLES: two, three and four times the distance to the stop.
RepairPrice(s, l) == Entry + (l + 1) * Max({Entry - s, s - Entry})

Peaks == Prices \union {Entry}
Stops == {Trail(p) : p \in Peaks} \union {InitialStop}
Targets == Ladder \union {RepairPrice(s, l) : s \in Stops, l \in Levels}

Unregistered ==
  [known |-> FALSE, initial |-> 0, levels |-> {}, hit |-> {}, peak |-> 0]
NotSeen == [open |-> FALSE, qty |-> 0, stop |-> 0]
NoOrders == [p \in {} |-> 0]
NothingRests == [p \in Targets |-> 0]
IsOrders(f) == DOMAIN f \subseteq Targets /\ \A p \in DOMAIN f : f[p] \in Nat
Open == qty > 0

\* The nearest three of a set of prices.
Nearest(some) == {p \in some : Cardinality({k \in some : k < p}) < 3}

\* The place of a level in a ladder, the nearest first.
Place(l, ladder) == Cardinality({k \in ladder : k <= l})

TypeOK ==
  /\ price \in Prices
  /\ qty \in 0..Size /\ stop \in Stops /\ rows \in [Targets -> Nat]
  /\ plan \in BOOLEAN
  /\ store \in [known : BOOLEAN, initial : 0..Size, levels : SUBSET Targets,
                hit : SUBSET Targets, peak : Peaks \union {0}]
  /\ store.hit \subseteq store.levels
  /\ \A p \in store.levels : Place(p, store.levels) \in Levels
  /\ snapshot \in 0..Size
  /\ step \in {"idle", "notice", "monitor", "trail", "tighten", "coordinator",
               "repair", "repairing", "completing", "register", "pipeline", "rearm",
               "placing"}
  /\ seen \in [open : BOOLEAN, qty : 0..Size, stop : Stops \union {0}]
  /\ partial \in BOOLEAN /\ candidate \in Stops \union {0}
  /\ IsOrders(todo)
  /\ taken \in SUBSET Targets
  /\ lost \in BOOLEAN /\ faults \in 0..MaxFaults

Init ==
  /\ price \in {p \in Prices : p > InitialStop}
  /\ qty = Size /\ stop = InitialStop
  /\ rows = [NothingRests EXCEPT ![LevelPrice[1]] = Part(1)]
  /\ taken = {} /\ plan = TRUE
  /\ store = Unregistered /\ snapshot = 0
  /\ step = "idle" /\ seen = NotSeen /\ partial = FALSE
  /\ candidate = 0 /\ todo = NoOrders
  /\ lost = FALSE /\ faults = 0

Fault == faults < MaxFaults /\ faults' = faults + 1

inside == <<plan, store, snapshot, step, cycle, lost, faults>>

-----------------------------------------------------------------------------
(* The market, the exchange and the operator.                              *)

Move(p) ==
  /\ Open /\ price' = p
  /\ UNCHANGED <<exchange, inside>>

Close ==
  /\ qty' = 0 /\ rows' = NothingRests /\ taken' = {}
  /\ UNCHANGED <<price, stop, inside>>

StopOut == Open /\ price <= stop /\ Close

\* A take profit closes its part, the nearest one first; the exchange may drop
\* the others with it.
Trigger(p, detach) ==
  /\ rows[p] > 0 /\ price >= p
  /\ \A k \in Targets : k < p => rows[k] = 0
  /\ IF rows[p] >= qty
     THEN Close
     ELSE /\ qty' = qty - rows[p]
          /\ taken' = taken \union {p}
          /\ rows' = IF detach THEN NothingRests ELSE [rows EXCEPT ![p] = 0]
          /\ UNCHANGED <<price, stop, inside>>

\* The operator tightens the stop by hand.
TightenByHand(s) ==
  /\ Open /\ s \in {Trail(p) : p \in Prices}
  /\ s > stop /\ s < price
  /\ stop' = s
  /\ UNCHANGED <<price, qty, rows, taken, inside>>

-----------------------------------------------------------------------------
(* The cycle begins: the snapshot, and the partial-close notice.           *)

EndCycle ==
  /\ step' = "idle" /\ seen' = NotSeen /\ partial' = FALSE
  /\ candidate' = 0 /\ todo' = NoOrders

\* The checkpoint has moved on, the next cycle sees no partial close.
Reported == partial /\ snapshot = seen.qty

\* A restart forgets the snapshot, the files stay.
Crash ==
  /\ step # "idle" /\ Fault
  /\ EndCycle
  /\ lost' = (lost \/ Reported)
  /\ UNCHANGED <<price, exchange, plan, store, snapshot>>

\* Positions that could not be read count as none.
ReadPosition(ok) ==
  LET open == ok /\ Open
  IN /\ step = "idle"
     /\ IF ok THEN UNCHANGED faults ELSE Fault
     /\ seen' = IF open THEN [open |-> TRUE, qty |-> qty, stop |-> stop] ELSE NotSeen
     /\ partial' = (open /\ snapshot > qty)
     /\ step' = "notice"
     /\ UNCHANGED <<price, exchange, plan, store, snapshot, candidate, todo, lost>>

\* notify_new_bitunix_partial_closes writes the snapshot, unless some partial
\* close has no fills yet or the order history could not be read.
Notice(written) ==
  /\ step = "notice"
  /\ snapshot' = IF written THEN seen.qty ELSE snapshot
  /\ lost' = (lost \/ (written /\ seen.open /\ snapshot = 0 /\ seen.qty < Size))
  /\ step' = IF seen.open THEN "monitor" ELSE "coordinator"
  /\ UNCHANGED <<price, exchange, plan, store, cycle, faults>>

-----------------------------------------------------------------------------
(* register_existing_live_lifecycle_positions: states of positions that    *)
(* were not read are deleted, positions without a state are adopted with   *)
(* the nearest of what rests on the exchange.                              *)

Resting == {p \in Targets : rows[p] > 0}

Adopted ==
  [known |-> TRUE, initial |-> seen.qty, levels |-> Nearest(Resting), hit |-> {},
   peak |-> 0]

\* Defect: states of positions that were not read stay.
RegisterKeepingStale ==
  store' = IF ~seen.open \/ store.known THEN store ELSE Adopted

RegisterExisting ==
  store' = IF ~seen.open THEN Unregistered
           ELSE IF store.known THEN store ELSE Adopted

RegisterFirst ==
  /\ step = "monitor"
  /\ RegisterExisting
  /\ step' = "trail"
  /\ UNCHANGED <<price, exchange, plan, snapshot, cycle, lost, faults>>

\* What rests on the exchange cannot be read: the position stays as it was.
RegisterFirstFails ==
  /\ step = "monitor" /\ ~store.known /\ Fault
  /\ step' = "trail"
  /\ UNCHANGED <<price, exchange, plan, store, snapshot, cycle, lost>>

-----------------------------------------------------------------------------
(* LiveLifecycleController.reconcile: quantity of the snapshot, orders of  *)
(* the moment.                                                             *)

Consumed == store.initial - seen.qty

\* The first i levels of the ladder.
CumulativeTenths(i) == Total([k \in Levels |-> IF k <= i THEN Tenths[k] ELSE 0])

\* Ten times what the position has lost once level l and those before it are taken.
Share(l) == store.initial * CumulativeTenths(Place(l, store.levels))

\* Level l of the ladder is gone and its part has been taken.
LevelConsumed(l) == rows[l] = 0 /\ Consumed * 10 >= Share(l)

\* Defect: the position in the ladder is taken for the level.
ReconciledByIndex ==
  [store EXCEPT !.hit =
     @ \union {Place(l, store.levels) : l \in {k \in store.levels : LevelConsumed(k)}}]

Reconciled == [store EXCEPT !.hit = @ \union {l \in store.levels : LevelConsumed(l)}]

\* Defect: a stop that protects a profit is not trailed any more.
MonitorToBreakEven(high) ==
  LET peak == Max({IF store.peak > 0 THEN store.peak ELSE Entry, high})
      new == Trail(peak)
      tighten == /\ peak * 100 >= Activation
                 /\ new >= ProfitFloor(seen.qty)
                 /\ Open => stop < Entry
  IN /\ step = "trail" /\ store.known
     /\ high \in Prices /\ high >= price
     /\ store' = [Reconciled EXCEPT !.peak = peak]
     /\ candidate' = IF tighten THEN new ELSE 0
     /\ step' = IF tighten THEN "tighten" ELSE "coordinator"
     /\ UNCHANGED <<price, exchange, plan, snapshot, seen, partial, todo, lost,
                    faults>>

\* apply_live_lifecycle_monitor: reconcile, then update_stop_from_candles.  The
\* highest price of the candles is at least the price of now; it may be one of
\* long ago, or of before the entry.
Monitor(high) ==
  LET peak == Max({IF store.peak > 0 THEN store.peak ELSE Entry, high})
      new == Trail(peak)
      tighten == /\ peak * 100 >= Activation
                 /\ new >= ProfitFloor(seen.qty)
                 /\ Open => new > stop
  IN /\ step = "trail" /\ store.known
     /\ high \in Prices /\ high >= price
     /\ store' = [Reconciled EXCEPT !.peak = peak]
     /\ candidate' = IF tighten THEN new ELSE 0
     /\ step' = IF tighten THEN "tighten" ELSE "coordinator"
     /\ UNCHANGED <<price, exchange, plan, snapshot, seen, partial, todo, lost,
                    faults>>

\* Not registered, or candles or orders cannot be read.
MonitorSkips ==
  /\ step = "trail"
  /\ IF store.known THEN Fault ELSE UNCHANGED faults
  /\ step' = "coordinator"
  /\ UNCHANGED <<price, exchange, plan, store, snapshot, cycle, lost>>

\* Defect: the stop is set without reading it again.
TightenBlindly ==
  /\ step = "tighten" /\ Open
  /\ stop' = candidate
  /\ candidate' = 0
  /\ step' = "coordinator"
  /\ UNCHANGED <<price, qty, rows, taken, plan, store, snapshot, seen, partial, todo,
                 lost, faults>>

\* tighten_stop reads the stop again; it has to be one, and a looser one.
TightenStop ==
  /\ step = "tighten" /\ Open
  /\ candidate > stop
  /\ stop' = candidate
  /\ candidate' = 0
  /\ step' = "coordinator"
  /\ UNCHANGED <<price, qty, rows, taken, plan, store, snapshot, seen, partial, todo,
                 lost, faults>>

\* No stop any more, tightened meanwhile, or refused as beyond the market.
TightenRefused ==
  /\ step = "tighten"
  /\ ~Open \/ candidate <= stop \/ candidate >= price
  /\ candidate' = 0
  /\ step' = "coordinator"
  /\ UNCHANGED <<price, exchange, plan, store, snapshot, seen, partial, todo, lost,
                 faults>>

-----------------------------------------------------------------------------
(* The coordinator is built: reconcile_take_profits places what is short   *)
(* of the queued levels and registers the position, unless it is           *)
(* registered.                                                             *)

Planned ==
  [known |-> TRUE, initial |-> Size, levels |-> Ladder, hit |-> {}, peak |-> 0]

\* The first level went out with the entry.
Queued == {LevelPrice[2], LevelPrice[3]}
PartAt(p) == Part(CHOOSE l \in Levels : LevelPrice[l] = p)

PlacePlan ==
  LET short == {p \in Queued : rows[p] < PartAt(p)}
  IN /\ step = "coordinator" /\ seen.open /\ plan /\ Open
     /\ rows' = [p \in Targets |-> IF p \in short THEN PartAt(p) ELSE rows[p]]
     /\ taken' = taken \ short
     /\ plan' = FALSE
     /\ store' = IF store.known THEN store ELSE Planned
     /\ lost' = (lost \/ (~store.known /\ seen.qty < Size))
     /\ step' = "repair"
     /\ UNCHANGED <<price, qty, stop, snapshot, cycle, faults>>

\* Nothing to place, or not placed yet.
BuildCoordinator ==
  /\ step = "coordinator"
  /\ step' = IF seen.open THEN "repair" ELSE "register"
  /\ UNCHANGED <<price, exchange, plan, store, snapshot, cycle, lost, faults>>

\* Without a coordinator nothing is registered or re-armed.
BuildFails ==
  /\ step = "coordinator" /\ Fault
  /\ EndCycle
  /\ lost' = (lost \/ Reported)
  /\ UNCHANGED <<price, exchange, plan, store, snapshot>>

-----------------------------------------------------------------------------
(* repair_unprotected_positions: the default ladder of the quantity and    *)
(* the stop that the cycle has read, taken or not.                         *)

\* In whole units, at least one.
RepairShare(l) == (seen.qty * Tenths[l] + 9) \div 10

\* What a price of the ladder is short of; with the stop at the entry the three
\* prices are one.
ShortAt(p) ==
  Total([l \in Levels |-> IF RepairPrice(seen.stop, l) = p
                           THEN Max({0, RepairShare(l) - rows[p]}) ELSE 0])

DefaultLadder ==
  LET short == {p \in {RepairPrice(seen.stop, l) : l \in Levels} : ShortAt(p) > 0}
  IN [p \in short |-> ShortAt(p)]

\* The rest of the cycle does without the stop it has read.
EndRepair ==
  /\ step' = "register" /\ todo' = NoOrders
  /\ seen' = [seen EXCEPT !.stop = 0]
  /\ UNCHANGED <<partial, candidate>>

\* Nothing is short, or what rests on the exchange cannot be read.
SkipRepair ==
  /\ step = "repair"
  /\ EndRepair
  /\ UNCHANGED <<price, exchange, plan, store, snapshot, lost, faults>>

StartRepair ==
  /\ step = "repair" /\ DefaultLadder # NoOrders /\ Fault
  /\ todo' = DefaultLadder
  /\ step' = IF Resting = {} THEN "repairing" ELSE "completing"
  /\ UNCHANGED <<price, exchange, plan, store, snapshot, seen, partial, candidate, lost>>

\* Orders for a position that is gone are rejected.
Arrive(orders) ==
  /\ rows' = [p \in Targets |-> rows[p] + (IF p \in DOMAIN orders THEN orders[p] ELSE 0)]
  /\ taken' = taken \ DOMAIN orders
  /\ UNCHANGED <<price, qty, stop, plan, store, snapshot>>

\* The nearest prices are placed first, and the first rejection ends the ladder.
PlaceRepairs(placed) ==
  /\ step \in {"repairing", "completing"}
  /\ placed \subseteq DOMAIN todo /\ (placed # {} => Open)
  /\ \A p \in placed, k \in DOMAIN todo : k < p => k \in placed
  /\ Arrive(Restrict(todo, placed))
  /\ EndRepair
  /\ UNCHANGED <<lost, faults>>

\* Nothing protects the position and the nearest price was rejected: one order for
\* all of it.
PlaceFallback ==
  /\ step = "repairing" /\ Open
  /\ Arrive([p \in {RepairPrice(seen.stop, 1)} |-> seen.qty])
  /\ EndRepair
  /\ UNCHANGED <<lost, faults>>

-----------------------------------------------------------------------------
(* The cycle goes on with the position it has read.                        *)

Continue == IF partial THEN step' = "rearm" /\ UNCHANGED cycle ELSE EndCycle

RegisterAgain ==
  /\ step = "register"
  /\ RegisterExisting
  /\ IF seen.open THEN step' = "pipeline" /\ UNCHANGED cycle ELSE EndCycle
  /\ UNCHANGED <<price, exchange, plan, snapshot, lost, faults>>

\* What rests on the exchange can still not be read.  The agents are not asked in
\* such a cycle.
RegisterAgainFails ==
  /\ step = "register" /\ seen.open /\ ~store.known
  /\ Continue
  /\ UNCHANGED <<price, exchange, plan, store, snapshot, lost, faults>>

\* An IMMEDIATE exit of the agents closes what is left of the position.
Exit ==
  /\ step = "pipeline" /\ Open
  /\ qty' = 0 /\ rows' = NothingRests /\ taken' = {}
  /\ Continue
  /\ UNCHANGED <<price, stop, plan, store, snapshot, lost, faults>>

\* The agents hold, the order is refused, or the exit may wait for the next
\* candle: the gate takes every profit for 0.5 R and suppresses such an exit.
NoExit ==
  /\ step = "pipeline"
  /\ Continue
  /\ UNCHANGED <<price, exchange, plan, store, snapshot, lost, faults>>

-----------------------------------------------------------------------------
(* rearm_remaining_take_profits                                            *)

\* Defect: only the next level is restored.
NextMissing(state) ==
  {l \in state.levels \ state.hit :
     rows[l] = 0 /\ \A k \in state.levels \ state.hit : rows[k] = 0 => l <= k}

Missing(state) == {l \in state.levels \ state.hit : rows[l] = 0}

\* round(): a quotient to the nearest number, of two to the even one.
Rounded(a, b) ==
  LET down == a \div b
      twice == 2 * (a % b)
  IN IF twice > b \/ (twice = b /\ down % 2 = 1) THEN down + 1 ELSE down

\* All that remains is shared among the missing levels, the last one takes
\* what rounding leaves.
Restored(state) ==
  LET missing == Missing(state)
      tenths == [i \in Levels |->
                   IF \E p \in missing : Place(p, state.levels) = i THEN Tenths[i] ELSE 0]
      part(i) == Rounded(seen.qty * tenths[i], Total(tenths))
      before(i) == Total([k \in Levels |-> IF k < i THEN part(k) ELSE 0])
  IN [p \in missing |->
        IF \A k \in missing : k <= p
        THEN seen.qty - before(Place(p, state.levels))
        ELSE part(Place(p, state.levels))]

StartRearm ==
  /\ step = "rearm" /\ store.known
  /\ store' = Reconciled
  /\ IF Missing(Reconciled) = {}
     THEN EndCycle
     ELSE /\ todo' = Restored(Reconciled) /\ step' = "placing"
          /\ UNCHANGED <<seen, partial, candidate>>
  /\ lost' = FALSE
  /\ UNCHANGED <<price, exchange, plan, snapshot, faults>>

\* Not registered, or the orders cannot be read: the error is logged.
RearmFails ==
  /\ step = "rearm"
  /\ IF store.known THEN Fault ELSE UNCHANGED faults
  /\ lost' = TRUE
  /\ EndCycle
  /\ UNCHANGED <<price, exchange, plan, store, snapshot>>

\* The order that is placed next.
NextOrder == Min(DOMAIN todo)

RestoreLevel ==
  /\ step = "placing" /\ Open /\ todo[NextOrder] > 0
  /\ Arrive([p \in {NextOrder} |-> todo[p]])
  /\ IF DOMAIN todo = {NextOrder}
     THEN EndCycle
     ELSE /\ todo' = Restrict(todo, DOMAIN todo \ {NextOrder})
          /\ UNCHANGED <<step, seen, partial, candidate>>
  /\ UNCHANGED <<lost, faults>>

\* The first rejection leaves the rest of the ladder as it is.  Orders of nothing,
\* or of a position that is gone, are always rejected.
RestoreRejected ==
  /\ step = "placing"
  /\ IF Open /\ todo[NextOrder] > 0 THEN Fault ELSE UNCHANGED faults
  /\ lost' = TRUE
  /\ EndCycle
  /\ UNCHANGED <<price, exchange, plan, store, snapshot>>

-----------------------------------------------------------------------------

Runtime ==
  \/ \E ok \in BOOLEAN : ReadPosition(ok)
  \/ \E written \in BOOLEAN : Notice(written)
  \/ RegisterFirst \/ RegisterFirstFails
  \/ \E high \in Prices : Monitor(high)
  \/ MonitorSkips \/ TightenStop \/ TightenRefused
  \/ PlacePlan \/ BuildCoordinator \/ BuildFails
  \/ SkipRepair \/ StartRepair \/ PlaceFallback
  \/ \E placed \in SUBSET Targets : PlaceRepairs(placed)
  \/ RegisterAgain \/ RegisterAgainFails \/ Exit \/ NoExit
  \/ StartRearm \/ RearmFails \/ RestoreLevel \/ RestoreRejected

Outside ==
  \/ StopOut
  \/ \E p \in Prices : Move(p) \/ TightenByHand(Trail(p))
  \/ \E p \in Targets, detach \in BOOLEAN : Trigger(p, detach)

Next == Runtime \/ Outside \/ Crash

Spec == Init /\ [][Next]_vars

\* The process goes round, and what it asks the exchange again and again is
\* answered some time.
Fairness ==
  /\ WF_vars(Runtime)
  /\ SF_vars(ReadPosition(TRUE)) /\ SF_vars(RegisterAgain)
  /\ SF_vars(\E high \in Prices : Monitor(high)) /\ SF_vars(TightenStop)

FairSpec == Spec /\ Fairness

-----------------------------------------------------------------------------
(* Properties.                                                             *)

\* While the position is open its stop only tightens, also when the controller
\* works on a state and a snapshot that are older than the operator's change.
StopNeverLoosens == [][qty' > 0 => stop' >= stop]_vars

\* Between cycles every registered level is hit or taken, or rests on the exchange,
\* unless the cycle that reported the partial close was cut off before it could
\* re-arm.
NoLevelForgotten ==
  step = "idle" /\ Open /\ store.known /\ snapshot = qty /\ ~lost =>
    \A p \in store.levels : p \in store.hit \/ p \in taken \/ rows[p] > 0

\* The store follows the position: an open position comes under the lifecycle
\* again whatever deleted its state, and the state of a closed one goes.
StoreFollowsPosition == []<>(store.known <=> Open)

\* The stop does not stay behind the trailing distance of the highest price
\* while the market is above it and it protects a profit.
Behind ==
  /\ Open /\ store.known /\ store.peak * 100 >= Activation
  /\ Trail(store.peak) >= ProfitFloor(qty)
  /\ stop < Trail(store.peak) /\ Trail(store.peak) < price

StopCatchesUp == []<>~Behind

=============================================================================
