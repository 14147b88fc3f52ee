---------------------------- MODULE LiveProtection ----------------------------
(***************************************************************************)
(* Live entries on Bitunix and the take profits that protect them.         *)
(*                                                                         *)
(* An entry order carries its stop and its first take profit; the other    *)
(* two levels wait in logs/bitunix_pending_take_profits.json until the     *)
(* exchange shows the position.  Every live cycle reads the account once,  *)
(* reconciles the waiting plans with what rests on the exchange, repairs   *)
(* the default ladder, drops LIMIT entries that lost their setup and may   *)
(* then send entries: one for each row of the symbol that gets through, as *)
(* nothing it sends blocks the symbol before the next cycle.  The exchange *)
(* goes on by itself all the time: it fills entries, triggers take profits *)
(* and closes positions between any two steps, and an answer of it may be  *)
(* lost.                                                                   *)
(*                                                                         *)
(* The model is of one symbol, on one side.  Prices are distances from the *)
(* entry price in multiples of the risk, which the stop keeps as it was at *)
(* the entry; each level of a ladder takes a third.                        *)
(*                                                                         *)
(* A ladder is a function from levels to quantities, worked off from the   *)
(* nearest level on.  The queue file lists its plans in the order of the   *)
(* entries, which their entries keep: it is a set of plans.                *)
(***************************************************************************)
EXTENDS Integers, FiniteSets, FiniteSetsExt, Functions

CONSTANTS
  Decisions,     \* bound: entry decisions the pipeline takes
  Quantity,      \* size of an entry
  Minimums,      \* what the largest quantity refused as too small may be
  ConfiguredRR,  \* target_risk_reward of the settings, 0 when it is not set
  MaxFaults      \* bound: crashes, lost answers and failed position reads

ASSUME DecisionsAssumption == Decisions \in Nat
ASSUME QuantityAssumption == Quantity \in Nat \ {0}
ASSUME MinimumAssumption == Minimums \subseteq Nat
ASSUME RRAssumption == ConfiguredRR \in Nat
ASSUME FaultsAssumption == MaxFaults \in Nat

VARIABLES
  least,     \* the largest quantity the exchange refuses; only it knows
  working,   \* entry orders that rest on the exchange
  held,      \* entries the open position was made from; {} without a position
  qty,       \* what is left of the position
  resting,   \* take profits on the exchange: price -> quantity
  plans,     \* the queue file
  minimum,   \* largest quantity the exchange refused as too small; a file
  step,      \* where the cycle is
  seen,      \* the position the cycle has read
  orders,    \* the working entries it has read
  free,      \* the symbol is not blocked in this cycle
  todo,      \* ladder the present loop has left to send
  plan,      \* the plan being reconciled, or the one about to be queued
  keep,      \* the plans the reconciliation is about to save
  placed,    \* no fallback: an order of the repair went in or others were there
  next,      \* next entry decision
  missed,    \* the cycle overlooks a position: the read of the positions failed,
             \* or an entry was filled between the two reads
  blind,     \* entries sent in such a cycle
  first,     \* the first entry the cycle has sent, 0 before it
  origin,    \* the first entry of the cycle an entry was sent in
  sent,      \* orders accepted from the reconciliation, of entry and level
  served,    \* levels found or put on the exchange, or refused as too small
  slips,     \* lost answers and crashes while reconciling the plan of an entry
  faults

exchange == <<least, working, held, qty, resting>>
files == <<plans, minimum>>
reading == <<seen, orders, free>>
ghosts == <<missed, blind, first, origin, sent, served, slips>>
vars == <<exchange, files, step, reading, todo, plan, keep, placed, next, ghosts,
          faults>>

Entries == 1..Decisions   \* in the order they are taken
Levels == 1..3
Queued == 2..3            \* take_profit_1 is attached to the entry
MaxAttempts == 3          \* TP_MAX_PLACEMENT_ATTEMPTS

\* take_profit_levels with the ladder of the settings, or the default one.
PlanPrice(l) == l - 1 + IF ConfiguredRR > 0 THEN ConfiguredRR ELSE 2
DefaultPrice(l) == l + 1
\* The price is worked out again from the fill when the settings name a target.
PlacePrice(l) == IF ConfiguredRR > 0 THEN ConfiguredRR ELSE PlanPrice(l)
Prices == {PlanPrice(l) : l \in Levels} \union {DefaultPrice(l) : l \in Levels}

Share(q) == Max({1, q \div 3})

NoLadder == [l \in {} |-> 0]
NoPlan == [entry |-> 0, age |-> "fresh", need |-> NoLadder, attempts |-> 0,
           status |-> "tp_pending"]
NotSeen == [open |-> FALSE, known |-> FALSE, qty |-> 0]
NothingRests == [p \in Prices |-> 0]

IsLadder(ladder, levels) ==
  DOMAIN ladder \subseteq levels /\ ladder \in [DOMAIN ladder -> Nat]
IsPlan(p) ==
  /\ p \in [entry : Entries,
            age : {"fresh", "expired", "orphan"},   \* below 60 s, an hour, above
            need : {p.need}, attempts : 0..MaxAttempts,
            status : {"tp_pending", "manual_action_required", "protection_failed"}]
  /\ IsLadder(p.need, Queued)

EntriesOf(some) == {p.entry : p \in some}

TypeOK ==
  /\ least \in Minimums
  /\ working \in SUBSET Entries /\ held \in SUBSET Entries
  /\ qty \in Nat /\ (qty > 0 <=> held # {})
  /\ resting \in [Prices -> Nat]
  /\ (\A p \in plans : IsPlan(p)) /\ minimum \in 0..least
  /\ step \in {"idle", "orders", "reconcile", "place", "save", "repair", "repairing",
               "fallback", "cancel", "entry", "queue"}
  /\ seen \in [open : BOOLEAN, known : BOOLEAN, qty : Nat]
  /\ orders \in SUBSET Entries /\ free \in BOOLEAN
  /\ IsLadder(todo, Levels) /\ (plan = NoPlan \/ IsPlan(plan))
  /\ \A p \in keep : IsPlan(p)
  /\ placed \in BOOLEAN
  /\ next \in 1..Decisions + 1 /\ missed \in BOOLEAN /\ blind \in SUBSET Entries
  /\ first \in 0..Decisions /\ origin \in [Entries -> 0..Decisions]
  /\ sent \in [Entries -> [Queued -> Nat]]
  /\ served \in [Entries -> SUBSET Queued] /\ slips \in [Entries -> Nat]
  /\ faults \in 0..MaxFaults

Init ==
  /\ least \in Minimums
  /\ working = {} /\ held = {} /\ qty = 0 /\ resting = NothingRests
  /\ plans = {} /\ minimum = 0
  /\ step = "idle" /\ seen = NotSeen /\ orders = {} /\ free = FALSE
  /\ todo = NoLadder /\ plan = NoPlan /\ keep = {} /\ placed = FALSE
  /\ next = 1 /\ missed = FALSE /\ blind = {}
  /\ first = 0 /\ origin = [e \in Entries |-> 0]
  /\ sent = [e \in Entries |-> [l \in Queued |-> 0]]
  /\ served = [e \in Entries |-> {}] /\ slips = [e \in Entries |-> 0]
  /\ faults = 0

Fault == faults < MaxFaults /\ faults' = faults + 1

-----------------------------------------------------------------------------
(* The exchange.                                                           *)

FillEntry(e) ==
  /\ e \in working
  /\ working' = working \ {e} /\ held' = held \union {e}
  /\ qty' = qty + Quantity
  \* The attached take profit closes the share of the first level.
  /\ resting' = [resting EXCEPT ![PlanPrice(1)] = @ + Share(Quantity)]
  /\ missed' = (missed \/ step = "orders")
  /\ UNCHANGED <<least, files, step, reading, todo, plan, keep, placed, next, blind,
                 first, origin, sent, served, slips, faults>>

elsewhere == <<least, files, step, reading, todo, plan, keep, placed, next, ghosts,
               faults>>

Close ==
  /\ held' = {} /\ qty' = 0 /\ resting' = NothingRests
  /\ UNCHANGED <<working, elsewhere>>

StopOut == held # {} /\ Close

\* The price reaches the nearest take profit.
Trigger ==
  LET live == {p \in Prices : resting[p] > 0}
      p == Min(live)
  IN /\ held # {} /\ live # {}
     /\ IF resting[p] >= qty
        THEN Close
        ELSE /\ qty' = qty - resting[p]
             /\ resting' = [resting EXCEPT ![p] = 0]
             /\ UNCHANGED <<working, held, elsewhere>>

Arrive(price, quantity) == resting' = [resting EXCEPT ![price] = @ + quantity]

-----------------------------------------------------------------------------
(* Time, and a stop of the process.                                        *)

Older(p) == [p EXCEPT !.age = IF @ = "fresh" THEN "expired" ELSE "orphan"]

AgePlan(p) ==
  /\ p \in plans /\ p.age # "orphan"
  /\ step = "idle"
  /\ plans' = (plans \ {p}) \union {Older(p)}
  /\ UNCHANGED <<exchange, minimum, step, reading, todo, plan, keep, placed, next,
                 ghosts, faults>>

EndCycle ==
  /\ step' = "idle"
  /\ seen' = NotSeen /\ orders' = {} /\ free' = FALSE /\ missed' = FALSE
  /\ first' = 0

\* What the memory held is gone, the files and the exchange stay.
Crash ==
  /\ step # "idle" /\ Fault
  /\ EndCycle
  /\ todo' = NoLadder /\ plan' = NoPlan /\ keep' = {} /\ placed' = FALSE
  /\ slips' = IF step \in {"place", "save"}
              THEN [slips EXCEPT ![plan.entry] = @ + 1] ELSE slips
  /\ UNCHANGED <<exchange, files, next, blind, origin, sent, served>>

-----------------------------------------------------------------------------
(* The account is read once, its parts in parallel.  A symbol with a       *)
(* position or a working entry takes no new one, and nothing is sent when  *)
(* the orders could not be read; positions that could not be read count as *)
(* none.  The reconciliation runs when some position, maybe of another     *)
(* symbol, was read.                                                       *)

ReadPositions(ok, known) ==
  LET open == ok /\ held # {}
  IN /\ step = "idle"
     /\ IF ok THEN UNCHANGED faults ELSE Fault
     /\ seen' = [open |-> open, known |-> open /\ known, qty |-> IF open THEN qty ELSE 0]
     /\ missed' = ~ok
     /\ step' = "orders"
     /\ UNCHANGED <<exchange, files, orders, free, todo, plan, keep, placed, next,
                    blind, first, origin, sent, served, slips>>

\* Defect: orders that could not be read count as none.
ReadOrdersOpen(ok, others) ==
  /\ step = "orders"
  /\ orders' = IF ok THEN working ELSE {}
  /\ free' = (~seen.open /\ orders' = {})
  /\ missed' = (missed /\ free')
  /\ step' = IF seen.open \/ others THEN "reconcile" ELSE "cancel"
  /\ UNCHANGED <<exchange, files, seen, todo, plan, keep, placed, next, blind, first,
                 origin, sent, served, slips, faults>>

ReadOrders(ok, others) ==
  /\ step = "orders"
  /\ orders' = IF ok THEN working ELSE {}
  /\ free' = (ok /\ ~seen.open /\ orders' = {})
  /\ missed' = (missed /\ free')
  /\ step' = IF seen.open \/ others THEN "reconcile" ELSE "cancel"
  /\ UNCHANGED <<exchange, files, seen, todo, plan, keep, placed, next, blind, first,
                 origin, sent, served, slips, faults>>

-----------------------------------------------------------------------------
(* reconcile_take_profits                                                  *)

\* What is remembered of an entry goes with its plan.
Forget ==
  LET left(f, none) == [e \in Entries |-> IF e \in EntriesOf(plans') THEN f[e] ELSE none]
  IN /\ sent' = left(sent, [l \in Queued |-> 0])
     /\ served' = left(served, {})
     /\ slips' = left(slips, 0)

SaveAtOnce(remaining) ==
  /\ plans' = remaining /\ Forget
  /\ step' = "repair"
  /\ UNCHANGED <<exchange, minimum, reading, todo, plan, keep, placed, next, missed,
                 blind, first, origin, faults>>

\* No position to join a plan with: only orphans go.
ReconcileWithoutPosition ==
  /\ step = "reconcile" /\ (plans = {} \/ ~seen.open)
  /\ SaveAtOnce({p \in plans : p.age # "orphan"})

\* Defect: the plan that has waited longest is taken for the one of the position.
NewestIsFirst == CHOOSE p \in plans : \A q \in plans : p.entry <= q.entry

\* The newest plan is the one of the position, older ones are duplicates.
Newest == CHOOSE p \in plans : \A q \in plans : q.entry <= p.entry

Reconciling == step = "reconcile" /\ plans # {} /\ seen.open

\* No position id, or a read that failed: once more in the next cycle.
Defer ==
  /\ Reconciling /\ (~seen.known \/ Newest.age = "fresh")
  /\ SaveAtOnce({Newest})

GiveUp ==
  /\ Reconciling /\ seen.known /\ Newest.age # "fresh"
  /\ SaveAtOnce({[Newest EXCEPT !.status = "manual_action_required"]})

Covered(l) == resting[PlanPrice(l)]

\* The levels of a plan that are short, each with what is missing.
Shortfall(need) ==
  LET short == {l \in DOMAIN need :
                  ~(minimum > 0 /\ need[l] <= minimum) /\ need[l] > Covered(l)}
  IN [l \in short |-> need[l] - Covered(l)]

\* The orders of the exchange are read, within the minute the plan has.
InTime == Reconciling /\ seen.known /\ Newest.age = "fresh"

\* Nothing is short: the plan is registered with the lifecycle and dropped.
Confirm ==
  /\ InTime /\ Shortfall(Newest.need) = NoLadder
  /\ SaveAtOnce({})

Fail ==
  /\ InTime /\ Shortfall(Newest.need) # NoLadder
  /\ Newest.attempts >= MaxAttempts
  /\ SaveAtOnce({[Newest EXCEPT !.status = "protection_failed"]})

\* Defect: a plan is tried however often it was rejected.
StartPlacingForEver ==
  /\ InTime /\ Shortfall(Newest.need) # NoLadder
  /\ todo' = Shortfall(Newest.need) /\ plan' = Newest
  /\ step' = "place"
  /\ UNCHANGED <<exchange, files, reading, keep, placed, next, ghosts, faults>>

StartPlacing ==
  LET short == Shortfall(Newest.need)
  IN /\ InTime /\ short # NoLadder
     /\ Newest.attempts < MaxAttempts
     /\ todo' = short /\ plan' = Newest
     /\ step' = "place"
     /\ served' = [served EXCEPT ![Newest.entry] =
                     @ \union (DOMAIN Newest.need \ DOMAIN short)]
     /\ UNCHANGED <<exchange, files, reading, keep, placed, next, missed, blind, first,
                    origin, sent, slips, faults>>

Here == Min(DOMAIN todo)
Later == Restrict(todo, DOMAIN todo \ {Here})
TooSmall == todo[Here] <= least
\* The position must still be there, and the order be large enough.
MayArrive == held # {} /\ ~TooSmall

ArriveHere ==
  /\ Arrive(PlacePrice(Here), todo[Here])
  /\ sent' = [sent EXCEPT ![plan.entry][Here] = @ + 1]
  /\ served' = [served EXCEPT ![plan.entry] = @ \union {Here}]

Finish(remaining) == keep' = remaining /\ step' = "save" /\ todo' = NoLadder

PlaceAccepted ==
  /\ step = "place" /\ MayArrive
  /\ ArriveHere
  /\ IF Later = NoLadder
     THEN Finish({})
     ELSE todo' = Later /\ UNCHANGED <<keep, step>>
  /\ UNCHANGED <<least, working, held, qty, files, reading, plan, placed, next, missed,
                 blind, first, origin, slips, faults>>

\* Defect: a rejected level is given up.
UnsentLater(rest, attempts) == {[plan EXCEPT !.need = Later, !.attempts = attempts]}

\* Defect: the whole plan is tried again.
UnsentAll(rest, attempts) == {[plan EXCEPT !.attempts = attempts]}

Unsent(rest, attempts) == {[plan EXCEPT !.need = rest, !.attempts = attempts]}

\* Rejected: this level and the later ones are tried again.
PlaceRejected ==
  /\ step = "place"
  /\ Finish(Unsent(todo, plan.attempts + 1))
  /\ UNCHANGED <<exchange, files, reading, plan, placed, next, ghosts, faults>>

\* The order is on the exchange, the answer is lost: taken for a rejection.
PlaceLost ==
  /\ step = "place" /\ MayArrive /\ Fault
  /\ ArriveHere
  /\ slips' = [slips EXCEPT ![plan.entry] = @ + 1]
  /\ Finish(Unsent(todo, plan.attempts + 1))
  /\ UNCHANGED <<least, working, held, qty, files, reading, plan, placed, next, missed,
                 blind, first, origin>>

\* Too small for the exchange: the level is given up, the later ones wait; the
\* plan stays for a cycle when there are none.
PlaceTooSmall ==
  /\ step = "place" /\ held # {} /\ TooSmall
  /\ minimum' = Max({minimum, todo[Here]})
  /\ served' = [served EXCEPT ![plan.entry] = @ \union {Here}]
  /\ Finish(Unsent(Later, plan.attempts))
  /\ UNCHANGED <<exchange, plans, reading, plan, placed, next, missed, blind, first,
                 origin, sent, slips, faults>>

SavePlans ==
  /\ step = "save"
  /\ plans' = keep /\ Forget
  /\ keep' = {} /\ plan' = NoPlan
  /\ step' = "repair"
  /\ UNCHANGED <<exchange, minimum, reading, todo, placed, next, missed, blind, first,
                 origin, faults>>

-----------------------------------------------------------------------------
(* repair_unprotected_positions: the default ladder of the quantity the    *)
(* cycle has read.                                                         *)

Existing == \E p \in Prices : resting[p] > 0

\* Defect: a level that was once too small is left out, protected or not.
DefaultLadderAboveMinimum ==
  LET missing(l) == Share(seen.qty) - resting[DefaultPrice(l)]
  IN [l \in {k \in Levels : missing(k) > minimum} |-> missing(l)]

DefaultLadder ==
  LET missing(l) == Share(seen.qty) - resting[DefaultPrice(l)]
      short == {l \in Levels : missing(l) > 0 /\ ~(Existing /\ missing(l) <= minimum)}
  IN [l \in short |-> missing(l)]

\* The rest of the cycle does without the position.
EndRepair == step' = "cancel" /\ seen' = NotSeen /\ todo' = NoLadder /\ placed' = FALSE

\* No position to repair, or what rests on the exchange cannot be read.
SkipRepair ==
  /\ step = "repair"
  /\ EndRepair
  /\ UNCHANGED <<exchange, files, orders, free, plan, keep, next, ghosts, faults>>

StartRepair ==
  /\ step = "repair" /\ seen.known /\ DefaultLadder # NoLadder
  /\ todo' = DefaultLadder /\ placed' = Existing
  /\ step' = "repairing"
  /\ UNCHANGED <<exchange, files, reading, plan, keep, next, ghosts, faults>>

RepairAccepted ==
  /\ step = "repairing" /\ MayArrive
  /\ Arrive(DefaultPrice(Here), todo[Here])
  /\ IF Later = NoLadder
     THEN EndRepair
     ELSE todo' = Later /\ placed' = TRUE /\ UNCHANGED <<step, seen>>
  /\ UNCHANGED <<least, working, held, qty, files, orders, free, plan, keep, next,
                 ghosts, faults>>

Remember == minimum' = IF held # {} /\ TooSmall
                       THEN Max({minimum, todo[Here]}) ELSE minimum

\* The first refusal ends the ladder; when nothing protects the position, one
\* order for all of it is tried.  A lost answer counts as a refusal.
RepairRefused(lost) ==
  /\ step = "repairing"
  /\ IF lost
     THEN MayArrive /\ Fault /\ Arrive(DefaultPrice(Here), todo[Here])
     ELSE UNCHANGED <<faults, resting>>
  /\ Remember
  /\ IF placed
     THEN EndRepair
     ELSE /\ todo' = [l \in {1} |-> seen.qty]
          /\ step' = "fallback"
          /\ UNCHANGED <<seen, placed>>
  /\ UNCHANGED <<least, working, held, qty, plans, orders, free, plan, keep, next,
                 ghosts>>

RepairFallback(accepted) ==
  /\ step = "fallback"
  /\ IF accepted
     THEN MayArrive /\ Arrive(DefaultPrice(1), todo[Here])
     ELSE UNCHANGED resting
  /\ Remember
  /\ EndRepair
  /\ UNCHANGED <<least, working, held, qty, plans, orders, free, plan, keep, next,
                 ghosts, faults>>

-----------------------------------------------------------------------------
(* cancel_invalid_live_limit_entries, and the entries of the cycle.        *)

\* Any of the orders that were read may have lost its setup; the symbol stays
\* reserved for this cycle in the adapter.
CancelInvalidLimitEntries(gone) ==
  /\ step = "cancel"
  /\ gone \subseteq orders
  /\ working' = working \ gone
  /\ step' = "entry" /\ orders' = {}
  /\ UNCHANGED <<least, held, qty, resting, files, seen, free, todo, plan, keep,
                 placed, next, ghosts, faults>>

NoEntry ==
  /\ step = "entry"
  /\ EndCycle
  /\ UNCHANGED <<exchange, files, todo, plan, keep, placed, next, blind, origin, sent,
                 served, slips, faults>>

\* The symbols that are blocked were read before the first row: a later row of
\* the symbol is sent as well, whatever became of the earlier one.
SendEntry ==
  /\ step = "entry" /\ free /\ next \in Entries
  /\ working' = working \union {next}
  /\ blind' = IF missed THEN blind \union {next} ELSE blind
  /\ first' = IF first = 0 THEN next ELSE first
  /\ origin' = [origin EXCEPT ![next] = first']
  /\ next' = next + 1
  /\ UNCHANGED <<least, held, qty, resting, files, reading, todo, keep, placed, missed,
                 sent, served, slips>>

PlanOf(e) ==
  [entry |-> e, age |-> "fresh", need |-> [l \in Queued |-> Share(Quantity)],
   attempts |-> 0, status |-> "tp_pending"]

EntryAccepted ==
  /\ SendEntry
  /\ plan' = PlanOf(next)
  /\ step' = "queue"
  /\ UNCHANGED faults

\* An HTTP error rejects the whole plan, also when the order went through.
EntryLost ==
  /\ SendEntry /\ Fault
  /\ UNCHANGED <<plan, step>>

QueueTakeProfits ==
  /\ step = "queue"
  /\ plans' = plans \union {plan}
  /\ plan' = NoPlan
  /\ step' = "entry"
  /\ UNCHANGED <<exchange, minimum, reading, todo, keep, placed, next, ghosts, faults>>

-----------------------------------------------------------------------------

Reconcile ==
  \/ ReconcileWithoutPosition \/ Defer \/ GiveUp \/ Confirm \/ Fail
  \/ StartPlacing \/ PlaceAccepted \/ PlaceRejected \/ PlaceLost \/ PlaceTooSmall
  \/ SavePlans

Repair ==
  \/ SkipRepair \/ StartRepair \/ RepairAccepted
  \/ \E lost \in BOOLEAN : RepairRefused(lost)
  \/ \E accepted \in BOOLEAN : RepairFallback(accepted)

Enter ==
  \/ \E gone \in SUBSET Entries : CancelInvalidLimitEntries(gone)
  \/ NoEntry \/ EntryAccepted \/ EntryLost \/ QueueTakeProfits

Runtime ==
  \/ \E ok, known \in BOOLEAN : ReadPositions(ok, known)
  \/ \E ok, others \in BOOLEAN : ReadOrders(ok, others)
  \/ Reconcile \/ Repair \/ Enter

Exchange == StopOut \/ Trigger \/ \E e \in Entries : FillEntry(e)

Next == Runtime \/ Exchange \/ Crash \/ \E p \in plans : AgePlan(p)

Spec == Init /\ [][Next]_vars

\* The process goes round, time passes, and what the exchange is asked again
\* and again it answers and accepts some time.
Fairness ==
  /\ WF_vars(Runtime)
  /\ SF_vars(ReadPositions(TRUE, TRUE))
  /\ SF_vars(StartRepair) /\ SF_vars(RepairFallback(TRUE))

FairSpec == Spec /\ Fairness

-----------------------------------------------------------------------------
(* Properties.                                                             *)

\* Entries lie beside each other only when one cycle sent them, the rows it had
\* of the symbol, or when a cycle overlooked a position.  Orders that could not
\* be read, a lost answer, a crash and an entry that is filled meanwhile do not
\* let a later cycle send another one.
ExposureIsSingle ==
  \A e, f \in (working \union held) \ blind : origin[e] = origin[f]

\* The reconciliation puts a level on the exchange once, and once more only for
\* a lost answer or a crash before the file was saved: a level it has found or
\* placed is not placed again when it has been triggered in the meantime.
LevelsSentOncePerSlip ==
  \A e \in Entries, l \in Queued : sent[e][l] <= 1 + slips[e]

\* A position that has a plan of its own in the file gets no levels of another
\* plan, however many plans wait for the symbol; the only other plan it may get
\* is that of another row of the cycle that opened it, or of an entry sent by a
\* cycle that overlooked it.
PositionGetsItsOwnLevels ==
  [][\A e \in Entries, l \in Queued :
       sent'[e][l] > sent[e][l] =>
         \/ \E f \in held : origin[f] = origin[e]
         \/ held \intersect EntriesOf(plans) = {} \/ e \in blind]_vars

\* A plan that is dropped for the position it was made for has had every level
\* on the exchange, or what it still lacked has proved too small for an order.
NothingDroppedUnserved ==
  [][\A e \in EntriesOf(plans) \ EntriesOf(plans') :
       seen.open /\ e = Newest.entry =>
         \A l \in Queued : \/ l \in served[e]
                           \/ resting[PlanPrice(l)] > 0
                           \/ l \in DOMAIN Newest.need /\ Newest.need[l] <= minimum]_vars

\* A position large enough for an order does not stay without take profit.
EventuallyProtected ==
  (qty > least /\ ~Existing) ~> (qty <= least \/ Existing)

=============================================================================
