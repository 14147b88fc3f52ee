------------------------- MODULE LiveProtectionProofs -------------------------
(***************************************************************************)
(* Proofs about LiveProtection, for any number of decisions and faults and *)
(* any refused quantity.  The invariant has three parts:                   *)
(*                                                                         *)
(*   TypeInv   the types, and what each step of the cycle works on: while  *)
(*             levels are sent, the plan is the newest of the file;        *)
(*   CarryInv  which entries the exchange carries: one sent beside an      *)
(*             older one was sent in the same cycle, or by a cycle that    *)
(*             overlooked a position;                                      *)
(*   PlanInv   what a plan still owes: a queued level is in its ladder or  *)
(*             has been served, and one in the ladder went out at most     *)
(*             once per slip.                                              *)
(***************************************************************************)
EXTENDS LiveProtection, FiniteSetTheorems, WellFoundedInduction, TLAPS

-----------------------------------------------------------------------------
(* What the operators of the model return.                                 *)

\* A set of naturals has a least element.
LEMMA LeastOf ==
  ASSUME NEW T, T \subseteq Nat, T # {}
  PROVE  Min(T) \in T /\ \A n \in T : Min(T) <= n
<1> DEFINE R == OpToRel(<, Nat)
<1>1. IsWellFoundedOn(R, Nat)
  BY NatLessThanWellFounded
<1>2. \A m, n \in Nat : m < n => <<m, n>> \in R
  BY DEF OpToRel
<1> HIDE DEF R
<1>3. PICK m \in T : \A n \in T : ~(<<n, m>> \in R)
  BY <1>1, WFMin
<1>4. ASSUME NEW n \in T PROVE m <= n
  <2>1. ~(n < m)
    BY <1>2, <1>3
  <2> QED BY <2>1
<1> QED BY <1>4 DEF Min

\* The larger of two naturals.
LEMMA LargerOfTwo ==
  ASSUME NEW m \in Nat, NEW n \in Nat
  PROVE  Max({m, n}) \in {m, n} /\ Max({m, n}) >= m /\ Max({m, n}) >= n
<1>1. \E k \in {m, n} : \A i \in {m, n} : k >= i
  <2>1. CASE m >= n
    BY <2>1
  <2>2. CASE n >= m
    BY <2>2
  <2> QED BY <2>1, <2>2
<1> QED BY <1>1 DEF Max

\* Every order is of at least one unit.
LEMMA ShareIsPositive ==
  ASSUME NEW q \in Nat
  PROVE  Share(q) \in Nat /\ Share(q) > 0
<1>1. q \div 3 \in Nat
  OBVIOUS
<1> QED BY <1>1, LargerOfTwo DEF Share

\* All orders rest at one of the prices of the two ladders.
LEMMA OrderPrices ==
  /\ Prices \subseteq Nat
  /\ \A l \in Levels : PlanPrice(l) \in Prices /\ DefaultPrice(l) \in Prices
                       /\ PlacePrice(l) \in Prices
<1>1. \A l \in Levels : PlanPrice(l) \in Nat /\ DefaultPrice(l) \in Nat
  BY RRAssumption DEF PlanPrice, DefaultPrice, Levels
<1>2. \A l \in Levels : PlacePrice(l) = PlanPrice(l) \/ PlacePrice(l) = PlanPrice(1)
  BY RRAssumption DEF PlacePrice, PlanPrice
<1> QED BY <1>1, <1>2 DEF Prices, Levels

\* A ladder without levels is the empty one.
LEMMA EmptyLadder ==
  ASSUME NEW levels, NEW ladder, IsLadder(ladder, levels)
  PROVE  ladder = NoLadder <=> DOMAIN ladder = {}
BY DEF IsLadder, NoLadder

\* The level sent next, and the ladder of those after it.
LEMMA Nearest ==
  ASSUME IsLadder(todo, Levels), todo # NoLadder
  PROVE  /\ Here \in DOMAIN todo /\ todo[Here] \in Nat
         /\ IsLadder(Later, Levels)
         /\ DOMAIN Later = DOMAIN todo \ {Here}
         /\ \A l \in DOMAIN Later : Later[l] = todo[l]
<1>1. DOMAIN todo # {} /\ DOMAIN todo \subseteq Nat
  BY EmptyLadder DEF IsLadder, Levels
<1>2. Here \in DOMAIN todo
  BY <1>1, LeastOf DEF Here
<1> QED BY <1>2 DEF Later, Restrict, IsLadder

\* The newest of the plans is one of them.
LEMMA NewestIsPlan ==
  ASSUME plans # {}, \A p \in plans : IsPlan(p)
  PROVE  Newest \in plans /\ \A q \in plans : q.entry <= Newest.entry
<1> DEFINE ahead == {Decisions - p.entry : p \in plans}
<1>1. \A p \in plans : p.entry \in 1..Decisions
  BY DEF IsPlan, Entries
<1>2. ahead \subseteq Nat /\ ahead # {}
  BY <1>1, DecisionsAssumption
<1>3. PICK n \in ahead : \A m \in ahead : n <= m
  <2> HIDE DEF ahead
  <2> QED BY <1>2, LeastOf
<1>4. PICK p \in plans : n = Decisions - p.entry
  OBVIOUS
<1>5. ASSUME NEW q \in plans PROVE q.entry <= p.entry
  <2>1. Decisions - q.entry \in ahead
    OBVIOUS
  <2>2. n <= Decisions - q.entry
    BY <1>3, <2>1
  <2> QED BY <1>1, <1>4, <2>2, DecisionsAssumption
<1> QED BY <1>5 DEF Newest

\* What is short of a plan is short of it, and a level that is not is too small
\* or rests on the exchange.
LEMMA ShortfallOfNeed ==
  ASSUME NEW need, IsLadder(need, Queued), resting \in [Prices -> Nat], minimum \in Nat
  PROVE  /\ IsLadder(Shortfall(need), DOMAIN need)
         /\ \A l \in DOMAIN Shortfall(need) : Shortfall(need)[l] > 0
         /\ \A l \in DOMAIN need \ DOMAIN Shortfall(need) :
              need[l] <= minimum \/ need[l] <= Covered(l)
<1> DEFINE short == {l \in DOMAIN need :
                       ~(minimum > 0 /\ need[l] <= minimum) /\ need[l] > Covered(l)}
<1>1. \A l \in DOMAIN need : need[l] \in Nat /\ Covered(l) \in Nat
  BY OrderPrices DEF IsLadder, Covered, Queued, Levels
<1>2. Shortfall(need) = [l \in short |-> need[l] - Covered(l)]
  BY DEF Shortfall
<1>3. DOMAIN Shortfall(need) = short
  BY <1>2
<1>4. \A l \in short : Shortfall(need)[l] \in Nat /\ Shortfall(need)[l] > 0
  BY <1>1, <1>2
<1> QED BY <1>1, <1>2, <1>3, <1>4 DEF IsLadder

\* The default ladder of the repair.
LEMMA DefaultLadderIsLadder ==
  ASSUME resting \in [Prices -> Nat], seen.qty \in Nat
  PROVE  IsLadder(DefaultLadder, Levels)
<1> DEFINE missing(l) == Share(seen.qty) - resting[DefaultPrice(l)]
           short == {l \in Levels : missing(l) > 0 /\ ~(Existing /\ missing(l) <= minimum)}
<1>1. DefaultLadder = [l \in short |-> missing(l)]
  BY DEF DefaultLadder
<1>2. ASSUME NEW l \in Levels PROVE missing(l) \in Int
  <2>1. resting[DefaultPrice(l)] \in Nat
    BY OrderPrices
  <2> QED BY <2>1, ShareIsPositive
<1>3. \A l \in short : missing(l) \in Nat
  BY <1>2
<1> HIDE DEF missing
<1> QED BY <1>1, <1>3 DEF IsLadder

-----------------------------------------------------------------------------
(* Types, and what each step of the cycle works on.                        *)

ExchangeOK ==
  /\ least \in Minimums
  /\ working \in SUBSET Entries /\ held \in SUBSET Entries
  /\ qty \in Nat /\ (qty > 0 <=> held # {})
  /\ resting \in [Prices -> Nat]

FilesOK == (\A p \in plans : IsPlan(p)) /\ minimum \in 0..least

CycleOK ==
  /\ step \in {"idle", "orders", "reconcile", "place", "save", "repair", "repairing",
               "fallback", "cancel", "entry", "queue"}
  /\ seen \in [open : BOOLEAN, known : BOOLEAN, qty : Nat]
  /\ orders \in SUBSET Entries /\ free \in BOOLEAN
  /\ placed \in BOOLEAN /\ missed \in BOOLEAN

WorkOK ==
  /\ IsLadder(todo, Levels)
  /\ plan = NoPlan \/ IsPlan(plan)
  /\ \A p \in keep : IsPlan(p)

GhostsOK ==
  /\ next \in 1..Decisions + 1 /\ blind \in SUBSET Entries
  /\ first \in 0..Decisions /\ origin \in [Entries -> 0..Decisions]
  /\ sent \in [Entries -> [Queued -> Nat]]
  /\ served \in [Entries -> SUBSET Queued] /\ slips \in [Entries -> Nat]
  /\ faults \in 0..MaxFaults

\* The type invariant, in parts.
LEMMA TypeParts ==
  TypeOK <=> ExchangeOK /\ FilesOK /\ CycleOK /\ WorkOK /\ GhostsOK
BY DEF TypeOK, ExchangeOK, FilesOK, CycleOK, WorkOK, GhostsOK

\* Levels of a plan are being sent, or what is left of it is about to be saved.
Sending == step \in {"place", "save"}

\* While levels are sent the plan is the newest of the file; a loop has orders
\* left; the plan that is about to be queued is the one of the last entry.
ControlOK ==
  /\ Sending => plan \in plans /\ \A q \in plans : q.entry <= plan.entry
  /\ step = "place" => DOMAIN todo \subseteq Queued /\ plan.attempts < MaxAttempts
  /\ step \in {"place", "repairing", "fallback"} => todo # NoLadder
  /\ step = "save" => \A p \in keep : p.entry = plan.entry
  /\ step = "queue" => IsPlan(plan) /\ plan.entry = next - 1

TypeInv == ExchangeOK /\ FilesOK /\ CycleOK /\ WorkOK /\ GhostsOK /\ ControlOK

\* The exchange moves on: no state of the process changes but what it misses.
LEMMA ExchangeTypes ==
  ASSUME TypeInv, Exchange
  PROVE  TypeInv'
<1>1. ASSUME NEW e \in Entries, FillEntry(e) PROVE TypeInv'
  <2>1. qty + Quantity \in Nat /\ qty + Quantity > 0
    BY QuantityAssumption DEF TypeInv, ExchangeOK
  <2>2. PlanPrice(1) \in Prices /\ Share(Quantity) \in Nat
    BY OrderPrices, ShareIsPositive, QuantityAssumption DEF Levels
  <2>3. ExchangeOK'
    BY <1>1, <2>1, <2>2 DEF FillEntry, TypeInv, ExchangeOK
  <2>4. FilesOK' /\ CycleOK' /\ WorkOK' /\ GhostsOK' /\ ControlOK'
    BY <1>1 DEF FillEntry, TypeInv, FilesOK, CycleOK, WorkOK, GhostsOK, ControlOK, Sending,
                files, reading
  <2> QED BY <2>3, <2>4 DEF TypeInv
<1>2. ASSUME UNCHANGED elsewhere PROVE FilesOK' /\ CycleOK' /\ WorkOK' /\ GhostsOK' /\ ControlOK'
  BY <1>2 DEF elsewhere, TypeInv, FilesOK, CycleOK, WorkOK, GhostsOK, ControlOK, Sending,
              files, reading, ghosts
<1>3. ASSUME Close PROVE TypeInv'
  <2>1. ExchangeOK'
    BY <1>3 DEF Close, elsewhere, TypeInv, ExchangeOK, NothingRests
  <2> QED BY <1>2, <1>3, <2>1 DEF Close, TypeInv
<1>4. ASSUME Trigger PROVE TypeInv'
  <2> DEFINE live == {p \in Prices : resting[p] > 0}
  <2>1. live # {} /\ Min(live) \in live
    <3>1. live # {} /\ live \subseteq Nat
      BY <1>4, OrderPrices DEF Trigger
    <3> HIDE DEF live
    <3> QED BY <3>1, LeastOf
  <2> DEFINE p == Min(live)
  <2>2. p \in Prices /\ resting[p] \in Nat
    BY <2>1 DEF TypeInv, ExchangeOK
  <2> HIDE DEF p
  <2>3. CASE resting[p] >= qty
    BY <1>3, <1>4, <2>3 DEF Trigger, p
  <2>4. CASE ~(resting[p] >= qty)
    <3>1. /\ qty' = qty - resting[p]
          /\ resting' = [resting EXCEPT ![p] = 0]
          /\ UNCHANGED <<working, held, elsewhere>>
      BY <1>4, <2>4 DEF Trigger, p
    <3>2. qty - resting[p] \in Nat /\ qty - resting[p] > 0 /\ qty > 0
      BY <2>2, <2>4 DEF TypeInv, ExchangeOK
    <3>3. ExchangeOK'
      BY <3>1, <3>2 DEF TypeInv, ExchangeOK, elsewhere
    <3> QED BY <1>2, <3>1, <3>3 DEF TypeInv
  <2> QED BY <2>3, <2>4
<1> QED BY <1>1, <1>3, <1>4 DEF Exchange, StopOut

\* Time, the reads of the account, and a stop of the process.
LEMMA ReadTypes ==
  ASSUME TypeInv,
         \/ Crash
         \/ \E p \in plans : AgePlan(p)
         \/ \E ok, known \in BOOLEAN : ReadPositions(ok, known)
         \/ \E ok, others \in BOOLEAN : ReadOrders(ok, others)
  PROVE  TypeInv'
<1> USE DEF exchange, files, reading, ghosts
<1>1. CASE Crash
  <2>1. GhostsOK'
    <3>1. step \in {"place", "save"} => plan.entry \in Entries
      BY DEF TypeInv, ControlOK, Sending, FilesOK, IsPlan
    <3>2. slips' \in [Entries -> Nat]
      BY <1>1, <3>1 DEF Crash, TypeInv, GhostsOK
    <3> QED
      BY <1>1, <3>2, FaultsAssumption, DecisionsAssumption
      DEF Crash, EndCycle, Fault, TypeInv, GhostsOK
  <2>2. ExchangeOK' /\ FilesOK' /\ CycleOK' /\ WorkOK' /\ ControlOK'
    BY <1>1 DEF Crash, EndCycle, TypeInv, ExchangeOK, FilesOK, CycleOK, WorkOK, ControlOK,
                Sending, NotSeen, NoLadder, IsLadder
  <2> QED BY <2>1, <2>2 DEF TypeInv
<1>2. ASSUME NEW p \in plans, AgePlan(p) PROVE TypeInv'
  <2>1. IsPlan(Older(p))
    BY DEF TypeInv, FilesOK, IsPlan, Older
  <2>2. FilesOK'
    BY <1>2, <2>1 DEF AgePlan, TypeInv, FilesOK
  <2>3. ExchangeOK' /\ CycleOK' /\ WorkOK' /\ GhostsOK' /\ ControlOK'
    BY <1>2 DEF AgePlan, TypeInv, ExchangeOK, CycleOK, WorkOK, GhostsOK, ControlOK, Sending
  <2> QED BY <2>2, <2>3 DEF TypeInv
<1>3. ASSUME NEW ok \in BOOLEAN, NEW known \in BOOLEAN, ReadPositions(ok, known)
      PROVE  TypeInv'
  <2>1. GhostsOK'
    BY <1>3, FaultsAssumption DEF ReadPositions, Fault, TypeInv, GhostsOK
  <2>2. CycleOK'
    BY <1>3 DEF ReadPositions, TypeInv, CycleOK, ExchangeOK
  <2>3. ExchangeOK' /\ FilesOK' /\ WorkOK' /\ ControlOK'
    BY <1>3 DEF ReadPositions, TypeInv, ExchangeOK, FilesOK, WorkOK, ControlOK, Sending
  <2> QED BY <2>1, <2>2, <2>3 DEF TypeInv
<1>4. ASSUME NEW ok \in BOOLEAN, NEW others \in BOOLEAN, ReadOrders(ok, others)
      PROVE  TypeInv'
  <2>1. CycleOK' /\ ControlOK'
    BY <1>4 DEF ReadOrders, TypeInv, CycleOK, ExchangeOK, ControlOK, Sending
  <2>2. ExchangeOK' /\ FilesOK' /\ WorkOK' /\ GhostsOK'
    BY <1>4 DEF ReadOrders, TypeInv, ExchangeOK, FilesOK, WorkOK, GhostsOK
  <2> QED BY <2>1, <2>2 DEF TypeInv
<1> QED BY <1>1, <1>2, <1>3, <1>4

\* What is remembered of the entries stays of its type when some are forgotten.
LEMMA ForgetTypes ==
  ASSUME GhostsOK, Forget
  PROVE  /\ sent' \in [Entries -> [Queued -> Nat]]
         /\ served' \in [Entries -> SUBSET Queued] /\ slips' \in [Entries -> Nat]
<1>1. sent' = [e \in Entries |-> IF e \in EntriesOf(plans') THEN sent[e]
                                 ELSE [l \in Queued |-> 0]]
  BY DEF Forget
<1>2. served' = [e \in Entries |-> IF e \in EntriesOf(plans') THEN served[e] ELSE {}]
  BY DEF Forget
<1>3. slips' = [e \in Entries |-> IF e \in EntriesOf(plans') THEN slips[e] ELSE 0]
  BY DEF Forget
<1>4. sent' \in [Entries -> [Queued -> Nat]]
  BY <1>1 DEF GhostsOK
<1>5. served' \in [Entries -> SUBSET Queued]
  BY <1>2 DEF GhostsOK
<1>6. slips' \in [Entries -> Nat]
  BY <1>3 DEF GhostsOK
<1> QED BY <1>4, <1>5, <1>6

\* The steps of the reconciliation that save the queue at once.
LEMMA SaveAtOnceTypes ==
  ASSUME TypeInv, NEW remaining, step = "reconcile", SaveAtOnce(remaining),
         \A p \in remaining : IsPlan(p)
  PROVE  TypeInv'
<1> USE DEF SaveAtOnce, exchange, reading
<1>1. ExchangeOK'
  BY DEF TypeInv, ExchangeOK
<1>2. FilesOK'
  BY DEF TypeInv, FilesOK, ExchangeOK
<1>3. CycleOK' /\ ControlOK' /\ WorkOK'
  BY DEF TypeInv, CycleOK, ControlOK, Sending, WorkOK
<1>4. GhostsOK'
  BY ForgetTypes DEF TypeInv, GhostsOK
<1> QED BY <1>1, <1>2, <1>3, <1>4 DEF TypeInv

LEMMA DecideTypes ==
  ASSUME TypeInv,
         ReconcileWithoutPosition \/ Defer \/ GiveUp \/ Confirm \/ Fail
  PROVE  TypeInv'
<1>1. step = "reconcile"
  BY DEF ReconcileWithoutPosition, Defer, GiveUp, Confirm, Fail, InTime, Reconciling
<1>2. CASE ReconcileWithoutPosition
  <2>1. \A p \in {q \in plans : q.age # "orphan"} : IsPlan(p)
    BY DEF TypeInv, FilesOK
  <2> QED BY <1>1, <1>2, <2>1, SaveAtOnceTypes DEF ReconcileWithoutPosition
<1>3. CASE Defer \/ GiveUp \/ Confirm \/ Fail
  <2>1. IsPlan(Newest)
    BY <1>3, NewestIsPlan DEF Defer, GiveUp, Confirm, Fail, InTime, Reconciling, TypeInv,
                              FilesOK
  <2>2. /\ IsPlan([Newest EXCEPT !.status = "manual_action_required"])
        /\ IsPlan([Newest EXCEPT !.status = "protection_failed"])
    BY <2>1 DEF IsPlan
  <2>3. \E remaining : SaveAtOnce(remaining) /\ \A p \in remaining : IsPlan(p)
    BY <1>3, <2>1, <2>2 DEF Defer, GiveUp, Confirm, Fail
  <2> QED BY <1>1, <2>3, SaveAtOnceTypes
<1> QED BY <1>2, <1>3

LEMMA StartPlacingTypes ==
  ASSUME TypeInv, StartPlacing
  PROVE  TypeInv'
<1> USE DEF StartPlacing, InTime, Reconciling, exchange, files, reading
<1>1. Newest \in plans /\ IsPlan(Newest) /\ \A q \in plans : q.entry <= Newest.entry
  BY NewestIsPlan DEF TypeInv, FilesOK
<1>2. IsLadder(Newest.need, Queued) /\ Newest.entry \in Entries
  BY <1>1 DEF IsPlan
<1>3. IsLadder(Shortfall(Newest.need), DOMAIN Newest.need)
  BY <1>2, ShortfallOfNeed, MinimumAssumption DEF TypeInv, ExchangeOK, FilesOK
<1>4. IsLadder(todo', Queued) /\ IsLadder(todo', Levels) /\ todo' # NoLadder
  BY <1>2, <1>3 DEF IsLadder, Queued, Levels
<1>5. served' \in [Entries -> SUBSET Queued]
  BY <1>2, <1>3 DEF TypeInv, GhostsOK, IsLadder
<1>6. ExchangeOK' /\ FilesOK' /\ CycleOK'
  BY DEF TypeInv, ExchangeOK, FilesOK, CycleOK
<1>7. WorkOK' /\ GhostsOK'
  BY <1>1, <1>4, <1>5 DEF TypeInv, WorkOK, GhostsOK
<1>8. ControlOK'
  BY <1>1, <1>4 DEF TypeInv, ControlOK, Sending, IsLadder
<1> QED BY <1>6, <1>7, <1>8 DEF TypeInv

\* The level that is sent is one of the plan.
LEMMA PlaceFacts ==
  ASSUME TypeInv, step = "place"
  PROVE  /\ plan \in plans /\ IsPlan(plan) /\ plan.entry \in Entries
         /\ Here \in DOMAIN todo /\ Here \in Queued /\ todo[Here] \in Nat
         /\ IsLadder(Later, Levels) /\ IsLadder(Later, Queued) /\ IsLadder(todo, Queued)
         /\ PlacePrice(Here) \in Prices
<1>1. plan \in plans /\ IsPlan(plan) /\ plan.entry \in Entries
  BY DEF TypeInv, ControlOK, Sending, FilesOK, IsPlan
<1>2. IsLadder(todo, Levels) /\ todo # NoLadder /\ DOMAIN todo \subseteq Queued
  BY DEF TypeInv, ControlOK, WorkOK
<1>3. Here \in DOMAIN todo /\ todo[Here] \in Nat /\ IsLadder(Later, Levels)
      /\ DOMAIN Later = DOMAIN todo \ {Here}
  BY <1>2, Nearest
<1> QED
  BY <1>1, <1>2, <1>3, OrderPrices DEF IsLadder, Queued, Levels

\* An order that reaches the exchange.
LEMMA ArriveTypes ==
  ASSUME TypeInv, step = "place", ArriveHere
  PROVE  /\ resting' \in [Prices -> Nat] /\ sent' \in [Entries -> [Queued -> Nat]]
         /\ served' \in [Entries -> SUBSET Queued]
<1> USE PlaceFacts DEF ArriveHere, Arrive
<1>1. resting' \in [Prices -> Nat]
  BY DEF TypeInv, ExchangeOK
<1>2. served' \in [Entries -> SUBSET Queued]
  BY DEF TypeInv, GhostsOK
<1>3. sent' \in [Entries -> [Queued -> Nat]]
  BY DEF TypeInv, GhostsOK
<1> QED BY <1>1, <1>2, <1>3

\* What is kept of a plan is a plan.
LEMMA UnsentIsPlan ==
  ASSUME NEW rest, IsPlan(plan), IsLadder(rest, Queued), NEW attempts \in 0..MaxAttempts
  PROVE  \A p \in Unsent(rest, attempts) : IsPlan(p) /\ p.entry = plan.entry
BY DEF Unsent, IsPlan

LEMMA PlaceTypes ==
  ASSUME TypeInv,
         PlaceAccepted \/ PlaceRejected \/ PlaceLost \/ PlaceTooSmall
  PROVE  TypeInv'
<1> USE DEF exchange, files, reading, ghosts
<1>1. step = "place"
  BY DEF PlaceAccepted, PlaceRejected, PlaceLost, PlaceTooSmall
<1>2. plan.attempts + 1 \in 0..MaxAttempts /\ plan.attempts \in 0..MaxAttempts
  BY <1>1, PlaceFacts DEF TypeInv, ControlOK, IsPlan, MaxAttempts
<1>3. IsLadder(NoLadder, Levels)
  BY DEF IsLadder, NoLadder
<1>4. CASE PlaceAccepted
  <2>1. ExchangeOK' /\ FilesOK' /\ GhostsOK'
    BY <1>1, <1>4, ArriveTypes DEF PlaceAccepted, TypeInv, ExchangeOK, FilesOK, GhostsOK
  <2>2. CycleOK' /\ WorkOK' /\ ControlOK'
    <3>1. CASE Later = NoLadder
      BY <1>3, <1>4, <3>1 DEF PlaceAccepted, Finish, TypeInv, CycleOK, WorkOK, ControlOK, Sending
    <3>2. CASE Later # NoLadder
      BY <1>1, <1>4, <3>2, PlaceFacts
      DEF PlaceAccepted, Finish, TypeInv, CycleOK, WorkOK, ControlOK, Sending, IsLadder
    <3> QED BY <3>1, <3>2
  <2> QED BY <2>1, <2>2 DEF TypeInv
<1>5. ASSUME NEW rest, NEW attempts \in 0..MaxAttempts, IsLadder(rest, Queued),
             Finish(Unsent(rest, attempts)), plan' = plan, UNCHANGED plans,
             UNCHANGED <<reading, placed, missed, next>>
      PROVE  CycleOK' /\ WorkOK' /\ ControlOK'
  <2>1. \A p \in keep' : IsPlan(p) /\ p.entry = plan.entry
    BY <1>1, <1>5, PlaceFacts, UnsentIsPlan DEF Finish
  <2> QED
    BY <1>1, <1>3, <1>5, <2>1 DEF Finish, TypeInv, CycleOK, WorkOK, ControlOK, Sending
<1>6. CASE PlaceRejected
  <2>1. ExchangeOK' /\ FilesOK' /\ GhostsOK'
    BY <1>6 DEF PlaceRejected, TypeInv, ExchangeOK, FilesOK, GhostsOK
  <2>2. CycleOK' /\ WorkOK' /\ ControlOK'
    BY <1>1, <1>2, <1>5, <1>6, PlaceFacts DEF PlaceRejected
  <2> QED BY <2>1, <2>2 DEF TypeInv
<1>7. CASE PlaceLost
  <2>1. slips' \in [Entries -> Nat] /\ faults' \in 0..MaxFaults
    BY <1>1, <1>7, PlaceFacts, FaultsAssumption DEF PlaceLost, Fault, TypeInv, GhostsOK
  <2>2. ExchangeOK' /\ FilesOK' /\ GhostsOK'
    BY <1>1, <1>7, <2>1, ArriveTypes DEF PlaceLost, TypeInv, ExchangeOK, FilesOK, GhostsOK
  <2>3. CycleOK' /\ WorkOK' /\ ControlOK'
    BY <1>1, <1>2, <1>5, <1>7, PlaceFacts DEF PlaceLost
  <2> QED BY <2>2, <2>3 DEF TypeInv
<1>8. CASE PlaceTooSmall
  <2>1. minimum' \in 0..least
    BY <1>1, <1>8, PlaceFacts, LargerOfTwo, MinimumAssumption
    DEF PlaceTooSmall, TooSmall, TypeInv, FilesOK, ExchangeOK
  <2>2. served' \in [Entries -> SUBSET Queued]
    BY <1>1, <1>8, PlaceFacts DEF PlaceTooSmall, TypeInv, GhostsOK
  <2>3. ExchangeOK' /\ FilesOK' /\ GhostsOK'
    BY <1>8, <2>1, <2>2 DEF PlaceTooSmall, TypeInv, ExchangeOK, FilesOK, GhostsOK
  <2>4. CycleOK' /\ WorkOK' /\ ControlOK'
    BY <1>1, <1>2, <1>5, <1>8, PlaceFacts DEF PlaceTooSmall
  <2> QED BY <2>3, <2>4 DEF TypeInv
<1> QED BY <1>4, <1>6, <1>7, <1>8

LEMMA SavePlansTypes ==
  ASSUME TypeInv, SavePlans
  PROVE  TypeInv'
<1> USE DEF SavePlans, exchange, reading
<1>1. GhostsOK'
  BY ForgetTypes DEF TypeInv, GhostsOK
<1>2. ExchangeOK' /\ FilesOK' /\ CycleOK' /\ WorkOK' /\ ControlOK'
  BY DEF TypeInv, ExchangeOK, FilesOK, CycleOK, WorkOK, ControlOK, Sending
<1> QED BY <1>1, <1>2 DEF TypeInv

LEMMA ReconcileTypes ==
  ASSUME TypeInv, Reconcile
  PROVE  TypeInv'
BY DecideTypes, StartPlacingTypes, PlaceTypes, SavePlansTypes DEF Reconcile

\* The steps of the repair change what rests, the remembered minimum and the
\* ladder of the loop.
LEMMA RepairTypes ==
  ASSUME TypeInv, Repair
  PROVE  TypeInv'
<1> USE DEF exchange, files, reading, ghosts, EndRepair
<1>1. IsLadder(NoLadder, Levels) /\ NotSeen \in [open : BOOLEAN, known : BOOLEAN, qty : Nat]
  BY DEF IsLadder, NoLadder, NotSeen
<1>2. CASE SkipRepair
  BY <1>1, <1>2
  DEF SkipRepair, TypeInv, ExchangeOK, FilesOK, CycleOK, WorkOK, GhostsOK, ControlOK, Sending
<1>3. CASE StartRepair
  <2>1. IsLadder(DefaultLadder, Levels)
    BY DefaultLadderIsLadder DEF TypeInv, ExchangeOK, CycleOK
  <2>2. Existing \in BOOLEAN
    BY DEF Existing
  <2> QED
    BY <1>3, <2>1, <2>2
    DEF StartRepair, TypeInv, ExchangeOK, FilesOK, CycleOK, WorkOK, GhostsOK, ControlOK, Sending
<1>4. ASSUME step \in {"repairing", "fallback"}
      PROVE  /\ Here \in DOMAIN todo /\ Here \in Levels /\ todo[Here] \in Nat
             /\ IsLadder(Later, Levels)
             /\ DefaultPrice(Here) \in Prices /\ DefaultPrice(1) \in Prices
  <2>1. Here \in DOMAIN todo /\ todo[Here] \in Nat /\ IsLadder(Later, Levels)
    BY <1>4, Nearest DEF TypeInv, ControlOK, WorkOK
  <2>2. 1 \in Levels /\ Here \in Levels
    BY <2>1 DEF Levels, TypeInv, WorkOK, IsLadder
  <2> QED BY <2>1, <2>2, OrderPrices
<1>5. ASSUME step \in {"repairing", "fallback"}, Remember PROVE minimum' \in 0..least
  BY <1>4, <1>5, LargerOfTwo, MinimumAssumption
  DEF Remember, TooSmall, TypeInv, FilesOK, ExchangeOK
<1>6. ASSUME NEW p \in Prices, Arrive(p, todo[Here]), todo[Here] \in Nat
      PROVE  resting' \in [Prices -> Nat]
  BY <1>6 DEF Arrive, TypeInv, ExchangeOK
<1>7. CASE RepairAccepted
  <2>1. step = "repairing"
    BY <1>7 DEF RepairAccepted
  <2>2. ExchangeOK' /\ FilesOK' /\ GhostsOK'
    BY <1>4, <1>6, <1>7, <2>1 DEF RepairAccepted, TypeInv, ExchangeOK, FilesOK, GhostsOK
  <2>3. CASE Later = NoLadder
    BY <1>1, <1>7, <2>2, <2>3
    DEF RepairAccepted, TypeInv, CycleOK, WorkOK, ControlOK, Sending
  <2>4. CASE Later # NoLadder
    BY <1>4, <1>7, <2>1, <2>2, <2>4
    DEF RepairAccepted, TypeInv, CycleOK, WorkOK, ControlOK, Sending
  <2> QED BY <2>3, <2>4
<1>8. ASSUME NEW lost \in BOOLEAN, RepairRefused(lost) PROVE TypeInv'
  <2>1. step = "repairing" /\ Remember
    BY <1>8 DEF RepairRefused
  <2>2. resting' \in [Prices -> Nat] /\ faults' \in 0..MaxFaults
    BY <1>4, <1>6, <1>8, <2>1, FaultsAssumption
    DEF RepairRefused, Fault, TypeInv, ExchangeOK, GhostsOK
  <2>3. ExchangeOK' /\ FilesOK' /\ GhostsOK'
    BY <1>5, <1>8, <2>1, <2>2 DEF RepairRefused, TypeInv, ExchangeOK, FilesOK, GhostsOK
  <2>4. CASE placed
    BY <1>1, <1>8, <2>3, <2>4
    DEF RepairRefused, TypeInv, CycleOK, WorkOK, ControlOK, Sending
  <2>5. CASE ~placed
    <3>1. [l \in {1} |-> seen.qty] # NoLadder
      <4>1. DOMAIN [l \in {1} |-> seen.qty] = {1} /\ DOMAIN NoLadder = {}
        BY DEF NoLadder
      <4> QED BY <4>1
    <3>2. IsLadder([l \in {1} |-> seen.qty], Levels)
      BY DEF IsLadder, Levels, TypeInv, CycleOK
    <3> QED
      BY <1>8, <2>3, <2>5, <3>1, <3>2
      DEF RepairRefused, TypeInv, CycleOK, WorkOK, ControlOK, Sending
  <2> QED BY <2>4, <2>5
<1>9. ASSUME NEW accepted \in BOOLEAN, RepairFallback(accepted) PROVE TypeInv'
  <2>1. step = "fallback" /\ Remember
    BY <1>9 DEF RepairFallback
  <2>2. resting' \in [Prices -> Nat]
    BY <1>4, <1>6, <1>9, <2>1 DEF RepairFallback, TypeInv, ExchangeOK
  <2>3. ExchangeOK' /\ FilesOK' /\ GhostsOK'
    BY <1>5, <1>9, <2>1, <2>2 DEF RepairFallback, TypeInv, ExchangeOK, FilesOK, GhostsOK
  <2> QED
    BY <1>1, <1>9, <2>3
    DEF RepairFallback, TypeInv, CycleOK, WorkOK, ControlOK, Sending
<1> QED BY <1>2, <1>3, <1>7, <1>8, <1>9 DEF Repair

\* The plan that waits for a new entry.
LEMMA PlanOfEntry ==
  ASSUME NEW e \in Entries
  PROVE  IsPlan(PlanOf(e)) /\ PlanOf(e).entry = e
<1>1. Share(Quantity) \in Nat
  BY ShareIsPositive, QuantityAssumption
<1> DEFINE ladder == [l \in Queued |-> Share(Quantity)]
<1>2. IsLadder(ladder, Queued)
  BY <1>1 DEF IsLadder
<1>3. PlanOf(e) = [entry |-> e, age |-> "fresh", need |-> ladder, attempts |-> 0,
                   status |-> "tp_pending"]
  BY DEF PlanOf
<1> HIDE DEF ladder
<1> QED BY <1>2, <1>3 DEF IsPlan, MaxAttempts

\* The LIMIT entries that go, the entry that is sent and the plan that waits.
LEMMA EnterTypes ==
  ASSUME TypeInv, Enter
  PROVE  TypeInv'
<1> USE DEF exchange, files, reading, ghosts, EndCycle
<1>1. NotSeen \in [open : BOOLEAN, known : BOOLEAN, qty : Nat]
  BY DEF NotSeen
<1>2. ASSUME NEW gone \in SUBSET Entries, CancelInvalidLimitEntries(gone) PROVE TypeInv'
  BY <1>2
  DEF CancelInvalidLimitEntries, TypeInv, ExchangeOK, FilesOK, CycleOK, WorkOK, GhostsOK,
      ControlOK, Sending
<1>3. CASE NoEntry
  <2>1. GhostsOK'
    BY <1>3, DecisionsAssumption DEF NoEntry, TypeInv, GhostsOK
  <2>2. ExchangeOK' /\ FilesOK' /\ WorkOK'
    BY <1>3 DEF NoEntry, TypeInv, ExchangeOK, FilesOK, WorkOK
  <2>3. CycleOK' /\ ControlOK'
    BY <1>1, <1>3 DEF NoEntry, TypeInv, CycleOK, ControlOK, Sending
  <2> QED BY <2>1, <2>2, <2>3 DEF TypeInv
<1>4. ASSUME SendEntry
      PROVE  /\ next \in Entries /\ next' \in 1..Decisions + 1 /\ next' - 1 = next
             /\ ExchangeOK' /\ FilesOK' /\ blind' \in SUBSET Entries
             /\ first' \in 0..Decisions /\ origin' \in [Entries -> 0..Decisions]
  <2>1. next \in Entries
    BY <1>4 DEF SendEntry
  <2>2. next' \in 1..Decisions + 1 /\ next' - 1 = next
    BY <1>4, <2>1, DecisionsAssumption DEF SendEntry, Entries
  <2>3. first' \in 0..Decisions
    BY <1>4, <2>1, DecisionsAssumption DEF SendEntry, Entries, TypeInv, GhostsOK
  <2>4. origin' \in [Entries -> 0..Decisions]
    BY <1>4, <2>3 DEF SendEntry, TypeInv, GhostsOK
  <2> QED BY <1>4, <2>1, <2>2, <2>3, <2>4
          DEF SendEntry, TypeInv, ExchangeOK, FilesOK, GhostsOK
<1>5. CASE EntryAccepted
  <2>1. SendEntry
    BY <1>5 DEF EntryAccepted
  <2>2. IsPlan(plan') /\ plan'.entry = next' - 1
    BY <1>4, <1>5, <2>1, PlanOfEntry DEF EntryAccepted
  <2>3. CycleOK' /\ WorkOK' /\ GhostsOK' /\ ControlOK'
    BY <1>4, <1>5, <2>1, <2>2
    DEF EntryAccepted, SendEntry, TypeInv, CycleOK, WorkOK, GhostsOK, ControlOK, Sending
  <2> QED BY <1>4, <2>1, <2>3 DEF TypeInv
<1>6. CASE EntryLost
  <2>1. SendEntry
    BY <1>6 DEF EntryLost
  <2>2. faults' \in 0..MaxFaults
    BY <1>6, FaultsAssumption DEF EntryLost, Fault, TypeInv, GhostsOK
  <2>3. CycleOK' /\ WorkOK' /\ GhostsOK' /\ ControlOK'
    BY <1>1, <1>4, <1>6, <2>1, <2>2
    DEF EntryLost, SendEntry, TypeInv, CycleOK, WorkOK, GhostsOK, ControlOK, Sending
  <2> QED BY <1>4, <2>1, <2>3 DEF TypeInv
<1>7. CASE QueueTakeProfits
  BY <1>1, <1>7
  DEF QueueTakeProfits, TypeInv, ExchangeOK, FilesOK, CycleOK, WorkOK, GhostsOK, ControlOK,
      Sending
<1> QED BY <1>2, <1>3, <1>5, <1>6, <1>7 DEF Enter

LEMMA InitTypes == Init => TypeInv
<1> SUFFICES ASSUME Init PROVE TypeInv
  OBVIOUS
<1>1. 1 \in 1..Decisions + 1 /\ 0 \in 0..MaxFaults /\ 0 \in 0..least
  BY DecisionsAssumption, FaultsAssumption, MinimumAssumption DEF Init
<1>2. sent \in [Entries -> [Queued -> Nat]]
  BY DEF Init
<1>3. ExchangeOK /\ FilesOK
  BY <1>1 DEF Init, ExchangeOK, NothingRests, FilesOK
<1>4. CycleOK
  BY DEF Init, CycleOK, NotSeen
<1>5. WorkOK
  BY DEF Init, WorkOK, IsLadder, NoLadder
<1>6. GhostsOK /\ ControlOK
  BY <1>1, <1>2, DecisionsAssumption DEF Init, GhostsOK, ControlOK, Sending
<1> QED BY <1>3, <1>4, <1>5, <1>6 DEF TypeInv

LEMMA NextTypes == TypeInv /\ [Next]_vars => TypeInv'
<1> SUFFICES ASSUME TypeInv, [Next]_vars PROVE TypeInv'
  OBVIOUS
<1>1. CASE UNCHANGED vars
  <2>1. ExchangeOK' /\ FilesOK' /\ CycleOK'
    BY <1>1 DEF vars, exchange, files, reading, ghosts, TypeInv, ExchangeOK, FilesOK, CycleOK
  <2>2. WorkOK' /\ GhostsOK' /\ ControlOK'
    BY <1>1
    DEF vars, exchange, files, reading, ghosts, TypeInv, WorkOK, GhostsOK, ControlOK, Sending
  <2> QED BY <2>1, <2>2 DEF TypeInv
<1> QED
  BY <1>1, ExchangeTypes, ReadTypes, ReconcileTypes, RepairTypes, EnterTypes
  DEF Next, Runtime

-----------------------------------------------------------------------------
(* Which entries the exchange carries.                                     *)

\* An entry that was sent beside an older one that is still there was sent in
\* the same cycle, or by a cycle that overlooked a position.
LatestCarried ==
  \A d \in working \union held, e \in Entries :
    d < e /\ e < next => e \in blind \/ origin[e] = origin[d]

\* The positions were read as none, and none has been opened since.
NoneSeenNoneHeld == step = "orders" /\ ~seen.open /\ ~missed => held = {}

\* While the symbol is not blocked in a cycle that has overlooked nothing, the
\* exchange carries what this cycle has sent and nothing else: the fills between
\* its two reads are what it may overlook, later there is no order left to fill.
CarriesItsOwn ==
  free /\ ~missed /\ step \notin {"idle", "orders"} =>
    \A d \in working \union held : first # 0 /\ origin[d] = first

CarryInv ==
  /\ \A e \in working \union held : e < next
  /\ LatestCarried /\ NoneSeenNoneHeld /\ CarriesItsOwn
  /\ step \in {"idle", "orders"} => ~free

LEMMA InitCarry == Init => CarryInv
BY DEF Init, CarryInv, LatestCarried, NoneSeenNoneHeld, CarriesItsOwn, NotSeen

\* What the steps of the reconciliation and of the repair have in common: the
\* entries stay as they are, and so does what the cycle knows of them.
Aside ==
  /\ UNCHANGED <<working, held, free, missed, blind, first, origin, next>>
  /\ step' \notin {"idle", "orders", "queue"}
  /\ step \notin {"idle", "orders", "queue"}

\* Such a step keeps the invariant.
LEMMA AsideCarry == CarryInv /\ Aside => CarryInv'
BY DEF Aside, CarryInv, LatestCarried, NoneSeenNoneHeld, CarriesItsOwn

\* The reconciliation sends no entry.
LEMMA ReconcileAside == Reconcile => Aside
<1> USE DEF Aside, ghosts, exchange, files, reading
<1>1. ReconcileWithoutPosition \/ Defer \/ GiveUp \/ Confirm \/ Fail => Aside
  BY DEF ReconcileWithoutPosition, Defer, GiveUp, Confirm, Fail, InTime, Reconciling,
         SaveAtOnce
<1>2. StartPlacing => Aside
  BY DEF StartPlacing, InTime, Reconciling
<1>3. PlaceAccepted => Aside
  BY DEF PlaceAccepted, Finish
<1>4. PlaceRejected \/ PlaceLost \/ PlaceTooSmall => Aside
  BY DEF PlaceRejected, PlaceLost, PlaceTooSmall, Finish
<1>5. SavePlans => Aside
  BY DEF SavePlans
<1> QED
  BY <1>1, <1>2, <1>3, <1>4, <1>5 DEF Reconcile

\* The repair sends no entry and leaves the queue file alone.
LEMMA RepairAside == Repair => Aside /\ UNCHANGED <<plans, sent, served, slips>>
                               /\ ~Sending /\ ~Sending'
<1> USE DEF Aside, ghosts, exchange, files, reading, EndRepair, Sending
<1>1. SkipRepair \/ StartRepair =>
        Aside /\ UNCHANGED <<plans, sent, served, slips>> /\ ~Sending /\ ~Sending'
  BY DEF SkipRepair, StartRepair
<1>2. RepairAccepted =>
        Aside /\ UNCHANGED <<plans, sent, served, slips>> /\ ~Sending /\ ~Sending'
  BY DEF RepairAccepted
<1>3. ASSUME NEW lost \in BOOLEAN, RepairRefused(lost)
      PROVE  Aside /\ UNCHANGED <<plans, sent, served, slips>> /\ ~Sending /\ ~Sending'
  BY <1>3 DEF RepairRefused
<1>4. ASSUME NEW accepted \in BOOLEAN, RepairFallback(accepted)
      PROVE  Aside /\ UNCHANGED <<plans, sent, served, slips>> /\ ~Sending /\ ~Sending'
  BY <1>4 DEF RepairFallback
<1> QED
  BY <1>1, <1>2, <1>3, <1>4 DEF Repair

\* The reads of the account, the entry, the exchange and each fault keep it.
LEMMA NextCarry == TypeInv /\ CarryInv /\ [Next]_vars => CarryInv'
<1> SUFFICES ASSUME TypeInv, CarryInv, [Next]_vars PROVE CarryInv'
  OBVIOUS
<1> USE DEF CarryInv, LatestCarried, NoneSeenNoneHeld, CarriesItsOwn, NotSeen,
        ghosts, exchange, files, reading, EndCycle
<1>0. missed \in BOOLEAN /\ free \in BOOLEAN /\ next \in 1..Decisions + 1
      /\ working \subseteq Entries /\ held \subseteq Entries
  BY DEF TypeInv, CycleOK, GhostsOK, ExchangeOK
<1>1. ASSUME NEW ok \in BOOLEAN, NEW known \in BOOLEAN, ReadPositions(ok, known)
      PROVE  CarryInv'
  BY <1>0, <1>1 DEF ReadPositions
<1>2. ASSUME NEW ok \in BOOLEAN, NEW others \in BOOLEAN, ReadOrders(ok, others)
      PROVE  CarryInv'
  BY <1>0, <1>2 DEF ReadOrders
<1>3. ASSUME NEW gone \in SUBSET Entries, CancelInvalidLimitEntries(gone) PROVE CarryInv'
  BY <1>0, <1>3 DEF CancelInvalidLimitEntries
<1>4. CASE NoEntry
  BY <1>4 DEF NoEntry
<1>5. ASSUME SendEntry, step' \notin {"idle", "orders"} PROVE CarryInv'
  <2>1. /\ next' = next + 1 /\ working' = working \union {next} /\ held' = held
        /\ next \in Entries /\ next > 0 /\ step = "entry" /\ free /\ UNCHANGED missed
    BY <1>0, <1>5 DEF SendEntry, Entries
  <2>2. \A e \in (working \union held)' : e < next'
    BY <1>0, <2>1 DEF Entries
  <2>3. /\ origin'[next] = first' /\ \A e \in Entries : e # next => origin'[e] = origin[e]
        /\ first' = IF first = 0 THEN next ELSE first
    BY <1>0, <1>5, <2>1 DEF SendEntry, TypeInv, GhostsOK
  <2>4. \A d \in working \union held : d \in Entries /\ d # next
    BY <1>0 DEF Entries
  <2>5. ~missed => \A d \in working \union held : first # 0 /\ origin'[d] = first'
    BY <2>1, <2>3, <2>4
  <2>6. CarriesItsOwn'
    BY <2>1, <2>3, <2>5
  <2>7. ASSUME NEW d \in (working \union held)', NEW e \in Entries, d < e, e < next'
        PROVE  e \in blind' \/ origin'[e] = origin'[d]
    <3>1. d \in working \union held /\ e \in 1..Decisions /\ d \in 1..Decisions
      BY <1>0, <2>1, <2>7 DEF Entries
    <3>2. blind \subseteq blind' /\ (missed => next \in blind')
      BY <1>5 DEF SendEntry
    <3>3. CASE e = next
      BY <2>3, <2>5, <3>1, <3>2, <3>3
    <3>4. CASE e # next
      <4>1. e < next
        BY <1>0, <2>1, <2>7, <3>1, <3>4
      <4>2. e \in blind \/ origin[e] = origin[d]
        BY <2>7, <3>1, <4>1
      <4> QED BY <2>3, <2>4, <3>1, <3>2, <3>4, <4>2
    <3> QED BY <3>3, <3>4
  <2>8. LatestCarried'
    BY <2>7
  <2> QED BY <1>5, <2>2, <2>6, <2>8
<1>6. CASE EntryAccepted
  <2>1. SendEntry /\ step' \notin {"idle", "orders"}
    BY <1>6 DEF EntryAccepted
  <2> QED BY <1>5, <2>1
<1>7. CASE EntryLost
  <2>1. SendEntry /\ step' \notin {"idle", "orders"}
    BY <1>7 DEF EntryLost, SendEntry
  <2> QED BY <1>5, <2>1
<1>8. CASE QueueTakeProfits
  BY <1>8 DEF QueueTakeProfits
<1>9. CASE StopOut \/ Trigger
  BY <1>9 DEF StopOut, Trigger, Close, elsewhere
<1>10. ASSUME NEW e \in Entries, FillEntry(e) PROVE CarryInv'
  <2>1. (working \union held)' = working \union held
    BY <1>10 DEF FillEntry
  <2>2. LatestCarried' /\ \A d \in (working \union held)' : d < next'
    BY <1>10, <2>1 DEF FillEntry
  <2>3. NoneSeenNoneHeld' /\ CarriesItsOwn'
    BY <1>10 DEF FillEntry
  <2> QED BY <1>10, <2>2, <2>3 DEF FillEntry
<1>11. CASE Crash
  BY <1>11 DEF Crash
<1>12. ASSUME NEW p \in plans, AgePlan(p) PROVE CarryInv'
  BY <1>12 DEF AgePlan
<1>13. CASE Reconcile \/ Repair
  <2> HIDE DEF CarryInv
  <2> QED BY <1>13, ReconcileAside, RepairAside, AsideCarry
<1>14. CASE UNCHANGED vars
  BY <1>14 DEF vars
<1> QED
  BY <1>1, <1>2, <1>3, <1>4, <1>6, <1>7, <1>8, <1>9, <1>10, <1>11, <1>12, <1>13, <1>14
  DEF Next, Runtime, Exchange, Enter

-----------------------------------------------------------------------------
(* What a plan still owes its position.                                    *)

Positive(ladder) == \A l \in DOMAIN ladder : ladder[l] > 0

\* A level that is no longer in the ladder of an entry has been served.
ServedOr(e, ladder) == \A l \in Queued : l \in served[e] \/ l \in DOMAIN ladder

\* A level that is still in the ladder went out at most once per slip.
SentBy(e, ladder) == \A l \in DOMAIN ladder : sent[e][l] <= slips[e]

Sound(p) == Positive(p.need) /\ ServedOr(p.entry, p.need)

\* Nothing is remembered of an entry without a plan.
Forgotten ==
  \A e \in Entries \ EntriesOf(plans) : \A l \in Queued : sent[e][l] = 0

\* No plan is younger than the last entry, or than the one about to be queued;
\* each is sound, and but for the one whose levels are being sent what it still
\* lists went out at most once per slip.
PlansSound ==
  \A p \in plans :
    /\ p.entry < IF step = "queue" THEN plan.entry ELSE next
    /\ Sound(p)
    /\ (Sending /\ plan.entry = p.entry) \/ SentBy(p.entry, p.need)

\* What the loop has left to send.
LoopSound ==
  step = "place" =>
    Positive(todo) /\ ServedOr(plan.entry, todo) /\ SentBy(plan.entry, todo)

\* What is about to be saved; nothing is, once every level has been served.
KeepSound ==
  step = "save" =>
    /\ \A p \in keep : Sound(p) /\ SentBy(p.entry, p.need)
    /\ keep = {} => Queued \subseteq served[plan.entry]

PlanInv ==
  /\ LevelsSentOncePerSlip /\ Forgotten /\ PlansSound /\ LoopSound /\ KeepSound
  /\ step = "queue" => plan = PlanOf(plan.entry)

LEMMA InitPlans == Init => PlanInv
BY DEF Init, PlanInv, LevelsSentOncePerSlip, Forgotten, PlansSound, LoopSound, KeepSound,
       EntriesOf

\* What a step leaves alone that does not reconcile, and is neither at the
\* queue file before nor after it.
Apart ==
  /\ UNCHANGED <<plans, sent, served, slips>>
  /\ ~Sending /\ ~Sending'
  /\ step # "queue" /\ step' # "queue"
  /\ next <= next'

LEMMA ApartPlans ==
  ASSUME TypeInv, next' \in Nat, PlanInv, Apart
  PROVE  PlanInv'
<1>1. next \in Nat /\ \A p \in plans : p.entry \in Nat
  BY DEF TypeInv, GhostsOK, FilesOK, IsPlan, Entries
<1>2. LevelsSentOncePerSlip' /\ Forgotten' /\ LoopSound' /\ KeepSound'
  BY DEF Apart, PlanInv, LevelsSentOncePerSlip, Forgotten, LoopSound, KeepSound, Sending
<1>3. PlansSound'
  BY <1>1 DEF Apart, PlanInv, PlansSound, Sound, ServedOr, SentBy, Sending
<1> QED BY <1>2, <1>3 DEF PlanInv, Apart

\* The exchange and a step that changes nothing.
LEMMA ElsewherePlans ==
  ASSUME PlanInv, UNCHANGED <<plans, keep, todo, plan, step, next, sent, served, slips>>
  PROVE  PlanInv'
BY DEF PlanInv, LevelsSentOncePerSlip, Forgotten, PlansSound, LoopSound, KeepSound, Sending,
       Sound, Positive, ServedOr, SentBy, PlanOf

\* The entries whose plans are kept keep what is remembered of them.
LEMMA ForgetKeeps ==
  ASSUME GhostsOK, LevelsSentOncePerSlip, Forget
  PROVE  /\ LevelsSentOncePerSlip' /\ Forgotten'
         /\ \A e \in Entries \intersect EntriesOf(plans') :
              sent'[e] = sent[e] /\ served'[e] = served[e] /\ slips'[e] = slips[e]
<1>1. sent' = [e \in Entries |-> IF e \in EntriesOf(plans') THEN sent[e]
                                 ELSE [l \in Queued |-> 0]]
  BY DEF Forget
<1>2. served' = [e \in Entries |-> IF e \in EntriesOf(plans') THEN served[e] ELSE {}]
  BY DEF Forget
<1>3. slips' = [e \in Entries |-> IF e \in EntriesOf(plans') THEN slips[e] ELSE 0]
  BY DEF Forget
<1>4. LevelsSentOncePerSlip'
  <2> SUFFICES ASSUME NEW e \in Entries, NEW l \in Queued
               PROVE  sent'[e][l] <= 1 + slips'[e]
    BY DEF LevelsSentOncePerSlip
  <2>1. CASE e \in EntriesOf(plans')
    BY <1>1, <1>3, <2>1 DEF LevelsSentOncePerSlip
  <2>2. CASE e \notin EntriesOf(plans')
    BY <1>1, <1>3, <2>2
  <2> QED BY <2>1, <2>2
<1>5. Forgotten'
  <2> SUFFICES ASSUME NEW e \in Entries \ EntriesOf(plans'), NEW l \in Queued
               PROVE  sent'[e][l] = 0
    BY DEF Forgotten, EntriesOf
  <2> QED BY <1>1
<1> QED BY <1>1, <1>2, <1>3, <1>4, <1>5

\* A file is saved whose plans stand for plans of the old one.
LEMMA SavedPlans ==
  ASSUME TypeInv, PlanInv, Forget, step' = "repair", next' = next,
         \A p \in plans' : /\ p.entry \in Entries /\ p.entry < next /\ Sound(p)
                           /\ SentBy(p.entry, p.need)
  PROVE  PlanInv'
<1>1. /\ LevelsSentOncePerSlip' /\ Forgotten'
      /\ \A e \in Entries \intersect EntriesOf(plans') :
           sent'[e] = sent[e] /\ served'[e] = served[e] /\ slips'[e] = slips[e]
  BY ForgetKeeps DEF TypeInv, PlanInv
<1>2. PlansSound'
  <2> SUFFICES ASSUME NEW p \in plans'
               PROVE  p.entry < next' /\ Sound(p)' /\ SentBy(p.entry, p.need)'
    BY DEF PlansSound
  <2>1. p.entry \in Entries \intersect EntriesOf(plans')
    BY DEF EntriesOf
  <2> QED BY <1>1, <2>1 DEF Sound, ServedOr, SentBy, Positive
<1> QED BY <1>1, <1>2 DEF PlanInv, LoopSound, KeepSound

LEMMA DecidePlans ==
  ASSUME TypeInv, PlanInv,
         ReconcileWithoutPosition \/ Defer \/ GiveUp \/ Confirm \/ Fail
  PROVE  PlanInv'
<1>1. step = "reconcile" /\ \E remaining : SaveAtOnce(remaining)
  BY DEF ReconcileWithoutPosition, Defer, GiveUp, Confirm, Fail, InTime, Reconciling
<1>2. Forget /\ step' = "repair" /\ next' = next
  BY <1>1 DEF SaveAtOnce
<1>3. \A p \in plans : /\ p.entry \in Entries /\ p.entry < next /\ Sound(p)
                       /\ SentBy(p.entry, p.need)
  BY <1>1 DEF TypeInv, FilesOK, IsPlan, PlanInv, PlansSound, Sending
<1>4. \A p \in plans' : \E q \in plans : p.entry = q.entry /\ p.need = q.need
  <2>1. CASE ReconcileWithoutPosition
    BY <2>1 DEF ReconcileWithoutPosition, SaveAtOnce
  <2>2. CASE Confirm
    BY <2>2 DEF Confirm, SaveAtOnce
  <2>3. CASE Defer \/ GiveUp \/ Fail
    <3>1. Newest \in plans /\ IsPlan(Newest)
      BY <2>3, NewestIsPlan DEF Defer, GiveUp, Fail, InTime, Reconciling, TypeInv, FilesOK
    <3>2. \A p \in plans' : p.entry = Newest.entry /\ p.need = Newest.need
      BY <2>3, <3>1 DEF Defer, GiveUp, Fail, SaveAtOnce, IsPlan
    <3> QED BY <3>1, <3>2
  <2> QED BY <2>1, <2>2, <2>3
<1>5. \A p \in plans' : /\ p.entry \in Entries /\ p.entry < next /\ Sound(p)
                        /\ SentBy(p.entry, p.need)
  BY <1>3, <1>4 DEF Sound
<1> QED BY <1>2, <1>5, SavedPlans

LEMMA StartPlacingPlans ==
  ASSUME TypeInv, PlanInv, StartPlacing
  PROVE  PlanInv'
<1>1. /\ step = "reconcile" /\ plans # {}
      /\ plan' = Newest /\ todo' = Shortfall(Newest.need) /\ step' = "place"
      /\ UNCHANGED <<plans, sent, slips, next>>
      /\ served' = [served EXCEPT ![Newest.entry] =
                      @ \union (DOMAIN Newest.need \ DOMAIN Shortfall(Newest.need))]
  BY DEF StartPlacing, InTime, Reconciling, files
<1>2. PICK n \in plans : n = Newest /\ IsPlan(n)
  BY <1>1, NewestIsPlan DEF TypeInv, FilesOK
<1>3. n.entry \in Entries /\ IsLadder(n.need, Queued)
  BY <1>2 DEF IsPlan
<1>4. Sound(n) /\ SentBy(n.entry, n.need)
  BY <1>1 DEF PlanInv, PlansSound, Sending
<1>5. IsLadder(todo', DOMAIN n.need) /\ Positive(todo')
  BY <1>1, <1>2, <1>3, ShortfallOfNeed, MinimumAssumption
  DEF TypeInv, ExchangeOK, FilesOK, Positive
<1>6. served' = [served EXCEPT ![n.entry] = @ \union (DOMAIN n.need \ DOMAIN todo')]
  BY <1>1, <1>2
<1>7. \A e \in Entries : served[e] \subseteq served'[e]
  BY <1>6 DEF TypeInv, GhostsOK
<1>8. \A l \in Queued : l \in served'[n.entry] \/ l \in DOMAIN todo'
  BY <1>3, <1>4, <1>6 DEF Sound, ServedOr, TypeInv, GhostsOK
<1>9. \A l \in DOMAIN todo' : sent'[n.entry][l] <= slips'[n.entry]
  BY <1>1, <1>4, <1>5 DEF SentBy, IsLadder
<1>10. LoopSound' /\ KeepSound' /\ LevelsSentOncePerSlip' /\ Forgotten'
  BY <1>1, <1>2, <1>5, <1>8, <1>9
  DEF LoopSound, KeepSound, PlanInv, LevelsSentOncePerSlip, Forgotten, Positive, ServedOr,
      SentBy
<1>11. PlansSound'
  <2> SUFFICES ASSUME NEW p \in plans
               PROVE  p.entry < next /\ Sound(p)' /\ SentBy(p.entry, p.need)'
    BY <1>1 DEF PlansSound
  <2>1. p.entry < next /\ Sound(p) /\ SentBy(p.entry, p.need) /\ p.entry \in Entries
    BY <1>1 DEF PlanInv, PlansSound, Sending, TypeInv, FilesOK, IsPlan
  <2> QED BY <1>1, <1>7, <2>1 DEF Sound, ServedOr, SentBy
<1> QED BY <1>1, <1>10, <1>11 DEF PlanInv

\* The order of the level in turn: it was sent at most once per slip before.
LEMMA ArrivePlans ==
  ASSUME TypeInv, PlanInv, step = "place", ArriveHere
  PROVE  /\ \A l \in Queued : sent'[plan.entry][l] <= 1 + slips[plan.entry]
         /\ \A e \in Entries : e # plan.entry => sent'[e] = sent[e] /\ served'[e] = served[e]
         /\ \A l \in DOMAIN todo \ {Here} : sent'[plan.entry][l] <= slips[plan.entry]
         /\ \A e \in Entries : served[e] \subseteq served'[e]
         /\ Here \in served'[plan.entry]
<1>1. /\ plan.entry \in Entries /\ Here \in DOMAIN todo /\ Here \in Queued
  BY PlaceFacts
<1>2. \A l \in DOMAIN todo : l \in Queued /\ sent[plan.entry][l] <= slips[plan.entry]
  BY DEF PlanInv, LoopSound, SentBy, TypeInv, ControlOK
<1>3. sent[plan.entry] \in [Queued -> Nat] /\ slips[plan.entry] \in Nat
      /\ served[plan.entry] \subseteq Queued
  BY <1>1 DEF TypeInv, GhostsOK
<1>4. sent'[plan.entry] = [sent[plan.entry] EXCEPT ![Here] = @ + 1]
      /\ \A e \in Entries : e # plan.entry => sent'[e] = sent[e]
  BY <1>1 DEF ArriveHere, TypeInv, GhostsOK
<1>5. served'[plan.entry] = served[plan.entry] \union {Here}
      /\ \A e \in Entries : e # plan.entry => served'[e] = served[e]
  BY <1>1 DEF ArriveHere, TypeInv, GhostsOK
<1>6. \A l \in Queued : sent'[plan.entry][l] <= 1 + slips[plan.entry]
  <2> SUFFICES ASSUME NEW l \in Queued PROVE sent'[plan.entry][l] <= 1 + slips[plan.entry]
    OBVIOUS
  <2>1. CASE l = Here
    BY <1>1, <1>2, <1>3, <1>4, <2>1
  <2>2. CASE l # Here
    BY <1>1, <1>3, <1>4, <2>2 DEF PlanInv, LevelsSentOncePerSlip
  <2> QED BY <2>1, <2>2
<1>7. \A l \in DOMAIN todo \ {Here} : sent'[plan.entry][l] <= slips[plan.entry]
  BY <1>2, <1>3, <1>4
<1> QED BY <1>4, <1>5, <1>6, <1>7

\* While levels of one plan are sent the other plans stay as they were.
LEMMA OthersPlans ==
  ASSUME TypeInv, PlanInv, step = "place", step' \in {"place", "save"},
         UNCHANGED <<plan, plans, next>>,
         \A e \in Entries : served[e] \subseteq served'[e],
         \A e \in Entries : e # plan.entry => sent'[e] = sent[e] /\ slips'[e] = slips[e],
         \A l \in Queued : sent'[plan.entry][l] <= 1 + slips'[plan.entry]
  PROVE  LevelsSentOncePerSlip' /\ Forgotten' /\ PlansSound'
<1>1. plan \in plans /\ plan.entry \in EntriesOf(plans)
  BY PlaceFacts DEF EntriesOf
<1>2. LevelsSentOncePerSlip'
  BY DEF PlanInv, LevelsSentOncePerSlip
<1>3. Forgotten'
  BY <1>1 DEF PlanInv, Forgotten
<1>4. PlansSound'
  <2> SUFFICES ASSUME NEW p \in plans
               PROVE  /\ p.entry < next /\ Sound(p)'
                      /\ plan.entry = p.entry \/ SentBy(p.entry, p.need)'
    BY DEF PlansSound, Sending
  <2>1. /\ p.entry < next /\ Sound(p) /\ p.entry \in Entries
        /\ plan.entry = p.entry \/ SentBy(p.entry, p.need)
    BY DEF PlanInv, PlansSound, TypeInv, FilesOK, IsPlan
  <2> QED BY <2>1 DEF Sound, ServedOr, SentBy
<1> QED BY <1>2, <1>3, <1>4

\* The loop ends with levels left: what is kept of the plan is sound.
LEMMA KeptPlan ==
  ASSUME TypeInv, PlanInv, step = "place", UNCHANGED plan,
         NEW rest, NEW attempts, IsLadder(rest, Queued), DOMAIN rest \subseteq DOMAIN todo,
         Positive(rest), Finish(Unsent(rest, attempts)),
         \A l \in Queued : l \in served'[plan.entry] \/ l \in DOMAIN rest,
         \A l \in DOMAIN rest : sent'[plan.entry][l] <= slips'[plan.entry]
  PROVE  LoopSound' /\ KeepSound' /\ step' = "save"
<1> DEFINE p == [plan EXCEPT !.need = rest, !.attempts = attempts]
<1>1. p.entry = plan.entry /\ p.need = rest
  BY PlaceFacts DEF IsPlan
<1>2. step' = "save" /\ keep' = {p}
  BY DEF Finish, Unsent
<1> HIDE DEF p
<1>3. \A q \in keep' : Sound(q)' /\ SentBy(q.entry, q.need)'
  BY <1>1, <1>2 DEF Sound, ServedOr, SentBy, Positive
<1> QED BY <1>2, <1>3 DEF LoopSound, KeepSound

LEMMA PlacePlans ==
  ASSUME TypeInv, PlanInv,
         PlaceAccepted \/ PlaceRejected \/ PlaceLost \/ PlaceTooSmall
  PROVE  PlanInv'
<1> USE DEF exchange, files, reading, ghosts
<1>1. step = "place" /\ UNCHANGED <<plan, plans, next>>
  BY DEF PlaceAccepted, PlaceRejected, PlaceLost, PlaceTooSmall
<1>2. /\ plan.entry \in Entries /\ Here \in DOMAIN todo /\ Here \in Queued
      /\ IsLadder(todo, Queued) /\ IsLadder(Later, Queued)
      /\ DOMAIN Later = DOMAIN todo \ {Here} /\ \A l \in DOMAIN Later : Later[l] = todo[l]
  BY <1>1, PlaceFacts, Nearest DEF TypeInv, ControlOK, WorkOK
<1>3. /\ Positive(todo) /\ Positive(Later)
      /\ ServedOr(plan.entry, todo) /\ SentBy(plan.entry, todo)
  BY <1>1, <1>2 DEF PlanInv, LoopSound, Positive
<1>4. \A e \in Entries : slips[e] \in Nat /\ sent[e] \in [Queued -> Nat]
  BY DEF TypeInv, GhostsOK
<1>5. CASE PlaceAccepted
  <2>1. ArriveHere /\ slips' = slips /\ step' \in {"place", "save"}
    BY <1>1, <1>5 DEF PlaceAccepted, Finish
  <2>2. LevelsSentOncePerSlip' /\ Forgotten' /\ PlansSound'
    BY <1>1, <2>1, ArrivePlans, OthersPlans
  <2>3. \A l \in Queued : l \in served'[plan.entry] \/ l \in DOMAIN Later
    BY <1>1, <1>2, <1>3, <2>1, ArrivePlans DEF ServedOr
  <2>4. \A l \in DOMAIN Later : sent'[plan.entry][l] <= slips'[plan.entry]
    BY <1>1, <1>2, <2>1, ArrivePlans
  <2>5. CASE Later = NoLadder
    <3>1. step' = "save" /\ keep' = {}
      BY <1>5, <2>5 DEF PlaceAccepted, Finish
    <3>2. Queued \subseteq served'[plan.entry]
      BY <2>3, <2>5 DEF NoLadder
    <3>3. LoopSound' /\ KeepSound'
      BY <1>1, <3>1, <3>2 DEF LoopSound, KeepSound
    <3> QED BY <2>2, <3>1, <3>3 DEF PlanInv
  <2>6. CASE Later # NoLadder
    <3>1. step' = "place" /\ todo' = Later
      BY <1>1, <1>5, <2>6 DEF PlaceAccepted
    <3>2. LoopSound' /\ KeepSound'
      BY <1>1, <1>3, <2>3, <2>4, <3>1 DEF LoopSound, KeepSound, Positive, ServedOr, SentBy
    <3> QED BY <2>2, <3>1, <3>2 DEF PlanInv
  <2> QED BY <2>5, <2>6
<1>6. CASE PlaceRejected
  <2>1. UNCHANGED <<sent, served, slips>> /\ Finish(Unsent(todo, plan.attempts + 1))
    BY <1>6 DEF PlaceRejected
  <2>2. LoopSound' /\ KeepSound' /\ step' = "save"
    <3>1. /\ \A l \in Queued : l \in served'[plan.entry] \/ l \in DOMAIN todo
          /\ \A l \in DOMAIN todo : sent'[plan.entry][l] <= slips'[plan.entry]
      BY <1>3, <2>1 DEF ServedOr, SentBy
    <3> QED BY <1>1, <1>2, <1>3, <2>1, <3>1, KeptPlan
  <2>3. LevelsSentOncePerSlip' /\ Forgotten' /\ PlansSound'
    <3>1. \A l \in Queued : sent'[plan.entry][l] <= 1 + slips'[plan.entry]
      BY <1>2, <2>1 DEF PlanInv, LevelsSentOncePerSlip
    <3> QED BY <1>1, <2>1, <2>2, <3>1, OthersPlans
  <2> QED BY <2>2, <2>3 DEF PlanInv
<1>7. CASE PlaceLost
  <2>1. /\ ArriveHere /\ slips' = [slips EXCEPT ![plan.entry] = @ + 1]
        /\ Finish(Unsent(todo, plan.attempts + 1))
    BY <1>7 DEF PlaceLost
  <2>2. slips'[plan.entry] = slips[plan.entry] + 1
        /\ \A e \in Entries : e # plan.entry => slips'[e] = slips[e]
    BY <1>2, <2>1 DEF TypeInv, GhostsOK
  <2>3. \A l \in Queued : sent'[plan.entry][l] <= slips'[plan.entry]
    BY <1>1, <1>2, <1>4, <2>1, <2>2, ArrivePlans
  <2>4. \A l \in Queued : sent'[plan.entry][l] <= 1 + slips'[plan.entry]
    <3>1. sent' \in [Entries -> [Queued -> Nat]]
      BY <1>1, <2>1, ArriveTypes
    <3>2. \A l \in Queued : sent'[plan.entry][l] \in Nat
      BY <1>2, <3>1
    <3> QED BY <1>2, <1>4, <2>2, <2>3, <3>2
  <2>5. LoopSound' /\ KeepSound' /\ step' = "save"
    <3>1. \A l \in Queued : l \in served'[plan.entry] \/ l \in DOMAIN todo
      BY <1>1, <1>2, <1>3, <2>1, ArrivePlans DEF ServedOr
    <3>2. \A l \in DOMAIN todo : sent'[plan.entry][l] <= slips'[plan.entry]
      BY <1>2, <2>3 DEF IsLadder
    <3> QED BY <1>1, <1>2, <1>3, <2>1, <3>1, <3>2, KeptPlan
  <2>6. LevelsSentOncePerSlip' /\ Forgotten' /\ PlansSound'
    BY <1>1, <2>1, <2>2, <2>4, <2>5, ArrivePlans, OthersPlans
  <2> QED BY <2>5, <2>6 DEF PlanInv
<1>8. CASE PlaceTooSmall
  <2>1. /\ served' = [served EXCEPT ![plan.entry] = @ \union {Here}]
        /\ UNCHANGED <<sent, slips>> /\ Finish(Unsent(Later, plan.attempts))
    BY <1>8 DEF PlaceTooSmall
  <2>2. served'[plan.entry] = served[plan.entry] \union {Here}
        /\ \A e \in Entries : served[e] \subseteq served'[e]
    BY <1>2, <2>1 DEF TypeInv, GhostsOK
  <2>3. LoopSound' /\ KeepSound' /\ step' = "save"
    <3>1. /\ \A l \in Queued : l \in served'[plan.entry] \/ l \in DOMAIN Later
          /\ \A l \in DOMAIN Later : sent'[plan.entry][l] <= slips'[plan.entry]
      BY <1>2, <1>3, <2>1, <2>2 DEF ServedOr, SentBy
    <3>2. DOMAIN Later \subseteq DOMAIN todo
      BY <1>2
    <3> QED BY <1>1, <1>2, <1>3, <2>1, <3>1, <3>2, KeptPlan
  <2>4. LevelsSentOncePerSlip' /\ Forgotten' /\ PlansSound'
    <3>1. \A l \in Queued : sent'[plan.entry][l] <= 1 + slips'[plan.entry]
      BY <1>2, <2>1 DEF PlanInv, LevelsSentOncePerSlip
    <3> QED BY <1>1, <2>1, <2>2, <2>3, <3>1, OthersPlans
  <2> QED BY <2>3, <2>4 DEF PlanInv
<1> QED BY <1>5, <1>6, <1>7, <1>8

LEMMA SavePlansPlans ==
  ASSUME TypeInv, PlanInv, SavePlans
  PROVE  PlanInv'
<1>1. /\ step = "save" /\ plans' = keep /\ Forget /\ step' = "repair" /\ next' = next
  BY DEF SavePlans
<1>2. plan \in plans /\ plan.entry < next
  BY <1>1 DEF TypeInv, ControlOK, Sending, PlanInv, PlansSound
<1>3. \A p \in keep : p.entry \in Entries /\ p.entry = plan.entry /\ Sound(p)
                      /\ SentBy(p.entry, p.need)
  BY <1>1 DEF TypeInv, WorkOK, IsPlan, ControlOK, PlanInv, KeepSound
<1> QED BY <1>1, <1>2, <1>3, SavedPlans

\* A crash between the two writes of the loop counts as a slip.
LEMMA CrashPlans ==
  ASSUME TypeInv, PlanInv, Crash
  PROVE  PlanInv'
<1>1. /\ step' = "idle" /\ UNCHANGED <<plans, sent, served, next>>
      /\ slips' = IF Sending THEN [slips EXCEPT ![plan.entry] = @ + 1] ELSE slips
  BY DEF Crash, EndCycle, Sending, files
<1>2. Sending => plan.entry \in Entries
  BY DEF TypeInv, ControlOK, FilesOK, IsPlan
<1>3. \A e \in Entries : slips[e] \in Nat /\ slips'[e] >= slips[e]
  BY <1>1, <1>2 DEF TypeInv, GhostsOK
<1>4. \A e \in Entries : Sending /\ plan.entry = e => slips'[e] = slips[e] + 1
  BY <1>1 DEF TypeInv, GhostsOK
<1>5. \A e \in Entries, l \in Queued : sent[e][l] \in Nat /\ slips'[e] \in Nat
  BY <1>1, <1>2 DEF TypeInv, GhostsOK
<1>6. LevelsSentOncePerSlip' /\ Forgotten'
  BY <1>1, <1>3, <1>5 DEF PlanInv, LevelsSentOncePerSlip, Forgotten
<1>7. PlansSound'
  <2> SUFFICES ASSUME NEW p \in plans
               PROVE  p.entry < next /\ Sound(p)' /\ SentBy(p.entry, p.need)'
    BY <1>1 DEF PlansSound
  <2>1. Sound(p) /\ p.entry \in Entries /\ DOMAIN p.need \subseteq Queued
    BY DEF PlanInv, PlansSound, TypeInv, FilesOK, IsPlan, IsLadder
  <2>2. p.entry < next
    BY DEF PlanInv, PlansSound, TypeInv, ControlOK, GhostsOK, FilesOK, IsPlan, Entries
  <2>3. SentBy(p.entry, p.need)'
    <3>1. CASE Sending /\ plan.entry = p.entry
      BY <1>1, <1>3, <1>4, <1>5, <2>1, <3>1 DEF PlanInv, LevelsSentOncePerSlip, SentBy
    <3>2. CASE ~(Sending /\ plan.entry = p.entry)
      <4>1. SentBy(p.entry, p.need)
        BY <3>2 DEF PlanInv, PlansSound
      <4> QED BY <1>1, <1>3, <1>5, <2>1, <4>1 DEF SentBy
    <3> QED BY <3>1, <3>2
  <2> QED BY <1>1, <2>1, <2>2, <2>3 DEF Sound, ServedOr
<1> QED BY <1>1, <1>6, <1>7 DEF PlanInv, LoopSound, KeepSound

LEMMA AgePlans ==
  ASSUME TypeInv, PlanInv, NEW old \in plans, AgePlan(old)
  PROVE  PlanInv'
<1>1. /\ step = "idle" /\ plans' = (plans \ {old}) \union {Older(old)}
      /\ UNCHANGED <<step, keep, todo, plan, next, sent, served, slips>>
  BY DEF AgePlan, ghosts
<1>2. Older(old).entry = old.entry /\ Older(old).need = old.need
  BY DEF Older, TypeInv, FilesOK, IsPlan
<1>3. EntriesOf(plans') = EntriesOf(plans)
  BY <1>1, <1>2 DEF EntriesOf
<1>4. \A p \in plans : p.entry < next /\ Sound(p) /\ SentBy(p.entry, p.need)
  BY <1>1 DEF PlanInv, PlansSound, Sending
<1>5. \A p \in plans' : p.entry < next /\ Sound(p) /\ SentBy(p.entry, p.need)
  BY <1>1, <1>2, <1>4 DEF Sound
<1>6. PlansSound'
  BY <1>1, <1>5 DEF PlansSound, Sound, ServedOr, SentBy
<1>7. LevelsSentOncePerSlip' /\ Forgotten' /\ LoopSound' /\ KeepSound'
  BY <1>1, <1>3
  DEF PlanInv, LevelsSentOncePerSlip, Forgotten, LoopSound, KeepSound
<1> QED BY <1>1, <1>6, <1>7 DEF PlanInv

\* A new plan waits, then joins the file.
LEMMA EnterPlans ==
  ASSUME TypeInv, PlanInv, Enter
  PROVE  PlanInv'
<1> USE DEF exchange, files, reading, ghosts, EndCycle
<1>0. next \in Nat /\ \A p \in plans : p.entry \in Nat
  BY DEF TypeInv, GhostsOK, FilesOK, IsPlan, Entries
<1>1. ASSUME NEW gone \in SUBSET Entries, CancelInvalidLimitEntries(gone) PROVE PlanInv'
  <2>1. Apart /\ next' \in Nat
    BY <1>0, <1>1 DEF CancelInvalidLimitEntries, Apart, Sending
  <2> QED BY <2>1, ApartPlans
<1>2. CASE NoEntry
  <2>1. Apart /\ next' \in Nat
    BY <1>0, <1>2 DEF NoEntry, Apart, Sending
  <2> QED BY <2>1, ApartPlans
<1>3. CASE EntryLost
  <2>1. Apart /\ next' \in Nat
    BY <1>0, <1>3 DEF EntryLost, SendEntry, Apart, Sending
  <2> QED BY <2>1, ApartPlans
<1>4. CASE EntryAccepted
  <2>1. /\ step = "entry" /\ step' = "queue" /\ UNCHANGED <<plans, sent, served, slips>>
        /\ plan' = PlanOf(next)
    BY <1>4 DEF EntryAccepted, SendEntry
  <2>2. next \in Entries
    BY <1>4, <2>1 DEF EntryAccepted, SendEntry
  <2>3. plan'.entry = next
    BY <2>1, <2>2, PlanOfEntry
  <2>4. LevelsSentOncePerSlip' /\ Forgotten' /\ LoopSound' /\ KeepSound'
    BY <2>1 DEF PlanInv, LevelsSentOncePerSlip, Forgotten, LoopSound, KeepSound
  <2>5. PlansSound'
    BY <2>1, <2>3 DEF PlanInv, PlansSound, Sound, ServedOr, SentBy, Sending
  <2>6. plan' = PlanOf(plan'.entry)
    BY <2>1, <2>3
  <2> QED BY <2>4, <2>5, <2>6 DEF PlanInv, PlanOf
<1>5. CASE QueueTakeProfits
  <2>1. /\ step = "queue" /\ step' = "entry" /\ plans' = plans \union {plan}
        /\ UNCHANGED <<sent, served, slips, next>>
    BY <1>5 DEF QueueTakeProfits
  <2>2. IsPlan(plan) /\ plan.entry = next - 1 /\ plan = PlanOf(plan.entry)
        /\ plan.entry \in Entries
    BY <2>1 DEF TypeInv, ControlOK, PlanInv, IsPlan
  <2>3. DOMAIN plan.need = Queued /\ Positive(plan.need)
    <3>1. plan.need = [l \in Queued |-> Share(Quantity)]
      BY <2>2 DEF PlanOf
    <3> QED BY <3>1, ShareIsPositive, QuantityAssumption DEF Positive
  <2>4. \A p \in plans : p.entry < plan.entry /\ Sound(p) /\ SentBy(p.entry, p.need)
    BY <2>1 DEF PlanInv, PlansSound, Sending
  <2>5. plan.entry \notin EntriesOf(plans)
    BY <1>0, <2>4 DEF EntriesOf
  <2>6. Sound(plan) /\ SentBy(plan.entry, plan.need)
    BY <2>2, <2>3, <2>5 DEF PlanInv, Forgotten, Sound, ServedOr, SentBy, TypeInv, GhostsOK
  <2>7. \A p \in plans' : p.entry < next /\ Sound(p) /\ SentBy(p.entry, p.need)
    BY <1>0, <2>1, <2>2, <2>4, <2>6
  <2>8. PlansSound'
    BY <2>1, <2>7 DEF PlansSound, Sound, ServedOr, SentBy
  <2>9. LevelsSentOncePerSlip' /\ Forgotten' /\ LoopSound' /\ KeepSound'
    BY <2>1 DEF PlanInv, LevelsSentOncePerSlip, Forgotten, EntriesOf, LoopSound, KeepSound
  <2> QED BY <2>1, <2>8, <2>9 DEF PlanInv
<1> QED BY <1>1, <1>2, <1>3, <1>4, <1>5 DEF Enter

LEMMA NextPlans == TypeInv /\ PlanInv /\ [Next]_vars => PlanInv'
<1> SUFFICES ASSUME TypeInv, PlanInv, [Next]_vars PROVE PlanInv'
  OBVIOUS
<1> USE DEF exchange, files, reading, ghosts
<1>0. next \in Nat
  BY DEF TypeInv, GhostsOK
<1>1. ASSUME NEW ok \in BOOLEAN, NEW known \in BOOLEAN, ReadPositions(ok, known)
      PROVE  PlanInv'
  <2>1. Apart /\ next' \in Nat
    BY <1>0, <1>1 DEF ReadPositions, Apart, Sending
  <2> QED BY <2>1, ApartPlans
<1>2. ASSUME NEW ok \in BOOLEAN, NEW others \in BOOLEAN, ReadOrders(ok, others)
      PROVE  PlanInv'
  <2>1. Apart /\ next' \in Nat
    BY <1>0, <1>2 DEF ReadOrders, Apart, Sending
  <2> QED BY <2>1, ApartPlans
<1>3. CASE Repair
  <2>1. Apart /\ next' \in Nat
    BY <1>0, <1>3, RepairAside DEF Aside, Apart
  <2> QED BY <2>1, ApartPlans
<1>4. CASE Reconcile
  BY <1>4, DecidePlans, StartPlacingPlans, PlacePlans, SavePlansPlans DEF Reconcile
<1>5. CASE Exchange
  BY <1>5, ElsewherePlans DEF Exchange, StopOut, Trigger, Close, FillEntry, elsewhere
<1>6. CASE UNCHANGED vars
  BY <1>6, ElsewherePlans DEF vars
<1> QED
  BY <1>1, <1>2, <1>3, <1>4, <1>5, <1>6, EnterPlans, CrashPlans, AgePlans
  DEF Next, Runtime

-----------------------------------------------------------------------------
(* The results.                                                            *)

Inv == TypeInv /\ CarryInv /\ PlanInv

\* The invariant holds in every state of the specification.
THEOREM Invariance == Spec => []Inv
<1>1. Init => Inv
  BY InitTypes, InitCarry, InitPlans DEF Inv
<1>2. Inv /\ [Next]_vars => Inv'
  BY NextTypes, NextCarry, NextPlans DEF Inv
<1> QED BY <1>1, <1>2, PTL DEF Spec

\* Every variable stays of its type: levels of a ladder, plans of the file and
\* the loop that works one off, whatever fails on the way.
THEOREM TypeCorrect == Spec => []TypeOK
<1>1. Inv => TypeOK
  BY TypeParts DEF Inv, TypeInv
<1> QED BY <1>1, Invariance, PTL

\* The entries of a symbol that rest on the exchange or make its position were
\* all sent in one cycle, those of cycles that overlooked a position aside;
\* orders that could not be read, lost answers and crashes do not change it.
THEOREM SingleExposure == Spec => []ExposureIsSingle
<1>1. Inv => ExposureIsSingle
  <2> SUFFICES ASSUME Inv, NEW d \in (working \union held) \ blind,
                      NEW e \in (working \union held) \ blind
               PROVE  origin[d] = origin[e]
    BY DEF ExposureIsSingle
  <2>1. d \in Entries /\ e \in Entries /\ d < next /\ e < next
    BY DEF Inv, CarryInv, TypeInv, ExchangeOK
  <2>2. d < e \/ e < d \/ d = e
    BY <2>1 DEF Entries
  <2> QED BY <2>1, <2>2 DEF Inv, CarryInv, LatestCarried
<1> QED BY <1>1, Invariance, PTL

\* A level of a plan is put on the exchange once, and once more for each lost
\* answer and each crash before the file was saved, never because a level that
\* was found or placed has been triggered since.
THEOREM SentOncePerSlip == Spec => []LevelsSentOncePerSlip
<1>1. Inv => LevelsSentOncePerSlip
  BY DEF Inv, PlanInv
<1> QED BY <1>1, Invariance, PTL

\* Only a loop of the reconciliation counts a level as sent, and for the newest
\* plan of the file.
LEMMA OnlyTheNewestIsSent ==
  ASSUME TypeInv, [Next]_vars, NEW e \in Entries, NEW l \in Queued, sent'[e][l] > sent[e][l]
  PROVE  step = "place" /\ e = plan.entry
<1> USE DEF exchange, files, reading, ghosts
<1>1. sent[e][l] \in Nat
  BY DEF TypeInv, GhostsOK
<1>2. sent' # sent
  BY <1>1
<1>3. ~Forget
  <2> SUFFICES ASSUME Forget PROVE FALSE
    OBVIOUS
  <2>1. sent'[e][l] = sent[e][l] \/ sent'[e][l] = 0
    BY DEF Forget
  <2> QED BY <1>1, <2>1
<1>4. ~Repair
  BY <1>2, RepairAside
<1>5. ~Exchange /\ ~Crash /\ ~(\E p \in plans : AgePlan(p)) /\ ~UNCHANGED vars
  BY <1>2 DEF Exchange, StopOut, Trigger, Close, FillEntry, elsewhere, Crash, AgePlan, vars
<1>6. ~Enter
  BY <1>2 DEF Enter, CancelInvalidLimitEntries, NoEntry, EntryAccepted, EntryLost, SendEntry,
              QueueTakeProfits
<1>7. PlaceAccepted \/ PlaceLost
  BY <1>2, <1>3, <1>4, <1>5, <1>6
  DEF Next, Runtime, ReadPositions, ReadOrders, Reconcile, ReconcileWithoutPosition, Defer,
      GiveUp, Confirm, Fail, SaveAtOnce, StartPlacing, PlaceRejected, PlaceTooSmall, SavePlans
<1>8. step = "place" /\ ArriveHere
  BY <1>7 DEF PlaceAccepted, PlaceLost
<1>9. e = plan.entry
  <2> SUFFICES ASSUME e # plan.entry PROVE FALSE
    OBVIOUS
  <2>1. sent'[e] = sent[e]
    BY <1>8 DEF ArriveHere, TypeInv, GhostsOK
  <2> QED BY <1>1, <2>1
<1> QED BY <1>8, <1>9

\* The levels that are sent belong to the position: the plan that is worked off
\* is the newest, so an older entry of the file in the position means that the
\* newest was sent beside it, in the same cycle or by one that overlooked it.
THEOREM OwnLevels == Spec => PositionGetsItsOwnLevels
<1>1. ASSUME Inv, [Next]_vars
      PROVE  [\A e \in Entries, l \in Queued :
                sent'[e][l] > sent[e][l] =>
                  \/ \E f \in held : origin[f] = origin[e]
                  \/ held \intersect EntriesOf(plans) = {} \/ e \in blind]_vars
  <2> SUFFICES ASSUME NEW e \in Entries, NEW l \in Queued, sent'[e][l] > sent[e][l],
                      ~(\E f \in held : origin[f] = origin[e]),
                      NEW d \in held \intersect EntriesOf(plans)
               PROVE  e \in blind
    OBVIOUS
  <2>1. step = "place" /\ e = plan.entry
    BY <1>1, OnlyTheNewestIsSent DEF Inv
  <2>2. plan \in plans /\ \A q \in plans : q.entry <= plan.entry
    BY <1>1, <2>1 DEF Inv, TypeInv, ControlOK, Sending
  <2>3. d \in Entries /\ d <= e /\ d # e
    BY <1>1, <2>1, <2>2 DEF EntriesOf, Inv, TypeInv, ExchangeOK
  <2>4. e < next
    BY <1>1, <2>1, <2>2 DEF Inv, PlanInv, PlansSound
  <2>5. d < e
    BY <2>3 DEF Entries
  <2> QED BY <1>1, <2>4, <2>5 DEF Inv, CarryInv, LatestCarried
<1> QED BY <1>1, Invariance, PTL DEF Spec, PositionGetsItsOwnLevels

\* A plan leaves the file for its position when nothing of it is short, or when
\* the loop has served its last level.
THEOREM DroppedWhenServed == Spec => NothingDroppedUnserved
<1> DEFINE Served(e) == \A l \in Queued : \/ l \in served[e]
                                          \/ resting[PlanPrice(l)] > 0
                                          \/ l \in DOMAIN Newest.need /\ Newest.need[l] <= minimum
<1>1. ASSUME Inv, [Next]_vars
      PROVE  [\A e \in EntriesOf(plans) \ EntriesOf(plans') :
                seen.open /\ e = Newest.entry =>
                  \A l \in Queued : \/ l \in served[e]
                                    \/ resting[PlanPrice(l)] > 0
                                    \/ l \in DOMAIN Newest.need /\ Newest.need[l] <= minimum]_vars
  <2> SUFFICES ASSUME seen.open, Newest.entry \in EntriesOf(plans),
                      Newest.entry \notin EntriesOf(plans')
               PROVE  Served(Newest.entry)
    OBVIOUS
  <2> USE <1>1 DEF exchange, files, reading, ghosts
  <2>1. plans # {} /\ \A p \in plans : IsPlan(p)
    BY DEF EntriesOf, Inv, TypeInv, FilesOK
  <2>2. Newest \in plans /\ IsPlan(Newest) /\ \A q \in plans : q.entry <= Newest.entry
    BY <2>1, NewestIsPlan
  <2>3. plans' # plans
    OBVIOUS
  <2>4. ~Exchange /\ ~Crash /\ ~UNCHANGED vars /\ ~Repair
    BY <2>3, RepairAside
    DEF Exchange, StopOut, Trigger, Close, FillEntry, elsewhere, Crash, vars
  <2>5. ~Enter
    BY <2>3 DEF Enter, CancelInvalidLimitEntries, NoEntry, EntryAccepted, EntryLost, SendEntry,
                QueueTakeProfits, EntriesOf
  <2>6. ~(\E p \in plans : AgePlan(p))
    <3> SUFFICES ASSUME NEW p \in plans, AgePlan(p) PROVE FALSE
      OBVIOUS
    <3>1. plans' = (plans \ {p}) \union {Older(p)} /\ Older(p).entry = p.entry
      BY <2>1 DEF AgePlan, Older, IsPlan
    <3> QED BY <3>1 DEF EntriesOf
  <2>7. ~(Defer \/ GiveUp \/ Fail \/ ReconcileWithoutPosition)
    <3>1. ~ReconcileWithoutPosition
      BY <2>1 DEF ReconcileWithoutPosition
    <3>2. ~(Defer \/ GiveUp \/ Fail)
      <4> SUFFICES ASSUME Defer \/ GiveUp \/ Fail PROVE FALSE
        OBVIOUS
      <4>1. /\ [Newest EXCEPT !.status = "manual_action_required"].entry = Newest.entry
            /\ [Newest EXCEPT !.status = "protection_failed"].entry = Newest.entry
        BY <2>2 DEF IsPlan
      <4>2. \E p : plans' = {p} /\ p.entry = Newest.entry
        BY <4>1 DEF Defer, GiveUp, Fail, SaveAtOnce
      <4> QED BY <4>2 DEF EntriesOf
    <3> QED BY <3>1, <3>2
  <2>8. CASE Confirm
    <3>1. step = "reconcile" /\ Shortfall(Newest.need) = NoLadder
      BY <2>8 DEF Confirm, InTime, Reconciling
    <3>2. Sound(Newest)
      BY <2>2 DEF Inv, PlanInv, PlansSound
    <3>3. DOMAIN Shortfall(Newest.need) = {}
      BY <3>1 DEF NoLadder
    <3>4. \A l \in DOMAIN Newest.need :
            Newest.need[l] <= minimum \/ Newest.need[l] <= Covered(l)
      BY <2>2, <3>3, ShortfallOfNeed, MinimumAssumption
      DEF IsPlan, Inv, TypeInv, ExchangeOK, FilesOK
    <3>5. \A l \in DOMAIN Newest.need : Newest.need[l] \in Nat /\ Covered(l) \in Nat
      BY <2>2, OrderPrices DEF IsPlan, IsLadder, Covered, Queued, Levels, Inv, TypeInv, ExchangeOK
    <3> QED BY <3>2, <3>4, <3>5 DEF Sound, Positive, ServedOr, Covered
  <2>9. CASE SavePlans
    <3>1. step = "save" /\ plans' = keep
      BY <2>9 DEF SavePlans
    <3>2. plan \in plans /\ (\A q \in plans : q.entry <= plan.entry)
          /\ (\A p \in keep : p.entry = plan.entry)
      BY <3>1 DEF Inv, TypeInv, ControlOK, Sending
    <3>3. plan.entry = Newest.entry
      BY <2>1, <2>2, <3>2 DEF IsPlan, Entries
    <3>4. keep = {}
      BY <3>1, <3>2, <3>3 DEF EntriesOf
    <3> QED BY <3>1, <3>3, <3>4 DEF Inv, PlanInv, KeepSound
  <2> QED
    BY <2>3, <2>4, <2>5, <2>6, <2>7, <2>8, <2>9
    DEF Next, Runtime, ReadPositions, ReadOrders, Reconcile, StartPlacing, PlaceAccepted,
        PlaceRejected, PlaceLost, PlaceTooSmall
<1> QED BY <1>1, Invariance, PTL DEF Spec, NothingDroppedUnserved
=============================================================================
