-------------------------- MODULE TakeProfitLadder --------------------------
(***************************************************************************)
(* The take-profit geometry of one entry, as three pieces of code compute  *)
(* it: the Decision Agent that proposes the levels, the paper engine that  *)
(* sanitises and normalises them, and the live executor that turns them    *)
(* into orders through the shared lifecycle contract.                      *)
(*                                                                         *)
(* A level is its gain: the distance from the entry on the profit side, in *)
(* ticks. A long and a short position then have the same ladder, and a     *)
(* level on the losing side is a number at most 0.                         *)
(*                                                                         *)
(* The plan measures its levels from its own stop, the invalidation of the *)
(* chart. A stop_loss_percent replaces that stop afterwards, on paper and  *)
(* live; and a plan at the market is entered on paper at the price of the  *)
(* moment, so that the same levels and the same stop are seen from another *)
(* entry. A percentage is taken to be the same distance from either entry. *)
(***************************************************************************)
EXTENDS Integers, FiniteSets, Sequences, SequencesExt, FiniteSetsExt

CONSTANTS
  Levels,       \* gains a scanner or a chart reading may name
  Risks,        \* distances from the planned entry to its stop
  Stops,        \* stop_loss_percent as a distance; 0 when it is not set
  Drifts,       \* by how much the paper entry is better than the planned one
  RiskRewards,  \* target_risk_reward of the dashboard; 0 when it is not set
  Percents      \* take_profit_percent as a gain; 0 when it is not set

ASSUME LevelsAssumption ==
  /\ Levels \subseteq Int
  /\ Risks \subseteq Nat \ {0}
  /\ Stops \subseteq Nat
  /\ Drifts \subseteq Int
  /\ RiskRewards \subseteq Nat
  /\ Percents \subseteq Nat

VARIABLES
  risk,           \* the stop distance of the plan
  stop, rr, pct,  \* the preferences
  drift,          \* of the paper entry
  stage,          \* "proposed", "planned", "opened"
  source,         \* who proposed the levels: "decision" or "scanner"
  planned,        \* the sequence of levels proposed
  paper,          \* the ladder of the paper position; <<>> when it is ignored
  live            \* the ladder of the live orders; <<>> when the entry is refused

settings == <<risk, stop, rr, pct, drift>>
vars == <<settings, stage, source, planned, paper, live>>

MinRR == 2
MaxLevels == 3
Size == 10
TpFractions == <<3, 3, 4>>

Increasing(s) == \A i, j \in DOMAIN s : i < j => s[i] < s[j]

\* The members of a set of numbers, the smallest first.
Sorted(S) == CHOOSE s \in [1..Cardinality(S) -> S] : Increasing(s)

\* The members of a sequence at these places, in their order.
Picked(s, places) ==
  LET at == Sorted(places) IN [i \in DOMAIN at |-> s[at[i]]]

\* The sum of the first n members of a sequence.
SumOf(s, n) ==
  LET sum[i \in 0..n] == IF i = 0 THEN 0 ELSE sum[i-1] + s[i]
  IN  sum[n]

-----------------------------------------------------------------------------
(* Paper: realtime_engine.py *)

Lowest(n, S) == {g \in S : Cardinality({h \in S : h < g}) < n}

RiskMultiples(r, ms) == {r * m : m \in ms}

\* Profit side only, each level once, nearest first, three at most.
Sanitized(raw) == Lowest(MaxLevels, {g \in ToSet(raw) : g > 0})

\* Defect: the levels added beyond 2R are not cut to the first three.
FlooredUncut(levels, r) ==
  {MinRR * r} \union {g \in levels : g > MinRR * r} \union RiskMultiples(r, {3, 4})

\* Lift the nearest level to MinRR and keep the levels beyond it.
Floored(levels, r) ==
  LET merged == Lowest(MaxLevels, {MinRR * r} \union {g \in levels : g > MinRR * r})
  IN  IF Cardinality(merged) < MaxLevels
        THEN Lowest(MaxLevels, merged \union RiskMultiples(r, {3, 4}))
        ELSE merged

\* Defect: a signal without a usable level keeps an empty ladder.
NormalizedOrEmpty(levels, r) ==
  IF \E g \in levels : g < MinRR * r THEN Floored(levels, r) ELSE levels

\* Defect: the levels of the signal are taken as they are.
NormalizedAsNamed(levels, r) ==
  IF levels = {} THEN RiskMultiples(r, {2, 3, 4}) ELSE levels

Normalized(levels, r) ==
  CASE levels = {}                       -> RiskMultiples(r, {2, 3, 4})
    [] \E g \in levels : g < MinRR * r   -> Floored(levels, r)
    [] OTHER                             -> levels

PaperLevels(raw, r, target, percent) ==
  LET signal == IF percent > 0 THEN <<percent>> ELSE raw
  IN  IF target > 0
        THEN RiskMultiples(r, {target, target + 1, target + 2})
        ELSE Normalized(Sanitized(signal), r)

PaperLadder(raw, r, target, percent) ==
  Sorted(PaperLevels(raw, r, target, percent))

\* Defect: a fraction of what is left, not of the initial size.
PaperClosesOfRest(n) ==
  LET left[i \in 0..n] ==
        IF i = 0 THEN Size
        ELSE IF i = n THEN 0
        ELSE left[i-1] - (left[i-1] * TpFractions[i]) \div Size
  IN  [i \in 1..n |-> left[i-1] - left[i]]

\* What is left of the position after each of its n levels: a fraction of the initial
\* size leaves at a level, and whatever remains at the last one.
Remaining(n) ==
  LET left[i \in 0..n] ==
        IF i = 0 THEN Size
        ELSE IF i = n THEN 0
        ELSE left[i-1] - Min({left[i-1], TpFractions[i]})
  IN  left

\* Units that leave the position when the price reaches its n levels in turn.
PaperCloses(n) == [i \in 1..n |-> Remaining(n)[i-1] - Remaining(n)[i]]

-----------------------------------------------------------------------------
(* Decision Agent: the nearest structural level beyond 3R and beyond 4R *)

Snap(structural, r, multiple) ==
  LET beyond == {g \in structural : g > multiple * r}
  IN  IF beyond = {} THEN multiple * r ELSE Min(beyond)

\* Defect: the first level pays the risk once.
SelectTakeProfitsLow(structural, r) ==
  <<r, Snap(structural, r, 3), Snap(structural, r, 4)>>

SelectTakeProfits(structural, r) ==
  <<MinRR * r, Snap(structural, r, 3), Snap(structural, r, 4)>>

-----------------------------------------------------------------------------
(* Live: lifecycle_contract.py and executor_agent/agent.py *)

ContractLevels(raw, r, target) ==
  IF target > 0
    THEN <<target * r, (target + 1) * r, (target + 2) * r>>
    ELSE Picked(raw, {i \in DOMAIN raw : raw[i] > 0})

\* dict.fromkeys: the first occurrence of each level, in order.
Distinct(s) == Picked(s, {i \in DOMAIN s : \A j \in 1..i-1 : s[j] # s[i]})

LiveLevels(raw, r, target, percent) ==
  LET wanted == IF percent > 0 THEN [raw EXCEPT ![1] = percent] ELSE raw
      base   == ContractLevels(wanted, r, target)
      all    == Distinct(base \o <<2 * r, 3 * r, 4 * r>>)
  IN  IF Len(base) < MaxLevels THEN SubSeq(all, 1, MaxLevels) ELSE base

ValidProtection(levels) ==
  /\ Len(levels) = MaxLevels
  /\ 0 < levels[1] /\ levels[1] < levels[2] /\ levels[2] < levels[3]

LiveLadder(raw, r, target, percent) ==
  LET levels == LiveLevels(raw, r, target, percent)
  IN  IF ValidProtection(levels) THEN levels ELSE <<>>

\* Initial-size fractions; a shortened ladder still closes everything.
TakeProfitQuantities(n) ==
  [i \in 1..n |-> IF i < n THEN TpFractions[i]
                  ELSE Size - SumOf(TpFractions, n - 1)]

-----------------------------------------------------------------------------
(* The entry. *)

\* What the stop is away from the entry, live and on paper.
LiveRisk == IF stop > 0 THEN stop ELSE risk
PaperRisk == IF stop > 0 THEN stop ELSE risk - drift

\* Levels of the plan, seen from the paper entry.
FromPaperEntry(levels) == [i \in DOMAIN levels |-> levels[i] + drift]

Init ==
  /\ risk \in Risks /\ stop \in Stops /\ drift \in Drifts
  /\ rr \in RiskRewards /\ pct \in Percents
  /\ stage = "proposed" /\ source = "decision"
  /\ planned = <<>> /\ paper = <<>> /\ live = <<>>

\* The Decision Agent builds an entry plan from the structural levels it read.
BuildEntryPlan(structural) ==
  /\ stage = "proposed"
  /\ stage' = "planned"
  /\ source' = "decision"
  /\ planned' = SelectTakeProfits(structural, risk)
  /\ UNCHANGED <<settings, paper, live>>

\* Without the agents a scanner signal carries the levels itself, in any order; the
\* builder of signals makes three of them (signals/builder.py).
ScannerSignal(raw) ==
  /\ stage = "proposed"
  /\ stage' = "planned"
  /\ source' = "scanner"
  /\ planned' = raw
  /\ UNCHANGED <<settings, paper, live>>

\* The same plan opened on both sides; scanner signals only reach the paper engine,
\* which ignores an entry beyond its stop.
OpenBoth ==
  /\ stage = "planned"
  /\ stage' = "opened"
  /\ paper' = IF PaperRisk > 0
                THEN PaperLadder(FromPaperEntry(planned), PaperRisk, rr, pct) ELSE <<>>
  /\ live' = IF source = "decision" THEN LiveLadder(planned, LiveRisk, rr, pct) ELSE <<>>
  /\ UNCHANGED <<settings, source, planned>>

Next ==
  \/ \E S \in SUBSET Levels : BuildEntryPlan(S)
  \/ \E raw \in UNION {[1..n -> Levels] : n \in 0..MaxLevels} : ScannerSignal(raw)
  \/ OpenBoth

Spec == Init /\ [][Next]_vars

-----------------------------------------------------------------------------
(* Properties *)

TypeOK ==
  /\ risk \in Risks /\ stop \in Stops /\ drift \in Drifts
  /\ rr \in RiskRewards /\ pct \in Percents
  /\ stage \in {"proposed", "planned", "opened"}
  /\ source \in {"decision", "scanner"}
  /\ \A ladder \in {planned, paper, live} :
       ladder \in Seq(Int) /\ Len(ladder) \in 0..MaxLevels

\* Whatever a signal names (levels below the entry, repeated, unsorted, none at
\* all), a paper position that is not ignored opens with one to three levels, each
\* on the profit side and farther than the one before, so that no partial close can
\* lock a loss and the ladder is taken in order.
PaperLadderIsOrdered ==
  stage = "opened" /\ PaperRisk > 0 =>
    /\ Len(paper) \in 1..MaxLevels
    /\ Increasing(paper)
    /\ paper[1] > 0

\* Without a configured risk-reward the first level pays at least MinRR times
\* the risk of the position as it was entered, and no level is invented while the
\* signal still names one beyond.
PaperFirstLevelPaysMinRR ==
  stage = "opened" /\ PaperRisk > 0 /\ rr = 0 =>
    /\ paper[1] >= MinRR * PaperRisk
    /\ \A g \in ToSet(FromPaperEntry(planned)) :
         pct = 0 /\ g >= MinRR * PaperRisk /\ g < paper[Len(paper)] => g \in ToSet(paper)

\* Live orders and paper closes split the position alike: order i of the live
\* ladder has the size the paper engine closes at level i, and nothing is left.
QuantitiesAgree ==
  stage = "opened" /\ PaperRisk > 0 =>
    /\ TakeProfitQuantities(Len(paper)) = PaperCloses(Len(paper))
    /\ SumOf(PaperCloses(Len(paper)), Len(paper)) = Size

\* Both sides measure from the same entry, or take the plan's levels with a stop
\* that is no wider than the plan's and an entry that is no worse.
SameMeasure == IF rr > 0 THEN drift = 0 ELSE stop <= risk /\ drift >= 0

\* A plan of the Decision Agent that the live executor accepts has the same prices
\* on paper, unless a setting makes the paper engine measure its ladder anew: a
\* take_profit_percent, a stop_loss_percent wider than the stop of the plan (paper
\* lifts its first level to MinRR times the new stop, live keeps the plan's), or a
\* configured risk-reward with another entry.
AcceptedLadderIsShared ==
  stage = "opened" /\ live # <<>> /\ PaperRisk > 0 /\ pct = 0 /\ SameMeasure =>
    paper = FromPaperEntry(live)

\* lifecycle_contract.py:3-5: "the deterministic TP geometry and quantities that
\* both the paper engine and live adapters must use": the plan of the Decision
\* Agent that opens on paper opens live with the same ladder.
GeometryIsShared ==
  stage = "opened" /\ source = "decision" => live = paper

=============================================================================
