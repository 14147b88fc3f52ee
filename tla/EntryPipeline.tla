---------------------------- MODULE EntryPipeline -----------------------------
(***************************************************************************)
(* From the rows of a market scan to the entries of a cycle.               *)
(*                                                                         *)
(* A cycle of run_realtime.py turns the long ranking, and the shorts that  *)
(* qualified in several cycles running, into candidates; the agents look   *)
(* at them best first, within the caps of the pipeline, and what they      *)
(* decide is sent to the exchange at once (live) or handed to the paper    *)
(* engine at the end of the cycle (paper).  While the agents work, a       *)
(* progress file shows which candidates are being processed.               *)
(*                                                                         *)
(* The two candidate lists stay as they were sorted, with how far the      *)
(* agents have come in each.  Of the records of the payload, those still   *)
(* being processed are counted by symbol, which is how the code finds them;*)
(* the others are a set.                                                   *)
(*                                                                         *)
(* A cycle may end anywhere, by an exception or with the process.  In live *)
(* mode the exchange moves between any two steps.                          *)
(***************************************************************************)
EXTENDS Integers, FiniteSets, Sequences, SequencesExt, FiniteSetsExt

CONSTANTS
  Symbols,
  Shapes,         \* what the scanner may say of a symbol
  Modes,          \* "paper", "live"
  Required,       \* short_confirmation_cycles
  MaxEntry,       \* max_entry_symbols
  MaxSoft,        \* max_watch_soft_entry
  MinConfidence,  \* min_scanner_confidence
  MinWatch,       \* min_watch_confidence
  MinEdge         \* minimum_direction_edge

\* A row: the rankings that list the symbol, and what the scanner says of either
\* direction, with its confidence and whether no gate failed.
Rows == [in : SUBSET {"long", "short"},
         long : {"BUY", "SELL", "WATCH", "SKIP"}, conf : Nat, clear : BOOLEAN,
         short : {"SELL", "WATCH", "SKIP"}, shortConf : Nat, shortClear : BOOLEAN,
         levels : BOOLEAN]

ASSUME SymbolsAssumption == IsFiniteSet(Symbols)
ASSUME ShapesAssumption == Shapes \subseteq Rows
ASSUME CapsAssumption == MaxEntry \in Nat /\ MaxSoft \in Nat
ASSUME RequiredAssumption == Required \in Nat \ {0}
ASSUME ThresholdsAssumption == MinConfidence \in Nat /\ MinWatch \in Nat /\ MinEdge \in Nat
ASSUME ModesAssumption == Modes \subseteq {"paper", "live"}

VARIABLES
  mode,      \* execution mode of the settings
  counters,  \* short_confirmation_state.json: cycles running a short qualified,
             \* counted up to Required
  open,      \* symbols with a position
  working,   \* entry orders that wait for their fill, by symbol
  step,      \* where the cycle is
  offered,   \* candidates of the scan
  hard,      \* directional candidates, best first
  soft,      \* WATCH candidates, best first
  atHard,    \* how many of the directional ones the agents have come to
  atSoft,    \* how many of the WATCH ones
  reserved,  \* pending_entry_symbols: no entry is sent for them
  sending,   \* executor.live: orders go to the exchange
  shown,     \* records of the payload that are being processed, by symbol
  entries,   \* its other records
  scanned,   \* candidates the agents have looked at
  watched,   \* WATCH candidates among them
  monitor,   \* positions the agents still have to look at
  decided,   \* symbols with an entry decision, for the paper engine
  exits,     \* symbols with an exit decision, for the paper engine
  file       \* "processing" or "complete": agent_pipeline.json

account == <<open, working>>
queue == <<hard, soft>>
reached == <<atHard, atSoft>>
payload == <<shown, entries>>
caps == <<scanned, watched>>
verdicts == <<decided, exits>>
vars == <<mode, counters, account, step, offered, queue, reached, reserved, sending,
          payload, caps, monitor, verdicts, file>>

Candidates == [symbol : Symbols, origin : {"long", "confirmed", "watch"},
               action : {"BUY", "SELL", "WATCH"}, conf : Nat, clear : BOOLEAN]
Records == [symbol : Symbols, soft : BOOLEAN, conf : Nat,
            status : {"skipped", "evaluated"}]

TypeOK ==
  /\ mode \in Modes /\ counters \in [Symbols -> 0..Required]
  /\ open \in SUBSET Symbols /\ working \in [Symbols -> Nat]
  /\ step \in {"idle", "scanned", "agents", "written", "exits"}
  /\ offered \in SUBSET Candidates /\ hard \in Seq(Candidates) /\ soft \in Seq(Candidates)
  /\ atHard \in 0..Len(hard) /\ atSoft \in 0..Len(soft)
  /\ reserved \in SUBSET Symbols /\ sending \in BOOLEAN
  /\ shown \in [Symbols -> Nat] /\ entries \in SUBSET Records
  /\ scanned \in 0..MaxEntry /\ watched \in 0..MaxSoft
  /\ monitor \in SUBSET Symbols
  /\ decided \in SUBSET Symbols /\ exits \in SUBSET Symbols
  /\ file \in {"processing", "complete"}

NothingShown == [s \in Symbols |-> 0]

Init ==
  /\ mode \in Modes /\ counters = [s \in Symbols |-> 0]
  /\ open = {} /\ working = [s \in Symbols |-> 0]
  /\ step = "idle" /\ offered = {}
  /\ hard = <<>> /\ soft = <<>> /\ atHard = 0 /\ atSoft = 0
  /\ reserved = {} /\ sending = FALSE /\ shown = NothingShown /\ entries = {}
  /\ scanned = 0 /\ watched = 0 /\ monitor = {}
  /\ decided = {} /\ exits = {} /\ file = "complete"

-----------------------------------------------------------------------------
(* The exchange; the paper engine between the scan and the agents.         *)

Live == mode = "live"
AccountMoves == Live \/ step = "scanned"
cycle == <<mode, counters, step, offered, queue, reached, reserved, sending, payload,
           caps, monitor, verdicts, file>>

Fill(s) ==
  /\ AccountMoves /\ working[s] > 0
  /\ open' = open \union {s} /\ working' = [working EXCEPT ![s] = @ - 1]
  /\ UNCHANGED cycle

CancelOrder(s) ==
  /\ AccountMoves /\ working[s] > 0
  /\ working' = [working EXCEPT ![s] = @ - 1]
  /\ UNCHANGED <<open, cycle>>

ClosePosition(s) ==
  /\ AccountMoves /\ s \in open
  /\ open' = open \ {s}
  /\ UNCHANGED <<working, cycle>>

-----------------------------------------------------------------------------
(* The scan and the rows that become candidates.                           *)

ListedConf(r) == IF "long" \in r.in THEN r.conf ELSE 0

\* A short that counts as one more cycle of its streak.
Qualifies(r) ==
  /\ "short" \in r.in /\ r.short = "SELL" /\ r.shortClear /\ r.levels
  /\ r.shortConf >= ListedConf(r) + MinEdge

Streaks(row) ==
  [s \in Symbols |->
     IF Qualifies(row[s]) THEN Min({Required, counters[s] + 1}) ELSE 0]

\* _to_candidate: the short half of a row speaks whenever the long half names no
\* direction, and wins a conflict of directions when it is at least as sure.
ShortSpeaks(r) ==
  \/ r.short \in {"SELL", "WATCH", "SKIP"} /\ r.long \notin {"BUY", "SELL"}
  \/ r.short = "SELL" /\ r.shortConf >= r.conf

Candidate(s, r, origin) ==
  IF ShortSpeaks(r)
  THEN [symbol |-> s, origin |-> origin, action |-> r.short, clear |-> r.shortClear,
        conf |-> IF r.shortConf > 0 THEN r.shortConf ELSE r.conf]
  ELSE [symbol |-> s, origin |-> origin, action |-> r.long, clear |-> r.clear,
        conf |-> r.conf]

\* The row of its own a confirmed short gets.
Confirmed(r) ==
  [r EXCEPT !.long = "SELL", !.short = "none", !.conf = r.shortConf, !.clear = TRUE]

\* A veto of the ACR confirmation or of an entry guard takes the direction out of the
\* long half of a row; the short half stays.
Silenced(r) == [r EXCEPT !.long = "SKIP"]
Judged(r, veto) == IF veto /\ r.long \in {"BUY", "SELL"} THEN Silenced(r) ELSE r

\* Defect: the rows of the long ranking and of the confirmed shorts are only joined.
RowsJoined(confirmed, long) == confirmed

\* prepare_paper_signals keeps the first row of a symbol; nothing does in live mode.
RowsKept(confirmed, long) == IF mode = "paper" THEN confirmed \ long ELSE confirmed

\* A scan with these rows, where the symbols of vetoes and shortVetoes lost their
\* row of the long ranking, or that of the confirmed short.  In paper mode a symbol
\* keeps one row, the long one first, and none while it is held; the WATCH rows
\* of the symbols without a row are added as the scanner wrote them.
Scan(row, vetoes, shortVetoes) ==
  LET confirmed == {s \in Symbols : Streaks(row)[s] = Required}
      held == {s \in Symbols : mode = "paper" /\ (s \in open \/ working[s] > 0)}
      long == {s \in Symbols : "long" \in row[s].in} \ held
      short == RowsKept(confirmed, long) \ held
      watch == {s \in Symbols \ (long \union short) :
                  row[s].in # {} /\ "WATCH" \in {row[s].long, row[s].short}}
      rows == {Candidate(s, Judged(row[s], s \in vetoes), "long") : s \in long}
                \union {Candidate(s, Judged(Confirmed(row[s]), s \in shortVetoes),
                                  "confirmed") : s \in short}
                \union {Candidate(s, row[s], "watch") : s \in watch}
  IN /\ step = "idle"
     /\ step' = "scanned" /\ counters' = Streaks(row)
     /\ offered' = {c \in rows : c.action \in {"BUY", "SELL", "WATCH"}}
     /\ UNCHANGED <<mode, account, queue, reached, reserved, sending, payload, caps,
                    monitor, verdicts, file>>

-----------------------------------------------------------------------------
(* The agents take the candidates, best first.                             *)

IsSoft(c) == c.action = "WATCH"
Eligible(c) == c.clear /\ c.conf >= IF IsSoft(c) THEN MinWatch ELSE MinConfidence

\* Defect: the sort is ascending.
BestLast(q) == \A i, j \in 1..Len(q) : i < j => q[i].conf <= q[j].conf

BestFirst(q) == \A i, j \in 1..Len(q) : i < j => q[i].conf >= q[j].conf
Orderings(S) == {q \in SetToSeqs(S) : BestFirst(q)}

Record(c, status) ==
  [symbol |-> c.symbol, soft |-> IsSoft(c), conf |-> c.conf, status |-> status]

\* The positions of a list whose candidates may be looked at, and the first n of them.
ReadyAt(q, taken) == {i \in 1..Len(q) : Eligible(q[i]) /\ q[i].symbol \notin taken}
FirstOf(ready, n) == {i \in ready : Cardinality({j \in ready : j < i}) < n}

OfSymbol(q, at, s) == Cardinality({i \in at : q[i].symbol = s})

\* Defect: the slots of WATCH candidates are not reduced by the directional ones.
PreviewAllSlots(h, w, taken) ==
  LET directional == FirstOf(ReadyAt(h, taken), MaxEntry)
      watching == FirstOf(ReadyAt(w, taken), MaxSoft)
  IN [s \in Symbols |-> OfSymbol(h, directional, s) + OfSymbol(w, watching, s)]

\* The candidates shown as being processed before the agents start.
Preview(h, w, taken) ==
  LET directional == FirstOf(ReadyAt(h, taken), MaxEntry)
      slots == Min({MaxSoft, MaxEntry - Cardinality(directional)})
      watching == FirstOf(ReadyAt(w, taken), slots)
  IN [s \in Symbols |-> OfSymbol(h, directional, s) + OfSymbol(w, watching, s)]

\* The account is read; when the read fails nothing is sent and nothing is watched.
Begin(h, w, readable) ==
  LET held == {s \in Symbols : s \in open \/ working[s] > 0}
  IN /\ step = "scanned" /\ (readable \/ Live)
     /\ step' = "agents" /\ hard' = h /\ soft' = w
     /\ sending' = (Live /\ readable)
     /\ reserved' = IF Live /\ readable THEN held ELSE {}
     /\ monitor' = IF readable THEN open ELSE {}
     /\ shown' = Preview(h, w, reserved')
     /\ file' = IF shown' = NothingShown THEN file ELSE "processing"
     /\ UNCHANGED <<mode, counters, account, offered, reached, entries, caps, verdicts>>

\* Defect: the cap is not looked at between two candidates.
TakesHardUncapped == atHard < Len(hard)

TakesHard == atHard < Len(hard) /\ scanned < MaxEntry
TakesSoft == ~TakesHard /\ atSoft < Len(soft) /\ scanned < MaxEntry /\ watched < MaxSoft
Taken == IF TakesHard THEN hard[atHard + 1] ELSE soft[atSoft + 1]

Take ==
  /\ step = "agents" /\ (TakesHard \/ TakesSoft)
  /\ atHard' = IF TakesHard THEN atHard + 1 ELSE atHard
  /\ atSoft' = IF TakesHard THEN atSoft ELSE atSoft + 1
  /\ UNCHANGED <<mode, counters, open, step, offered, queue, reserved, sending, monitor,
                 exits>>

PassOver ==
  /\ Take /\ ~Eligible(Taken)
  /\ UNCHANGED <<working, payload, caps, decided, file>>

SkipReserved ==
  /\ Take /\ Eligible(Taken) /\ Taken.symbol \in reserved
  /\ entries' = entries \union {Record(Taken, "skipped")}
  /\ UNCHANGED <<working, shown, caps, decided, file>>

\* The record of a candidate is one of its symbol that is being processed, or a
\* new one.
Examine(status) ==
  /\ Take /\ Eligible(Taken) /\ Taken.symbol \notin reserved
  /\ entries' = entries \union {Record(Taken, status)}
  /\ shown' = IF shown[Taken.symbol] > 0
              THEN [shown EXCEPT ![Taken.symbol] = @ - 1] ELSE shown
  /\ file' = "processing"

CandlesMissing ==
  /\ Examine("skipped")
  /\ UNCHANGED <<working, caps, decided>>

Count ==
  /\ scanned' = scanned + 1
  /\ watched' = IF IsSoft(Taken) THEN watched + 1 ELSE watched

NoEntry ==
  /\ Examine("evaluated") /\ Count
  /\ UNCHANGED <<working, decided>>

\* The executor sends what the risk agent approves; the exchange may refuse it.
Sent(approved, accepted) == sending /\ approved /\ accepted

\* The decision to enter, which the paper engine gets at the end of the cycle.
Enter(approved, accepted) ==
  /\ Examine("evaluated") /\ Count
  /\ working' = IF Sent(approved, accepted)
                THEN [working EXCEPT ![Taken.symbol] = @ + 1] ELSE working
  /\ decided' = IF Live THEN decided ELSE decided \union {Taken.symbol}

-----------------------------------------------------------------------------
(* The open positions, the final payload and the paper engine.             *)

AgentsDone == step = "agents" /\ ~TakesHard /\ ~TakesSoft

Monitor(s, exit) ==
  /\ AgentsDone /\ s \in monitor
  /\ monitor' = monitor \ {s}
  /\ exits' = IF exit /\ ~Live THEN exits \union {s} ELSE exits
  /\ UNCHANGED <<mode, counters, account, step, offered, queue, reached, reserved,
                 sending, payload, caps, decided, file>>

Publish ==
  /\ AgentsDone /\ monitor = {}
  /\ step' = "written" /\ file' = "complete"
  /\ UNCHANGED <<mode, counters, account, offered, queue, reached, reserved, sending,
                 payload, caps, monitor, verdicts>>

Forget ==
  /\ step' = "idle" /\ offered' = {}
  /\ hard' = <<>> /\ soft' = <<>> /\ atHard' = 0 /\ atSoft' = 0
  /\ reserved' = {} /\ sending' = FALSE /\ shown' = NothingShown /\ entries' = {}
  /\ scanned' = 0 /\ watched' = 0 /\ monitor' = {} /\ decided' = {} /\ exits' = {}

EndLive ==
  /\ step = "written" /\ Live /\ Forget
  /\ UNCHANGED <<mode, counters, account, file>>

\* The paper engine takes the entries of symbols it does not hold, at the market or
\* as an order of its own; it may refuse one.
RouteEntries(market, limit) ==
  /\ step = "written" /\ ~Live
  /\ market \union limit \subseteq {s \in decided \ open : working[s] = 0}
  /\ market \intersect limit = {}
  /\ open' = open \union market
  /\ working' = [s \in Symbols |-> IF s \in limit THEN 1 ELSE working[s]]
  /\ step' = "exits"
  /\ UNCHANGED <<mode, counters, offered, queue, reached, reserved, sending, payload, caps,
                 monitor, verdicts, file>>

RouteExits(closed) ==
  /\ step = "exits" /\ closed \subseteq exits
  /\ open' = open \ closed /\ Forget
  /\ UNCHANGED <<mode, counters, working, file>>

\* An exception of the agents, or the process ends.
Abandon ==
  /\ step # "idle" /\ Forget
  /\ UNCHANGED <<mode, counters, account, file>>

Next ==
  \/ \E s \in Symbols : Fill(s) \/ CancelOrder(s) \/ ClosePosition(s)
  \/ \E row \in [Symbols -> Shapes], vetoes, shortVetoes \in SUBSET Symbols :
       Scan(row, vetoes, shortVetoes)
  \/ \E h \in Orderings({c \in offered : ~IsSoft(c)}),
        w \in Orderings({c \in offered : IsSoft(c)}), readable \in BOOLEAN :
       Begin(h, w, readable)
  \/ PassOver \/ SkipReserved \/ CandlesMissing \/ NoEntry
  \/ \E approved, accepted \in BOOLEAN : Enter(approved, accepted)
  \/ \E s \in Symbols, exit \in BOOLEAN : Monitor(s, exit)
  \/ Publish \/ EndLive
  \/ \E market, limit \in SUBSET Symbols : RouteEntries(market, limit)
  \/ \E closed \in SUBSET Symbols : RouteExits(closed)
  \/ Abandon

Spec == Init /\ [][Next]_vars

-----------------------------------------------------------------------------
(* Properties.                                                             *)

\* The progress file lists candidates as being processed before any agent has seen
\* them, from a count of free slots of its own (bridge.py:405-443).  When the
\* payload is marked complete every one of them has been resolved: whatever the
\* reservations, the missing candles and the caps did in between, no reader is
\* left with a candidate that nobody is working on.
NothingLeftProcessing ==
  step = "written" => \A s \in Symbols : shown[s] = 0

\* A candidate the agents could have looked at is left out only because a cap was
\* used up, and only by candidates that are at least as sure, directional ones
\* before WATCH (bridge.py:402, 445-592): candidates without candles take no slot.
LeftOutForBetter ==
  LET leftOut == {hard[i] : i \in atHard + 1..Len(hard)}
                   \union {soft[i] : i \in atSoft + 1..Len(soft)}
  IN step = "written" =>
       \A c \in leftOut : Eligible(c) /\ c.symbol \notin reserved =>
         /\ scanned = MaxEntry \/ (IsSoft(c) /\ watched = MaxSoft)
         /\ \A r \in entries :
              r.status = "evaluated" =>
                IF r.soft = IsSoft(c) THEN r.conf >= c.conf ELSE IsSoft(c)

\* In paper mode a symbol is offered to the agents once a cycle, although it can be
\* in the long ranking, among the confirmed shorts and in the WATCH rows added at
\* the end (run_realtime.py:525, 1968): the paper engine gets one decision of it.
PaperOffersOnce ==
  mode = "paper" => \A c, d \in offered : c.symbol = d.symbol => c = d

\* "A pending entry already reserves this symbol.  Do not submit another LIMIT while
\* the exchange order remains NEW/PART_FILLED" (run_realtime.py:1862).
PendingEntryReserves ==
  \A s \in Symbols : working[s] <= 1
=============================================================================
