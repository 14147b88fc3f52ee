---------------------------- MODULE TradeRecording ----------------------------
(***************************************************************************)
(* How a closed trade becomes a line of the trade log, a message in the    *)
(* chat and a record of the learning journal.                              *)
(*                                                                         *)
(* The runtime is one process.  A cycle saves the paper state, appends the *)
(* events, asks Bitunix for the closed positions, announces the new ones,  *)
(* and runs the recorder over the paper log and over the Bitunix rows.     *)
(* Each of these steps leaves its result in a file of its own, so that a   *)
(* stop of the process between two of them separates what one file says    *)
(* from what the next one knows.                                           *)
(***************************************************************************)
EXTENDS Integers, FiniteSets

CONSTANTS
  Paper,      \* trades of the paper engine
  Live,       \* full closes on the exchange
  MaxFaults   \* bound: crashes, failed recordings and lost answers

ASSUME TradesAssumption == Paper \intersect Live = {}
ASSUME FaultsAssumption == MaxFaults \in Nat

VARIABLES
  closed,     \* paper trades the saved state no longer holds as open
  torn,       \* the state file was cut short by a stop within its write
  logged,     \* paper trades with a closed event in logs/paper_trades.jsonl
  cut,        \* those whose event was still to be appended at a stop
  history,    \* full closes Bitunix reports
  journal,    \* records of each trade in data/learning_journal.jsonl
  paperMarks, \* data/learning_recorder_checkpoint.json; a file that is missing
  liveMarks,  \* or does not parse counts as empty; the same with -live-
  started,    \* the checkpoint of the close notices is there
  seen,       \* what it holds
  baseline,   \* what it was started with
  messages,   \* notices of each close that reached the chat
  step,       \* where the cycle is
  batch,      \* events, rows or closes the present loop has left
  known,      \* the identifiers that loop holds in memory
  rows,       \* closed positions read in this cycle
  faults

engine == <<closed, torn, logged, cut>>
marks == <<paperMarks, liveMarks>>
notices == <<started, seen, baseline>>
files == <<engine, history, journal, marks, notices, messages>>
vars == <<files, step, batch, known, rows, faults>>

Trades == Paper \union Live
Steps == {"cycle", "append", "notice", "send", "paper", "recordPaper", "live", "recordLive"}

Learned == {t \in Trades : journal[t] > 0}

TypeOK ==
  /\ closed \in SUBSET Paper /\ logged \in SUBSET Paper /\ cut \in SUBSET Paper
  /\ history \in SUBSET Live /\ rows \in SUBSET Live /\ baseline \in SUBSET Live
  /\ torn \in BOOLEAN
  /\ journal \in [Trades -> Nat] /\ messages \in [Live -> Nat]
  /\ paperMarks \in SUBSET Paper /\ liveMarks \in SUBSET Trades
  /\ started \in BOOLEAN /\ seen \in SUBSET Live
  /\ step \in Steps
  /\ batch \in SUBSET Trades /\ known \in SUBSET Trades
  /\ faults \in 0..MaxFaults

Init ==
  /\ closed = {} /\ torn = FALSE /\ logged = {} /\ cut = {} /\ history \in SUBSET Live
  /\ journal = [t \in Trades |-> 0] /\ messages = [t \in Live |-> 0]
  /\ paperMarks = {} /\ liveMarks = {}
  /\ started = FALSE /\ seen = {} /\ baseline = {}
  /\ step = "cycle" /\ batch = {} /\ known = {} /\ rows = {} /\ faults = 0

-----------------------------------------------------------------------------
(* The paper engine: save the state, then append the events one by one.    *)

\* A state file that was cut short raises in every later cycle.
ProcessSignals(trades) ==
  /\ step = "cycle" /\ ~torn
  /\ trades \subseteq Paper \ closed
  /\ closed' = closed \union trades
  /\ batch' = trades
  /\ step' = "append"
  /\ UNCHANGED <<torn, logged, cut, history, journal, marks, notices, messages,
                 known, rows, faults>>

AppendTradeEvent(t) ==
  /\ step = "append" /\ t \in batch
  /\ logged' = logged \union {t}
  /\ batch' = batch \ {t}
  /\ UNCHANGED <<closed, torn, cut, history, journal, marks, notices, messages,
                 step, known, rows, faults>>

-----------------------------------------------------------------------------
(* Bitunix: full closes, and the notices about them.                       *)

CloseOnExchange(t) ==
  /\ t \notin history
  /\ history' = history \union {t}
  /\ UNCHANGED <<engine, journal, marks, notices, messages, step, batch, known,
                 rows, faults>>

\* Defect: the cycle goes on while events are still to be appended.
LoadDetailsEarly(answered) ==
  /\ step = "append"
  /\ rows' = IF answered THEN history ELSE {}
  /\ step' = "notice"
  /\ UNCHANGED <<files, batch, known, faults>>

\* An endpoint that fails is a warning and an empty list; any other error
\* leaves out the notices as well.
LoadDetails(answered) ==
  /\ step = "append" /\ batch = {}
  /\ rows' = IF answered THEN history ELSE {}
  /\ step' \in IF answered THEN {"notice"} ELSE {"notice", "paper"}
  /\ UNCHANGED <<files, batch, known, faults>>

\* The first run takes the closes it finds as old ones and announces none.
StartBaseline ==
  /\ step = "notice" /\ ~started
  /\ started' = TRUE /\ seen' = rows /\ baseline' = rows
  /\ step' = "paper"
  /\ UNCHANGED <<engine, history, journal, marks, messages, batch, known, rows,
                 faults>>

StartNotices ==
  /\ step = "notice" /\ started
  /\ known' = seen /\ batch' = rows \ seen
  /\ step' = "send"
  /\ UNCHANGED <<files, rows, faults>>

SendConfirmed(t) ==
  /\ step = "send" /\ t \in batch
  /\ messages' = [messages EXCEPT ![t] = @ + 1]
  /\ known' = known \union {t}
  /\ batch' = batch \ {t}
  /\ UNCHANGED <<engine, history, journal, marks, notices, step, rows, faults>>

\* Defect: the result of the request is ignored.
SendAssumed(t, arrives) ==
  /\ step = "send" /\ t \in batch
  /\ IF arrives
       THEN /\ faults < MaxFaults /\ faults' = faults + 1
            /\ messages' = [messages EXCEPT ![t] = @ + 1]
       ELSE UNCHANGED <<faults, messages>>
  /\ known' = known \union {t}
  /\ batch' = batch \ {t}
  /\ UNCHANGED <<engine, history, journal, marks, notices, step, rows>>

\* The request times out: before Telegram took the message, or after.
SendUnanswered(t, arrives) ==
  /\ step = "send" /\ t \in batch
  /\ IF arrives
       THEN /\ faults < MaxFaults /\ faults' = faults + 1
            /\ messages' = [messages EXCEPT ![t] = @ + 1]
       ELSE UNCHANGED <<faults, messages>>
  /\ batch' = batch \ {t}
  /\ UNCHANGED <<engine, history, journal, marks, notices, step, known, rows>>

\* Defect: the checkpoint is not written after the loop.
SaveSeenNever ==
  /\ step = "send" /\ batch = {}
  /\ step' = "paper"
  /\ UNCHANGED <<files, batch, known, rows, faults>>

\* Written beside the file and moved over it: no stop can cut it short.
SaveSeen ==
  /\ step = "send" /\ batch = {}
  /\ seen' = known
  /\ step' = "paper"
  /\ UNCHANGED <<engine, history, journal, marks, started, baseline, messages,
                 batch, known, rows, faults>>

-----------------------------------------------------------------------------
(* The recorder: once over the paper log, once over the Bitunix rows.      *)

\* Defect: without a checkpoint the log is taken as already learned.
ProcessNewClosuresFromNow ==
  /\ step = "paper"
  /\ known' = IF paperMarks = {} THEN logged ELSE paperMarks
  /\ batch' = logged \ known'
  /\ step' = "recordPaper"
  /\ UNCHANGED <<files, rows, faults>>

ProcessNewClosures ==
  /\ step = "paper"
  /\ known' = paperMarks
  /\ batch' = logged \ known'
  /\ step' = "recordPaper"
  /\ UNCHANGED <<files, rows, faults>>

\* Defect: the live recorder trusts its checkpoint alone, as the paper one does.
ProcessBitunixByCheckpoint ==
  /\ step = "live"
  /\ IF rows = {}
       THEN step' = "cycle" /\ UNCHANGED <<known, batch>>
       ELSE /\ known' = liveMarks
            /\ batch' = rows \ known'
            /\ step' = "recordLive"
  /\ UNCHANGED <<files, rows, faults>>

\* Defect: closes that were announced are not learned from.
ProcessBitunixUnseen ==
  /\ step = "live"
  /\ IF rows = {}
       THEN step' = "cycle" /\ UNCHANGED <<known, batch>>
       ELSE /\ known' = liveMarks \union Learned \union seen
            /\ batch' = rows \ known'
            /\ step' = "recordLive"
  /\ UNCHANGED <<files, rows, faults>>

\* The live recorder also takes the journal itself as a checkpoint.
ProcessBitunixClosedPositions ==
  /\ step = "live"
  /\ IF rows = {}
       THEN step' = "cycle" /\ UNCHANGED <<known, batch>>
       ELSE /\ known' = liveMarks \union Learned
            /\ batch' = rows \ known'
            /\ step' = "recordLive"
  /\ UNCHANGED <<files, rows, faults>>

RecordTrade(t) ==
  /\ step \in {"recordPaper", "recordLive"} /\ t \in batch
  /\ journal' = [journal EXCEPT ![t] = @ + 1]
  /\ known' = known \union {t}
  /\ batch' = batch \ {t}
  /\ UNCHANGED <<engine, history, marks, notices, messages, step, rows, faults>>

\* Defect: the checkpoint of the paper recorder is not saved.
SavePaperMarksNever ==
  /\ step = "recordPaper" /\ batch = {}
  /\ step' = "live"
  /\ UNCHANGED <<files, batch, known, rows, faults>>

SavePaperMarks ==
  /\ step = "recordPaper" /\ batch = {}
  /\ paperMarks' = known
  /\ step' = "live"
  /\ UNCHANGED <<engine, history, journal, liveMarks, notices, messages, batch,
                 known, rows, faults>>

\* Defect: both recorders save to the same checkpoint file.
SaveLiveMarksShared ==
  /\ step = "recordLive" /\ batch = {}
  /\ paperMarks' = known
  /\ step' = "cycle"
  /\ UNCHANGED <<engine, history, journal, liveMarks, notices, messages, batch,
                 known, rows, faults>>

\* Known holds the paper trades of the journal too, and they are saved with it.
SaveLiveMarks ==
  /\ step = "recordLive" /\ batch = {}
  /\ liveMarks' = known
  /\ step' = "cycle"
  /\ UNCHANGED <<engine, history, journal, paperMarks, notices, messages, batch,
                 known, rows, faults>>

\* Any exception of a recorder is caught around it: its checkpoint is not saved.
RecorderFails ==
  /\ step \in {"recordPaper", "recordLive"}
  /\ faults < MaxFaults /\ faults' = faults + 1
  /\ step' = IF step = "recordPaper" THEN "live" ELSE "cycle"
  /\ batch' = {}
  /\ UNCHANGED <<files, known, rows>>

-----------------------------------------------------------------------------
(* A stop of the process.  It starts again with the next cycle.            *)

Restart ==
  /\ faults < MaxFaults /\ faults' = faults + 1
  /\ step' = "cycle" /\ batch' = {} /\ known' = {} /\ rows' = {}

Crash ==
  /\ step # "cycle"
  /\ Restart
  /\ cut' = IF step = "append" THEN cut \union batch ELSE cut
  /\ UNCHANGED <<closed, torn, logged, history, journal, marks, notices, messages>>

\* Three files are overwritten in place: a stop within the write empties them.
CrashInWrite ==
  /\ \/ /\ step = "cycle" /\ ~torn
        /\ torn' = TRUE /\ UNCHANGED <<marks>>
     \/ /\ step = "recordPaper" /\ batch = {}
        /\ paperMarks' = {} /\ UNCHANGED <<torn, liveMarks>>
     \/ /\ step = "recordLive" /\ batch = {}
        /\ liveMarks' = {} /\ UNCHANGED <<torn, paperMarks>>
  /\ Restart
  /\ UNCHANGED <<closed, logged, cut, history, journal, notices, messages>>

-----------------------------------------------------------------------------
Cycle ==
  \/ \E trades \in SUBSET Paper : ProcessSignals(trades)
  \/ \E t \in Paper : AppendTradeEvent(t)
  \/ \E answered \in BOOLEAN : LoadDetails(answered)
  \/ StartBaseline
  \/ StartNotices
  \/ \E t \in Live : SendConfirmed(t)
  \/ \E t \in Live, arrives \in BOOLEAN : SendUnanswered(t, arrives)
  \/ SaveSeen
  \/ ProcessNewClosures
  \/ ProcessBitunixClosedPositions
  \/ \E t \in Trades : RecordTrade(t)
  \/ SavePaperMarks
  \/ SaveLiveMarks

Next ==
  \/ Cycle
  \/ \E t \in Live : CloseOnExchange(t)
  \/ RecorderFails
  \/ Crash
  \/ CrashInWrite

Spec == Init /\ [][Next]_vars

\* The loop of main goes on as long as it runs.  The exchange and Telegram
\* may fail, but not for ever.
Fairness ==
  /\ WF_vars(Cycle)
  /\ SF_vars(LoadDetails(TRUE))
  /\ \A t \in Live : SF_vars(SendConfirmed(t))

FairSpec == Spec /\ Fairness

-----------------------------------------------------------------------------
(* Safety.                                                                 *)

\* What a checkpoint names was done: the trade is in the journal, the close
\* was announced or was there when the notices began.  A crash between a
\* step and its checkpoint may repeat the step, and never skips it.
CheckpointsClaimOnlyDone ==
  /\ paperMarks \union liveMarks \subseteq Learned
  /\ \A t \in seen \ baseline : messages[t] > 0

\* A live close enters the journal once, whatever crash or lost checkpoint:
\* the live recorder reads the journal before it writes to it.
LiveLearnedOnce == \A t \in Live : journal[t] <= 1

\* The paper recorder trusts its checkpoint alone: each fault may repeat a
\* trade once, and nothing else does.
PaperLearnedOncePerFault == \A t \in Paper : journal[t] <= 1 + faults

\* A close is announced again only after a crash or an answer that was lost.
AnnouncedOncePerFault == \A t \in Live : messages[t] <= 1 + faults

\* The closes the log misses are the ones the process stopped at, between the
\* save of the state and the append of the event, and the ones it is about to
\* append.  No other fault loses one, and none that was lost is logged later.
LogMissesOnlyCrashed ==
  closed \ logged = cut \union (IF step = "append" THEN batch ELSE {})

-----------------------------------------------------------------------------
(* Liveness.  A state file cut short stops every later cycle.              *)

\* A closed event in the log is learned from, whatever faults come between.
LoggedIsLearned == \A t \in Paper : t \in logged ~> (t \in Learned \/ torn)

\* A close the exchange reports is learned from.
CloseIsLearned == \A t \in Live : t \in history ~> (t \in Learned \/ torn)

\* A close that is new to the checkpoint of the notices is announced,
\* however often the request fails.
CloseIsAnnounced ==
  \A t \in Live : (started /\ t \in history \ seen) ~> (messages[t] > 0 \/ torn)
=============================================================================
