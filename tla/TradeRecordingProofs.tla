------------------------- MODULE TradeRecordingProofs -------------------------
(***************************************************************************)
(* Proofs about TradeRecording: for any set of trades and any number of    *)
(* faults.  The invariant says of each file what it says of the copy a     *)
(* loop holds in memory: a crash exchanges the copy for the file, and is   *)
(* paid for by a fault.                                                    *)
(***************************************************************************)
EXTENDS TradeRecording, TLAPS

\* What the notices and the paper recorder take as done at this point.
Told == IF step = "send" THEN known ELSE seen
Kept == IF step = "recordPaper" THEN known ELSE paperMarks

\* What the present loop has left is of its kind, and not done yet.
LoopOK ==
  /\ step = "append" => batch \in SUBSET (closed \ (logged \union cut))
  /\ step = "send" => /\ started
                      /\ batch \in SUBSET (Live \ known) /\ known \in SUBSET Live
                      /\ \A t \in known \ baseline : messages[t] > 0
  /\ step = "recordPaper" => /\ batch \in SUBSET (Paper \ known) /\ known \in SUBSET Paper
                             /\ \A t \in known : journal[t] > 0
  /\ step = "recordLive" => /\ batch \in SUBSET Live
                            /\ \A t \in known : journal[t] > 0
                            /\ \A t \in batch : journal[t] = 0

NoBaselineYet == started \/ seen = {}

OnlyClosedLogged == logged \subseteq closed

\* Each fault may repeat what the checkpoint in force does not name.
AnnouncedBound == \A t \in Live : messages[t] <= faults + (IF t \in Told THEN 1 ELSE 0)
LearnedBound == \A t \in Paper : journal[t] <= faults + (IF t \in Kept THEN 1 ELSE 0)

Inv ==
  /\ TypeOK /\ LoopOK /\ NoBaselineYet /\ OnlyClosedLogged
  /\ CheckpointsClaimOnlyDone /\ LiveLearnedOnce
  /\ AnnouncedBound /\ LearnedBound
  /\ LogMissesOnlyCrashed

-----------------------------------------------------------------------------
(* The invariant is inductive.                                             *)

\* No trade is recorded and no checkpoint claims anything at the start.
LEMMA InitInv == Init => Inv
<1> SUFFICES ASSUME Init PROVE Inv
  OBVIOUS
<1>1. TypeOK
  <2>1. faults \in 0..MaxFaults
    BY FaultsAssumption DEF Init
  <2>2. /\ journal \in [Trades -> Nat] /\ messages \in [Live -> Nat]
        /\ history \in SUBSET Live
    BY DEF Init
  <2>3. step \in Steps /\ torn \in BOOLEAN /\ started \in BOOLEAN
    BY DEF Init, Steps
  <2>4. /\ closed = {} /\ logged = {} /\ cut = {} /\ rows = {} /\ baseline = {} /\ paperMarks = {}
        /\ liveMarks = {} /\ seen = {} /\ batch = {} /\ known = {}
    BY DEF Init
  <2> QED BY <2>1, <2>2, <2>3, <2>4 DEF TypeOK
<1>2. LoopOK /\ NoBaselineYet
  BY DEF Init, LoopOK, NoBaselineYet
<1>3. CheckpointsClaimOnlyDone
  BY DEF Init, CheckpointsClaimOnlyDone
<1>4. LiveLearnedOnce /\ AnnouncedBound /\ LearnedBound
  BY DEF Init, Trades, LiveLearnedOnce, AnnouncedBound, LearnedBound
<1>5. LogMissesOnlyCrashed
  BY DEF Init, LogMissesOnlyCrashed
<1>6. OnlyClosedLogged
  BY DEF Init, OnlyClosedLogged
<1> QED
  BY <1>1, <1>2, <1>3, <1>4, <1>5, <1>6 DEF Inv

\* Each step of the runtime, of the exchange and each fault keeps the invariant.
LEMMA NextInv == Inv /\ [Next]_vars => Inv'
<1> SUFFICES ASSUME Inv, [Next]_vars PROVE Inv'
  OBVIOUS
<1> USE TradesAssumption, FaultsAssumption
    DEF Inv, TypeOK, LoopOK, NoBaselineYet, OnlyClosedLogged, CheckpointsClaimOnlyDone, LiveLearnedOnce,
        AnnouncedBound, LearnedBound, LogMissesOnlyCrashed, Told, Kept, Steps, Trades, Learned,
        marks, notices, engine, files
<1>1. ASSUME NEW trades \in SUBSET Paper, ProcessSignals(trades) PROVE Inv'
  BY <1>1, SMTT(30) DEF ProcessSignals
<1>2. ASSUME NEW t \in Paper, AppendTradeEvent(t) PROVE Inv'
  BY <1>2, SMTT(30) DEF AppendTradeEvent
<1>3. ASSUME NEW answered \in BOOLEAN, LoadDetails(answered) PROVE Inv'
  BY <1>3, SMTT(30) DEF LoadDetails
<1>4. CASE StartBaseline
  BY <1>4, SMTT(30) DEF StartBaseline
<1>5. CASE StartNotices
  BY <1>5, SMTT(30) DEF StartNotices
<1>6. ASSUME NEW t \in Live, SendConfirmed(t) PROVE Inv'
  BY <1>6, SMTT(30) DEF SendConfirmed
<1>7. ASSUME NEW t \in Live, NEW arrives \in BOOLEAN, SendUnanswered(t, arrives) PROVE Inv'
  BY <1>7, SMTT(30) DEF SendUnanswered
<1>8. CASE SaveSeen
  <2>1. TypeOK' /\ LoopOK' /\ NoBaselineYet'
    <3>1. seen' \in SUBSET Live /\ step' = "paper"
      BY <1>8 DEF SaveSeen
    <3>2. TypeOK'
      BY <1>8, <3>1 DEF SaveSeen
    <3>3. started
      BY <1>8 DEF SaveSeen
    <3> QED BY <1>8, <3>1, <3>2, <3>3 DEF SaveSeen
  <2>2. CheckpointsClaimOnlyDone' /\ LiveLearnedOnce'
    BY <1>8 DEF SaveSeen
  <2>3. Told' = Told /\ Kept' = Kept
    BY <1>8 DEF SaveSeen
  <2>4. AnnouncedBound' /\ LearnedBound'
    BY <1>8, <2>3 DEF SaveSeen
  <2>5. LogMissesOnlyCrashed' /\ OnlyClosedLogged'
    BY <1>8 DEF SaveSeen
  <2> QED BY <2>1, <2>2, <2>4, <2>5
<1>9. CASE ProcessNewClosures
  BY <1>9, SMTT(30) DEF ProcessNewClosures
<1>10. CASE ProcessBitunixClosedPositions
  BY <1>10, SMTT(30) DEF ProcessBitunixClosedPositions
<1>11. ASSUME NEW t \in Trades, RecordTrade(t) PROVE Inv'
  BY <1>11, SMTT(30) DEF RecordTrade
<1>12. CASE SavePaperMarks
  BY <1>12, SMTT(30) DEF SavePaperMarks
<1>13. CASE SaveLiveMarks
  BY <1>13, SMTT(30) DEF SaveLiveMarks
<1>14. ASSUME NEW t \in Live, CloseOnExchange(t) PROVE Inv'
  BY <1>14, SMTT(30) DEF CloseOnExchange
<1>15. CASE RecorderFails
  BY <1>15, SMTT(30) DEF RecorderFails
<1>16. CASE Crash
  BY <1>16, SMTT(30) DEF Crash, Restart
<1>17. CASE CrashInWrite
  <2>1. TypeOK' /\ LoopOK' /\ NoBaselineYet'
    <3>1. torn' \in BOOLEAN /\ paperMarks' \in SUBSET Paper /\ liveMarks' \in SUBSET Trades
      BY <1>17 DEF CrashInWrite
    <3>2. faults' \in 0..MaxFaults /\ step' = "cycle" /\ batch' = {} /\ known' = {} /\ rows' = {}
      BY <1>17 DEF CrashInWrite, Restart
    <3> QED BY <1>17, <3>1, <3>2 DEF CrashInWrite
  <2>2. CheckpointsClaimOnlyDone' /\ LiveLearnedOnce'
    BY <1>17 DEF CrashInWrite, Restart
  <2>3. faults' = faults + 1 /\ faults \in Nat /\ UNCHANGED <<journal, messages>>
    BY <1>17 DEF CrashInWrite, Restart
  <2>4. AnnouncedBound' /\ LearnedBound'
    BY <2>3
  <2>5. LogMissesOnlyCrashed' /\ OnlyClosedLogged'
    BY <1>17 DEF CrashInWrite, Restart
  <2> QED BY <2>1, <2>2, <2>4, <2>5
<1>18. CASE UNCHANGED vars
  BY <1>18, SMTT(30) DEF vars
<1> QED
  BY <1>1, <1>2, <1>3, <1>4, <1>5, <1>6, <1>7, <1>8, <1>9, <1>10, <1>11, <1>12, <1>13,
     <1>14, <1>15, <1>16, <1>17, <1>18
  DEF Next, Cycle

LEMMA Invariance == Spec => []Inv
<1>1. QED BY InitInv, NextInv, PTL DEF Spec

-----------------------------------------------------------------------------
(* Theorems.                                                               *)

\* Every variable of the recording keeps its type.
THEOREM RecordingTypes == Spec => []TypeOK
<1>1. Inv => TypeOK
  BY DEF Inv
<1>2. QED BY Invariance, <1>1, PTL

\* No crash makes a checkpoint claim a trade that was not learned from or a
\* close that was not announced.
THEOREM NothingIsSkipped == Spec => []CheckpointsClaimOnlyDone
<1>1. Inv => CheckpointsClaimOnlyDone
  BY DEF Inv
<1>2. QED BY Invariance, <1>1, PTL

\* The live recorder records a close once, whatever is lost of its checkpoint.
THEOREM LiveClosesLearnedOnce == Spec => []LiveLearnedOnce
<1>1. Inv => LiveLearnedOnce
  BY DEF Inv
<1>2. QED BY Invariance, <1>1, PTL

\* Without the journal to read, each fault may repeat a trade once.
THEOREM PaperClosesLearnedOncePerFault == Spec => []PaperLearnedOncePerFault
<1>1. Inv => PaperLearnedOncePerFault
  BY DEF Inv, LearnedBound, PaperLearnedOncePerFault, TypeOK, Trades
<1>2. QED BY Invariance, <1>1, PTL

\* The notices repeat a close only for a crash or a lost answer.
THEOREM ClosesAnnouncedOncePerFault == Spec => []AnnouncedOncePerFault
<1>1. Inv => AnnouncedOncePerFault
  BY DEF Inv, AnnouncedBound, AnnouncedOncePerFault, TypeOK
<1>2. QED BY Invariance, <1>1, PTL

\* The log holds every close of the saved state but the ones whose append was
\* cut off by a stop of the process: those of earlier stops, after whatever
\* other faults, are all that is missing.
THEOREM LogIsComplete == Spec => []LogMissesOnlyCrashed
<1>1. Inv => LogMissesOnlyCrashed
  BY DEF Inv
<1>2. QED BY Invariance, <1>1, PTL
=============================================================================
