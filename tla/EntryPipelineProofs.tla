-------------------------- MODULE EntryPipelineProofs --------------------------
(***************************************************************************)
(* Proofs about EntryPipeline, for any rows of the scanner, any number of  *)
(* symbols and any caps and thresholds: the paper engine is offered a      *)
(* symbol once a cycle, no candidate is left as being processed, and a     *)
(* candidate is left out for a better one only.                            *)
(*                                                                         *)
(* The progress file counts its free slots before the agents start, the    *)
(* agents count what they evaluated.  The invariant joins the two: a       *)
(* symbol has no more records being processed than its candidates have     *)
(* places ahead of the agents in the two windows of the preview, and what  *)
(* was evaluated is no more than the ready candidates behind the agents.   *)
(***************************************************************************)
EXTENDS EntryPipeline, FiniteSetTheorems, FunctionTheorems, WellFoundedInduction, TLAPS

-----------------------------------------------------------------------------
(* Positions of a list.                                                    *)

\* A set of naturals that is not empty has a least element.
LEMMA HasLeast ==
  ASSUME NEW T, T \subseteq Nat, T # {}
  PROVE  \E m \in T : \A n \in T : m <= n
<1> DEFINE R == OpToRel(<, Nat)
<1>1. IsWellFoundedOn(R, Nat)
  BY NatLessThanWellFounded
<1>2. \A m, n \in Nat : m < n => <<m, n>> \in R
  BY DEF OpToRel
<1> HIDE DEF R
<1>3. PICK m \in T : \A n \in T : ~(<<n, m>> \in R)
  BY <1>1, WFMin
<1>4. ASSUME NEW n \in T PROVE m <= n
  <2>1. ~(n < m)
    BY <1>2, <1>3
  <2> QED BY <2>1
<1> QED BY <1>4

\* The smaller of two integers.
LEMMA SmallerOfTwo ==
  ASSUME NEW m \in Int, NEW n \in Int
  PROVE  Min({m, n}) \in {m, n} /\ Min({m, n}) <= m /\ Min({m, n}) <= n
<1>1. \E k \in {m, n} : \A i \in {m, n} : k <= i
  <2>1. CASE m <= n
    BY <2>1
  <2>2. CASE n <= m
    BY <2>2
  <2> QED BY <2>1, <2>2
<1> QED BY <1>1 DEF Min

\* What a function makes of a finite set is finite.
LEMMA FiniteRange ==
  ASSUME NEW S, IsFiniteSet(S), NEW f, f = [x \in S |-> f[x]]
  PROVE  IsFiniteSet({f[x] : x \in S})
<1> DEFINE T == {f[x] : x \in S}
<1>1. PICK n \in Nat : ExistsSurjection(1..n, S)
  BY FS_NatSurjection
<1>2. PICK g \in Surjection(1..n, S) : TRUE
  BY <1>1 DEF ExistsSurjection
<1>3. g \in [1..n -> S] /\ \A x \in S : \E i \in 1..n : g[i] = x
  BY <1>2 DEF Surjection
<1> DEFINE h == [i \in 1..n |-> f[g[i]]]
<1>4. h \in [1..n -> T] /\ \A t \in T : \E i \in 1..n : h[i] = t
  BY <1>3
<1>5. h \in Surjection(1..n, T)
  BY <1>4 DEF Surjection
<1> HIDE DEF h, T
<1>6. ExistsSurjection(1..n, T)
  BY <1>5 DEF ExistsSurjection
<1>7. IsFiniteSet(T)
  BY <1>6, FS_NatSurjection
<1> QED BY <1>7 DEF T

\* The positions the agents have passed, and those ahead of them.
Past(at, n) == {i \in at : i <= n}
Ahead(at, n) == {i \in at : i > n}

\* A place, as the windows of the preview and the agents count it.
Places(at) == at \subseteq Nat /\ IsFiniteSet(at)

LEMMA ReadyPlaces ==
  ASSUME NEW S, NEW q \in Seq(S), NEW taken
  PROVE  Places(ReadyAt(q, taken)) /\ ReadyAt(q, taken) \subseteq 1..Len(q)
<1>1. Len(q) \in Nat /\ ReadyAt(q, taken) \subseteq 1..Len(q)
  BY DEF ReadyAt
<1>2. IsFiniteSet(1..Len(q))
  BY <1>1, FS_Interval
<1> QED BY <1>1, <1>2, FS_Subset DEF Places

\* One step further there is one place more behind, if the step is on a place.
LEMMA PastNext ==
  ASSUME NEW at, Places(at), NEW n \in Nat
  PROVE  /\ Cardinality(Past(at, n)) \in Nat
         /\ Cardinality(Past(at, n + 1)) =
              Cardinality(Past(at, n)) + IF n + 1 \in at THEN 1 ELSE 0
<1>1. IsFiniteSet(Past(at, n)) /\ n + 1 \notin Past(at, n)
  BY FS_Subset DEF Past, Places
<1> DEFINE upTo(i) == i <= n
           upToNext(i) == i <= n + 1
<1>2. \A i \in at : upToNext(i) <=> upTo(i) \/ i = n + 1
  BY DEF Places
<1>3. upToNext(n + 1)
  OBVIOUS
<1>4. Past(at, n) = {i \in at : upTo(i)} /\ Past(at, n + 1) = {i \in at : upToNext(i)}
  BY DEF Past
<1> HIDE DEF upTo, upToNext
<1>5. CASE n + 1 \in at
  <2>1. Past(at, n + 1) = Past(at, n) \union {n + 1}
    BY <1>2, <1>5, <1>3, <1>4
  <2> QED BY <1>1, <1>5, <2>1, FS_AddElement, FS_CardinalityType
<1>6. CASE n + 1 \notin at
  <2>1. Past(at, n + 1) = Past(at, n)
    BY <1>2, <1>6, <1>4
  <2> QED BY <1>1, <1>6, <2>1, FS_CardinalityType
<1> QED BY <1>5, <1>6

\* And one place less ahead, for the symbol of the candidate at that place.
LEMMA AheadNext ==
  ASSUME NEW at, Places(at), NEW n \in Nat, NEW q, NEW s
  PROVE  /\ OfSymbol(q, Ahead(at, n), s) \in Nat
         /\ OfSymbol(q, Ahead(at, n), s) =
              OfSymbol(q, Ahead(at, n + 1), s)
                + IF n + 1 \in at /\ q[n + 1].symbol = s THEN 1 ELSE 0
<1> DEFINE A == {i \in Ahead(at, n + 1) : q[i].symbol = s}
           B == {i \in Ahead(at, n) : q[i].symbol = s}
<1>1. IsFiniteSet(A) /\ IsFiniteSet(B) /\ n + 1 \notin A
  BY FS_Subset DEF Ahead, Places
<1>2. OfSymbol(q, Ahead(at, n + 1), s) = Cardinality(A)
      /\ OfSymbol(q, Ahead(at, n), s) = Cardinality(B)
  BY DEF OfSymbol
<1>3. \A i \in at : i > n <=> i > n + 1 \/ i = n + 1
  BY DEF Places
<1>4. \A i : i \in Ahead(at, n) <=> i \in Ahead(at, n + 1) \/ (i = n + 1 /\ n + 1 \in at)
  BY <1>3 DEF Ahead
<1>5. CASE n + 1 \in at /\ q[n + 1].symbol = s
  <2>1. B = A \union {n + 1}
    BY <1>5, <1>4
  <2> HIDE DEF A, B
  <2> QED BY <1>1, <1>2, <1>5, <2>1, FS_AddElement, FS_CardinalityType
<1>6. CASE ~(n + 1 \in at /\ q[n + 1].symbol = s)
  <2>1. B = A
    BY <1>6, <1>4
  <2> HIDE DEF A, B
  <2> QED BY <1>1, <1>2, <1>6, <2>1, FS_CardinalityType
<1> QED BY <1>5, <1>6

\* The first n of the ready places are places.
LEMMA WindowPlaces ==
  ASSUME NEW ready, Places(ready), NEW n
  PROVE  Places(FirstOf(ready, n)) /\ FirstOf(ready, n) \subseteq ready
BY FS_Subset DEF Places, FirstOf

\* With n ready places behind nothing of the first n is ahead.
LEMMA WindowPassed ==
  ASSUME NEW ready, Places(ready), NEW n \in Int, NEW at \in Nat,
         Cardinality(Past(ready, at)) >= n
  PROVE  Ahead(FirstOf(ready, n), at) = {}
<1> SUFFICES ASSUME NEW i \in Ahead(FirstOf(ready, n), at) PROVE FALSE
  OBVIOUS
<1> DEFINE before == {j \in ready : j < i}
<1>1. i \in ready /\ i > at /\ Cardinality(before) < n
  BY DEF Ahead, FirstOf
<1>2. IsFiniteSet(before) /\ Past(ready, at) \subseteq before
  <2>1. \A j \in ready : j <= at => j < i
    BY <1>1 DEF Places
  <2>2. Past(ready, at) \subseteq before
    BY <2>1 DEF Past
  <2>3. before \in SUBSET ready /\ IsFiniteSet(ready)
    BY DEF Places
  <2> HIDE DEF before
  <2>4. IsFiniteSet(before)
    BY <2>3, FS_Subset
  <2> QED BY <2>2, <2>4
<1>3. Cardinality(Past(ready, at)) <= Cardinality(before)
  BY <1>2, FS_Subset
<1>4. Cardinality(Past(ready, at)) \in Nat /\ Cardinality(before) \in Nat
  BY <1>2, FS_Subset, FS_CardinalityType
<1> HIDE DEF before
<1> QED BY <1>1, <1>3, <1>4

\* The first n are all of the ready places, or n of them.
LEMMA WindowFull ==
  ASSUME NEW ready, Places(ready), NEW n \in Nat
  PROVE  FirstOf(ready, n) = ready \/ Cardinality(FirstOf(ready, n)) >= n
<1> DEFINE later == ready \ FirstOf(ready, n)
<1>1. CASE later = {}
  BY <1>1 DEF FirstOf
<1>2. CASE later # {}
  <2>1. PICK i \in later : \A j \in later : i <= j
    BY <1>2, HasLeast DEF Places
  <2> DEFINE before == {j \in ready : j < i}
  <2>2. before \subseteq FirstOf(ready, n)
    <3> SUFFICES ASSUME NEW j \in ready, j < i, j \notin FirstOf(ready, n) PROVE FALSE
      OBVIOUS
    <3>1. j \in later
      OBVIOUS
    <3> QED BY <2>1, <3>1 DEF Places
  <2>3. IsFiniteSet(before) /\ IsFiniteSet(FirstOf(ready, n))
    BY WindowPlaces, FS_Subset DEF Places
  <2>4. Cardinality(before) \in Nat /\ ~(Cardinality(before) < n)
    BY <2>3, FS_CardinalityType DEF FirstOf
  <2>5. Cardinality(before) <= Cardinality(FirstOf(ready, n))
    BY <2>2, <2>3, FS_Subset
  <2>6. Cardinality(FirstOf(ready, n)) \in Nat
    BY <2>3, FS_CardinalityType
  <2> HIDE DEF before
  <2> QED BY <2>4, <2>5, <2>6
<1> QED BY <1>1, <1>2

\* A sorted list of candidates.
LEMMA OrderingFacts ==
  ASSUME NEW S, IsFiniteSet(S), NEW q \in Orderings(S)
  PROVE  q \in Seq(S) /\ BestFirst(q) /\ \A i \in 1..Len(q) : q[i] \in S
<1>1. Cardinality(S) \in Nat
  BY FS_CardinalityType
<1>2. q \in [1..Cardinality(S) -> S] /\ BestFirst(q)
  BY DEF Orderings, SetToSeqs
<1>3. q \in Seq(S) /\ Len(q) = Cardinality(S)
  BY <1>1, <1>2
<1>4. \A i \in 1..Cardinality(S) : q[i] \in S
  BY <1>2
<1> QED BY <1>2, <1>3, <1>4

-----------------------------------------------------------------------------
(* Types.                                                                  *)

\* A candidate made from a row keeps its symbol, and its confidence is a number.
LEMMA CandidateFields ==
  ASSUME NEW s, NEW r, NEW origin
  PROVE  /\ Candidate(s, r, origin).symbol = s
         /\ r.conf \in Nat /\ r.shortConf \in Nat /\ r.clear \in BOOLEAN
            /\ r.shortClear \in BOOLEAN /\ s \in Symbols
            /\ origin \in {"long", "confirmed", "watch"}
            /\ Candidate(s, r, origin).action \in {"BUY", "SELL", "WATCH"} =>
              Candidate(s, r, origin) \in Candidates
BY DEF Candidate, Candidates

\* The candidates of a scan.
LEMMA ScanTypes ==
  ASSUME TypeOK, NEW row \in [Symbols -> Shapes], NEW vetoes, NEW shortVetoes,
         Scan(row, vetoes, shortVetoes)
  PROVE  /\ offered' \in SUBSET Candidates /\ IsFiniteSet(offered')
         /\ counters' \in [Symbols -> 0..Required]
<1> DEFINE confirmed == {s \in Symbols : Streaks(row)[s] = Required}
           held == {s \in Symbols : mode = "paper" /\ (s \in open \/ working[s] > 0)}
           long == {s \in Symbols : "long" \in row[s].in} \ held
           short == RowsKept(confirmed, long) \ held
           watch == {s \in Symbols \ (long \union short) :
                       row[s].in # {} /\ "WATCH" \in {row[s].long, row[s].short}}
           ofLong == [s \in Symbols |-> Candidate(s, Judged(row[s], s \in vetoes), "long")]
           ofShort == [s \in Symbols |-> Candidate(s, Judged(Confirmed(row[s]),
                                                   s \in shortVetoes), "confirmed")]
           ofWatch == [s \in Symbols |-> Candidate(s, row[s], "watch")]
           every(of) == {of[s] : s \in Symbols}
<1>1. \A s \in Symbols : row[s] \in Rows
  BY ShapesAssumption
<1>2. \A s \in Symbols : /\ ofLong[s].action \in {"BUY", "SELL", "WATCH"} => ofLong[s] \in Candidates
                         /\ ofShort[s].action \in {"BUY", "SELL", "WATCH"} => ofShort[s] \in Candidates
                         /\ ofWatch[s].action \in {"BUY", "SELL", "WATCH"} => ofWatch[s] \in Candidates
  <2> SUFFICES ASSUME NEW s \in Symbols
               PROVE  /\ ofLong[s].action \in {"BUY", "SELL", "WATCH"} => ofLong[s] \in Candidates
                      /\ ofShort[s].action \in {"BUY", "SELL", "WATCH"} => ofShort[s] \in Candidates
                      /\ ofWatch[s].action \in {"BUY", "SELL", "WATCH"} => ofWatch[s] \in Candidates
    OBVIOUS
  <2> DEFINE Numbers(r) == r.conf \in Nat /\ r.shortConf \in Nat /\ r.clear \in BOOLEAN
                           /\ r.shortClear \in BOOLEAN
  <2>1. Numbers(row[s])
    BY <1>1 DEF Rows
  <2>2. Numbers(Confirmed(row[s]))
    BY <1>1 DEF Rows, Confirmed
  <2>3. Numbers(Judged(row[s], s \in vetoes))
    BY <1>1, <2>1 DEF Rows, Judged, Silenced
  <2>4. Numbers(Judged(Confirmed(row[s]), s \in shortVetoes))
    BY <1>1, <2>2 DEF Rows, Judged, Silenced, Confirmed
  <2> QED BY <2>1, <2>3, <2>4, CandidateFields
<1>3. \A s \in Symbols : /\ ofLong[s] = Candidate(s, Judged(row[s], s \in vetoes), "long")
                         /\ ofShort[s] = Candidate(s, Judged(Confirmed(row[s]),
                                                   s \in shortVetoes), "confirmed")
                         /\ ofWatch[s] = Candidate(s, row[s], "watch")
  OBVIOUS
<1>4. offered' \subseteq every(ofLong) \union every(ofShort) \union every(ofWatch)
      /\ \A c \in offered' : c.action \in {"BUY", "SELL", "WATCH"}
  <2> HIDE DEF ofLong, ofShort, ofWatch, confirmed, held
  <2>1. long \subseteq Symbols /\ watch \subseteq Symbols
    OBVIOUS
  <2>2. short \subseteq Symbols
    BY DEF RowsKept, confirmed
  <2>3. offered' = {c \in {Candidate(s, Judged(row[s], s \in vetoes), "long") : s \in long}
                     \union {Candidate(s, Judged(Confirmed(row[s]), s \in shortVetoes),
                                       "confirmed") : s \in short}
                     \union {Candidate(s, row[s], "watch") : s \in watch} :
                   c.action \in {"BUY", "SELL", "WATCH"}}
    BY DEF Scan, confirmed, held
  <2> HIDE DEF long, short, watch
  <2> QED BY <1>3, <2>1, <2>2, <2>3
<1>5. /\ IsFiniteSet(every(ofLong)) /\ IsFiniteSet(every(ofShort))
      /\ IsFiniteSet(every(ofWatch))
  BY SymbolsAssumption, FiniteRange
<1> HIDE DEF every, ofLong, ofShort, ofWatch
<1>6. IsFiniteSet(every(ofLong) \union every(ofShort) \union every(ofWatch))
  BY <1>5, FS_Union
<1>7. IsFiniteSet(offered')
  BY <1>4, <1>6, FS_Subset
<1>8. offered' \in SUBSET Candidates
  BY <1>2, <1>4 DEF every
<1>9. counters' \in [Symbols -> 0..Required]
  <2>1. ASSUME NEW s \in Symbols PROVE Min({Required, counters[s] + 1}) \in 0..Required
    <3>1. counters[s] + 1 \in Nat /\ Required \in Nat
      BY RequiredAssumption DEF TypeOK
    <3> DEFINE next == counters[s] + 1
    <3>2. next \in Int /\ Required \in Int
      BY <3>1
    <3> HIDE DEF next
    <3>3. Min({Required, next}) \in {Required, next} /\ Min({Required, next}) <= Required
      BY <3>2, SmallerOfTwo
    <3> QED BY <3>1, <3>3 DEF next
  <2>2. counters' = Streaks(row)
    BY DEF Scan
  <2> QED BY <2>1, <2>2, RequiredAssumption DEF Streaks
<1> QED BY <1>7, <1>8, <1>9

\* What the agents have come to and what they counted, while they have not begun.
Fresh == atHard = 0 /\ atSoft = 0 /\ scanned = 0 /\ watched = 0 /\ entries = {}

\* The two lists are sorted and apart; WATCH candidates are taken when the
\* directional ones are through; the agents are done when the payload is written.
ListsOK ==
  /\ IsFiniteSet(offered)
  /\ BestFirst(hard) /\ \A i \in 1..Len(hard) : ~IsSoft(hard[i])
  /\ BestFirst(soft) /\ \A i \in 1..Len(soft) : IsSoft(soft[i])
  /\ atSoft > 0 => atHard = Len(hard)
  /\ step \in {"idle", "scanned"} => Fresh
  /\ step = "written" => ~TakesHard /\ ~TakesSoft

TypeInv == TypeOK /\ ListsOK

\* The candidate in turn.
LEMMA TakenFacts ==
  ASSUME TypeInv, Take
  PROVE  /\ Taken \in Candidates /\ scanned < MaxEntry
         /\ IsSoft(Taken) <=> ~TakesHard
         /\ ~TakesHard => watched < MaxSoft /\ atHard = Len(hard)
         /\ TakesHard => /\ atHard' = atHard + 1 /\ atSoft' = atSoft /\ atSoft = 0
                         /\ Taken = hard[atHard + 1] /\ atHard + 1 \in 1..Len(hard)
         /\ ~TakesHard => /\ atHard' = atHard /\ atSoft' = atSoft + 1
                          /\ Taken = soft[atSoft + 1] /\ atSoft + 1 \in 1..Len(soft)
         /\ UNCHANGED <<hard, soft, reserved>>
<1>1. Len(hard) \in Nat /\ Len(soft) \in Nat /\ scanned \in Nat /\ MaxEntry \in Nat
      /\ atHard \in 0..Len(hard) /\ atSoft \in 0..Len(soft)
  BY CapsAssumption DEF TypeInv, TypeOK
<1>2. CASE TakesHard
  <2>1. atHard + 1 \in 1..Len(hard)
    BY <1>1, <1>2 DEF TakesHard
  <2>2. Taken = hard[atHard + 1] /\ Taken \in Candidates /\ ~IsSoft(Taken)
    BY <1>2, <2>1 DEF Taken, TypeInv, TypeOK, ListsOK
  <2>3. atSoft = 0
    BY <1>1, <1>2 DEF TypeInv, ListsOK, TakesHard
  <2> QED BY <1>1, <1>2, <2>1, <2>2, <2>3 DEF Take, TakesHard, queue
<1>3. CASE ~TakesHard
  <2>1. TakesSoft
    BY <1>3 DEF Take
  <2>2. atSoft + 1 \in 1..Len(soft) /\ scanned < MaxEntry /\ watched < MaxSoft
        /\ atHard = Len(hard)
    BY <1>1, <1>3, <2>1 DEF TakesSoft, TakesHard
  <2>3. Taken = soft[atSoft + 1] /\ Taken \in Candidates /\ IsSoft(Taken)
    BY <1>3, <2>2 DEF Taken, TypeInv, TypeOK, ListsOK
  <2> QED BY <1>3, <2>2, <2>3 DEF Take, queue
<1> QED BY <1>2, <1>3

LEMMA RecordTypes ==
  ASSUME NEW c \in Candidates, NEW status \in {"skipped", "evaluated"}
  PROVE  Record(c, status) \in Records
BY DEF Candidates, Record, Records, IsSoft

\* The steps of the agents that look at a candidate.
LEMMA TakeTypes ==
  ASSUME TypeInv,
         \/ PassOver \/ SkipReserved \/ CandlesMissing \/ NoEntry
         \/ \E approved, accepted \in BOOLEAN : Enter(approved, accepted)
  PROVE  TypeInv'
<1>1. Take
  BY DEF PassOver, SkipReserved, CandlesMissing, NoEntry, Enter, Examine
<1>2. step = "agents" /\ step' = step
      /\ UNCHANGED <<mode, counters, open, offered, hard, soft, reserved, sending, monitor, exits>>
  BY <1>1 DEF Take, queue
<1>3. Taken \in Candidates /\ Taken.symbol \in Symbols
  BY <1>1, TakenFacts DEF Candidates
<1>4. atHard' \in 0..Len(hard) /\ atSoft' \in 0..Len(soft)
      /\ (atSoft' > 0 => atHard' = Len(hard))
  BY <1>1, TakenFacts DEF TypeInv, TypeOK
<1>5. entries' \in SUBSET Records
  BY <1>3, RecordTypes
  DEF PassOver, SkipReserved, CandlesMissing, NoEntry, Enter, Examine, payload, TypeInv, TypeOK
<1>6. shown' \in [Symbols -> Nat]
  <2>1. \/ shown' = shown
        \/ shown[Taken.symbol] > 0 /\ shown' = [shown EXCEPT ![Taken.symbol] = @ - 1]
    BY DEF PassOver, SkipReserved, CandlesMissing, NoEntry, Enter, Examine, payload
  <2>2. shown \in [Symbols -> Nat]
    BY DEF TypeInv, TypeOK
  <2>3. shown[Taken.symbol] > 0 => shown[Taken.symbol] - 1 \in Nat
    BY <1>3, <2>2
  <2> QED BY <1>3, <2>1, <2>2, <2>3
<1>7. scanned' \in 0..MaxEntry /\ watched' \in 0..MaxSoft
  <2>1. CASE UNCHANGED caps
    BY <2>1 DEF TypeInv, TypeOK, caps
  <2>2. CASE Count
    BY <1>1, <2>2, TakenFacts, CapsAssumption DEF Count, TypeInv, TypeOK
  <2> QED BY <2>1, <2>2 DEF PassOver, SkipReserved, CandlesMissing, NoEntry, Enter
<1>8. working' \in [Symbols -> Nat] /\ decided' \in SUBSET Symbols
      /\ file' \in {"processing", "complete"}
  <2>1. \/ working' = working
        \/ working' = [working EXCEPT ![Taken.symbol] = @ + 1]
    BY DEF PassOver, SkipReserved, CandlesMissing, NoEntry, Enter
  <2>2. working \in [Symbols -> Nat] /\ decided \in SUBSET Symbols
        /\ file \in {"processing", "complete"}
    BY DEF TypeInv, TypeOK
  <2>3. decided' \in {decided, decided \union {Taken.symbol}}
        /\ file' \in {file, "processing"}
    BY DEF PassOver, SkipReserved, CandlesMissing, NoEntry, Enter, Examine
  <2>4. working' \in [Symbols -> Nat]
    BY <1>3, <2>1, <2>2
  <2> QED BY <1>3, <2>2, <2>3, <2>4
<1>9. TypeOK'
  BY <1>2, <1>4, <1>5, <1>6, <1>7, <1>8 DEF TypeInv, TypeOK
<1>10. ListsOK'
  BY <1>2, <1>4 DEF TypeInv, ListsOK
<1> QED BY <1>9, <1>10 DEF TypeInv

\* The agents begin with the sorted lists of what the scan offered.
LEMMA BeginTypes ==
  ASSUME TypeInv, NEW h \in Orderings({c \in offered : ~IsSoft(c)}),
         NEW w \in Orderings({c \in offered : IsSoft(c)}), NEW readable \in BOOLEAN,
         Begin(h, w, readable)
  PROVE  /\ TypeInv' /\ h \in Seq(Candidates) /\ w \in Seq(Candidates)
         /\ \A c \in offered : c.symbol \in Symbols
<1> DEFINE H == {c \in offered : ~IsSoft(c)}
           W == {c \in offered : IsSoft(c)}
<1>1. IsFiniteSet(H) /\ IsFiniteSet(W)
  BY FS_Subset DEF TypeInv, ListsOK
<1>2. H \subseteq Candidates /\ W \subseteq Candidates
      /\ \A c \in offered : c.symbol \in Symbols
  BY DEF TypeInv, TypeOK, Candidates
<1>3. h \in Seq(H) /\ BestFirst(h) /\ \A i \in 1..Len(h) : h[i] \in H
  BY <1>1, OrderingFacts
<1>4. w \in Seq(W) /\ BestFirst(w) /\ \A i \in 1..Len(w) : w[i] \in W
  BY <1>1, OrderingFacts
<1>5. h \in Seq(Candidates) /\ w \in Seq(Candidates)
  BY <1>2, <1>3, <1>4
<1>6. /\ step = "scanned" /\ step' = "agents" /\ hard' = h /\ soft' = w
      /\ reserved' \in SUBSET Symbols /\ monitor' \in SUBSET Symbols /\ sending' \in BOOLEAN
      /\ shown' = Preview(h, w, reserved') /\ file' \in {"processing", "complete"}
      /\ UNCHANGED <<mode, counters, open, working, offered, atHard, atSoft, entries, scanned,
                     watched, decided, exits>>
  BY DEF Begin, account, reached, caps, verdicts, TypeInv, TypeOK, Live
<1>7. Fresh
  BY <1>6 DEF TypeInv, ListsOK
<1>8. shown' \in [Symbols -> Nat]
  <2>1. \A at, q, s : IsFiniteSet(at) => OfSymbol(q, at, s) \in Nat
    BY FS_Subset, FS_CardinalityType DEF OfSymbol
  <2>2. \A n : /\ IsFiniteSet(FirstOf(ReadyAt(h, reserved'), n))
               /\ IsFiniteSet(FirstOf(ReadyAt(w, reserved'), n))
    BY <1>5, ReadyPlaces, WindowPlaces DEF Places
  <2> QED BY <1>6, <2>1, <2>2 DEF Preview
<1>9. 0 \in 0..Len(h) /\ 0 \in 0..Len(w) /\ 0 \in 0..MaxEntry /\ 0 \in 0..MaxSoft
  BY <1>5, CapsAssumption
<1>10. TypeOK'
  BY <1>5, <1>6, <1>7, <1>8, <1>9 DEF TypeInv, TypeOK, Fresh
<1>11. ListsOK'
  BY <1>3, <1>4, <1>6, <1>7 DEF TypeInv, ListsOK, Fresh
<1> QED BY <1>2, <1>5, <1>10, <1>11 DEF TypeInv

\* What Forget leaves behind is of its type.
LEMMA ForgetTypes ==
  ASSUME TypeInv, Forget, UNCHANGED <<mode, counters, file>>,
         open' \in SUBSET Symbols, working' \in [Symbols -> Nat]
  PROVE  TypeInv'
<1>1. <<>> \in Seq(Candidates) /\ Len(<<>>) = 0 /\ 0 \in 0..MaxEntry /\ 0 \in 0..MaxSoft
  BY CapsAssumption
<1>2. NothingShown \in [Symbols -> Nat]
  BY DEF NothingShown
<1>3. TypeOK'
  <2>1. hard' \in Seq(Candidates) /\ soft' \in Seq(Candidates)
        /\ atHard' \in 0..Len(hard') /\ atSoft' \in 0..Len(soft')
    BY <1>1 DEF Forget
  <2>2. /\ step' = "idle" /\ offered' \in SUBSET Candidates /\ reserved' \in SUBSET Symbols
        /\ sending' \in BOOLEAN /\ shown' \in [Symbols -> Nat] /\ entries' \in SUBSET Records
        /\ scanned' \in 0..MaxEntry /\ watched' \in 0..MaxSoft /\ monitor' \in SUBSET Symbols
        /\ decided' \in SUBSET Symbols /\ exits' \in SUBSET Symbols
    BY <1>1, <1>2 DEF Forget
  <2> QED BY <2>1, <2>2 DEF TypeInv, TypeOK
<1>4. ListsOK'
  BY <1>1, FS_EmptySet DEF Forget, ListsOK, BestFirst, Fresh
<1> QED BY <1>3, <1>4 DEF TypeInv

LEMMA NextTypes == TypeInv /\ [Next]_vars => TypeInv'
<1> SUFFICES ASSUME TypeInv, [Next]_vars PROVE TypeInv'
  OBVIOUS
<1> DEFINE Work == <<offered, hard, soft, atHard, atSoft, scanned, watched, entries>>
<1>1. ASSUME UNCHANGED Work, TypeOK', step' = "written" => ~TakesHard /\ ~TakesSoft,
             step' \in {"idle", "scanned"} => step \in {"idle", "scanned"}
      PROVE  TypeInv'
  BY <1>1 DEF TypeInv, ListsOK, Fresh, TakesHard, TakesSoft
<1>2. ASSUME NEW s \in Symbols, Fill(s) \/ CancelOrder(s) \/ ClosePosition(s) PROVE TypeInv'
  <2>1. UNCHANGED Work /\ step' = step
    BY <1>2 DEF Fill, CancelOrder, ClosePosition, cycle, queue, reached, caps, payload
  <2>2. open' \in SUBSET Symbols /\ working' \in [Symbols -> Nat]
    <3>1. open \in SUBSET Symbols /\ working \in [Symbols -> Nat]
      BY DEF TypeInv, TypeOK
    <3>2. open' \in {open, open \union {s}, open \ {s}}
      BY <1>2 DEF Fill, CancelOrder, ClosePosition
    <3>3. \/ working' = working
          \/ working[s] > 0 /\ working' = [working EXCEPT ![s] = @ - 1]
      BY <1>2, Zenon DEF Fill, CancelOrder, ClosePosition
    <3>4. working[s] > 0 => working[s] - 1 \in Nat
      BY <3>1
    <3>5. working' \in [Symbols -> Nat]
      BY <3>1, <3>3, <3>4
    <3> QED BY <3>1, <3>2, <3>5
  <2>3. TypeOK'
    BY <1>2, <2>2
    DEF Fill, CancelOrder, ClosePosition, cycle, queue, reached, caps, payload, verdicts,
        TypeInv, TypeOK
  <2> QED BY <1>1, <2>1, <2>3 DEF TypeInv, ListsOK
<1>3. ASSUME NEW row \in [Symbols -> Shapes], NEW vetoes, NEW shortVetoes,
             Scan(row, vetoes, shortVetoes)
      PROVE  TypeInv'
  <2>1. /\ offered' \in SUBSET Candidates /\ IsFiniteSet(offered')
        /\ counters' \in [Symbols -> 0..Required]
    BY <1>3, ScanTypes DEF TypeInv
  <2>2. /\ step = "idle" /\ step' = "scanned"
        /\ UNCHANGED <<mode, open, working, hard, soft, atHard, atSoft, reserved, sending, shown,
                       entries, scanned, watched, monitor, decided, exits, file>>
    BY <1>3 DEF Scan, account, queue, reached, payload, caps, verdicts
  <2> QED BY <2>1, <2>2 DEF TypeInv, TypeOK, ListsOK, Fresh
<1>4. ASSUME NEW s \in Symbols, NEW exit \in BOOLEAN, Monitor(s, exit) PROVE TypeInv'
  <2>1. UNCHANGED Work /\ step' = step
    BY <1>4 DEF Monitor, queue, reached, payload, caps
  <2>2. TypeOK'
    BY <1>4
    DEF Monitor, account, queue, reached, payload, caps, TypeInv, TypeOK
  <2> QED BY <1>1, <2>1, <2>2 DEF TypeInv, ListsOK
<1>5. CASE Publish
  <2>1. UNCHANGED Work /\ step' = "written" /\ ~TakesHard /\ ~TakesSoft
    BY <1>5 DEF Publish, AgentsDone, queue, reached, payload, caps
  <2>2. TypeOK'
    BY <1>5 DEF Publish, account, queue, reached, payload, caps, verdicts, TypeInv, TypeOK
  <2> QED BY <1>1, <2>1, <2>2
<1>6. ASSUME NEW market, NEW limit, RouteEntries(market, limit) PROVE TypeInv'
  <2>1. UNCHANGED Work /\ step' = "exits"
    BY <1>6 DEF RouteEntries, queue, reached, payload, caps
  <2>2. open' \in SUBSET Symbols /\ working' \in [Symbols -> Nat]
    BY <1>6 DEF RouteEntries, TypeInv, TypeOK
  <2>3. TypeOK'
    BY <1>6, <2>2 DEF RouteEntries, queue, reached, payload, caps, verdicts, TypeInv, TypeOK
  <2> QED BY <1>1, <2>1, <2>3
<1>7. CASE EndLive \/ Abandon
  BY <1>7, ForgetTypes DEF EndLive, Abandon, account, TypeInv, TypeOK
<1>8. ASSUME NEW closed, RouteExits(closed) PROVE TypeInv'
  BY <1>8, ForgetTypes DEF RouteExits, TypeInv, TypeOK
<1>9. CASE UNCHANGED vars
  <2>1. UNCHANGED Work /\ UNCHANGED step
    BY <1>9 DEF vars, queue, reached, payload, caps
  <2>2. TypeOK'
    BY <1>9 DEF vars, account, queue, reached, payload, caps, verdicts, TypeInv, TypeOK
  <2> QED BY <1>1, <2>1, <2>2 DEF TypeInv, ListsOK
<1> QED
  BY <1>2, <1>3, <1>4, <1>5, <1>6, <1>7, <1>8, <1>9, TakeTypes, BeginTypes DEF Next

LEMMA InitTypes == Init => TypeInv
<1>1. <<>> \in Seq(Candidates) /\ Len(<<>>) = 0 /\ 0 \in 0..MaxEntry /\ 0 \in 0..MaxSoft
  BY CapsAssumption
<1>2. Init => TypeOK
  <2>1. [s \in Symbols |-> 0] \in [Symbols -> Nat] /\ [s \in Symbols |-> 0] \in [Symbols -> 0..Required]
    BY RequiredAssumption
  <2>2. Init => /\ hard \in Seq(Candidates) /\ soft \in Seq(Candidates)
                /\ atHard \in 0..Len(hard) /\ atSoft \in 0..Len(soft)
    BY <1>1 DEF Init
  <2>3. Init => /\ mode \in Modes /\ open = {} /\ step = "idle" /\ offered = {}
                /\ reserved = {} /\ sending = FALSE /\ entries = {} /\ scanned = 0
                /\ watched = 0 /\ monitor = {} /\ decided = {} /\ exits = {}
                /\ file = "complete" /\ counters \in [Symbols -> 0..Required]
                /\ working \in [Symbols -> Nat] /\ shown \in [Symbols -> Nat]
    BY <2>1 DEF Init, NothingShown
  <2> QED BY <1>1, <2>2, <2>3 DEF TypeOK
<1>3. Init => ListsOK
  BY <1>1, FS_EmptySet DEF Init, ListsOK, BestFirst, Fresh
<1> QED BY <1>2, <1>3 DEF TypeInv

-----------------------------------------------------------------------------
(* What is shown, what was evaluated, and the caps.                        *)

ReadyHard == ReadyAt(hard, reserved)
ReadySoft == ReadyAt(soft, reserved)

\* The candidates the preview shows.
HardWindow == FirstOf(ReadyHard, MaxEntry)
SoftWindow == FirstOf(ReadySoft, Min({MaxSoft, MaxEntry - Cardinality(HardWindow)}))

\* A symbol has no more records being processed than places ahead in the windows.
ShownAhead ==
  \A s \in Symbols :
    shown[s] <= OfSymbol(hard, Ahead(HardWindow, atHard), s)
                  + OfSymbol(soft, Ahead(SoftWindow, atSoft), s)

\* What took a slot was ready, and is behind.
CountedBehind ==
  /\ watched <= scanned
  /\ scanned - watched <= Cardinality(Past(ReadyHard, atHard))
  /\ watched <= Cardinality(Past(ReadySoft, atSoft))

\* What was evaluated is at least as sure as what is ahead in its list, and
\* before any WATCH candidate the directional ones were through.
EvaluatedAhead ==
  \A r \in entries : r.status = "evaluated" =>
    IF r.soft
    THEN atHard = Len(hard) /\ \A i \in 1..Len(soft) : i > atSoft => r.conf >= soft[i].conf
    ELSE \A i \in 1..Len(hard) : i > atHard => r.conf >= hard[i].conf

WorkInv == ShownAhead /\ CountedBehind /\ EvaluatedAhead

LEMMA QueuePlaces ==
  ASSUME TypeInv
  PROVE  /\ Places(ReadyHard) /\ Places(ReadySoft) /\ Places(HardWindow) /\ Places(SoftWindow)
         /\ HardWindow \subseteq ReadyHard /\ SoftWindow \subseteq ReadySoft
         /\ ReadyHard \subseteq 1..Len(hard) /\ ReadySoft \subseteq 1..Len(soft)
         /\ atHard \in Nat /\ atSoft \in Nat /\ Len(hard) \in Nat /\ Len(soft) \in Nat
<1>1. hard \in Seq(Candidates) /\ soft \in Seq(Candidates)
  BY DEF TypeInv, TypeOK
<1>2. /\ Places(ReadyHard) /\ Places(ReadySoft)
      /\ ReadyHard \subseteq 1..Len(hard) /\ ReadySoft \subseteq 1..Len(soft)
  BY <1>1, ReadyPlaces DEF ReadyHard, ReadySoft
<1>3. /\ Places(HardWindow) /\ Places(SoftWindow)
      /\ HardWindow \subseteq ReadyHard /\ SoftWindow \subseteq ReadySoft
  BY <1>2, WindowPlaces DEF HardWindow, SoftWindow
<1>4. atHard \in Nat /\ atSoft \in Nat /\ Len(hard) \in Nat /\ Len(soft) \in Nat
  BY <1>1 DEF TypeInv, TypeOK
<1> QED BY <1>2, <1>3, <1>4

\* With the agents at the start of empty or new lists.
ShownInWindows ==
  \A s \in Symbols :
    shown[s] <= OfSymbol(hard, HardWindow, s) + OfSymbol(soft, SoftWindow, s)

LEMMA FreshWork == TypeInv /\ Fresh /\ ShownInWindows => WorkInv
<1> SUFFICES ASSUME TypeInv, Fresh, ShownInWindows PROVE WorkInv
  OBVIOUS
<1>1. Ahead(HardWindow, atHard) = HardWindow /\ Ahead(SoftWindow, atSoft) = SoftWindow
  <2>1. /\ \A i \in HardWindow : i \in Nat /\ i > 0
        /\ \A i \in SoftWindow : i \in Nat /\ i > 0
    BY QueuePlaces
  <2> QED BY <2>1 DEF Fresh, Ahead
<1>2. ShownAhead
  BY <1>1 DEF ShownAhead, ShownInWindows
<1>3. Cardinality(Past(ReadyHard, 0)) \in Nat /\ Cardinality(Past(ReadySoft, 0)) \in Nat
  BY QueuePlaces, PastNext
<1>4. CountedBehind
  BY <1>3 DEF Fresh, CountedBehind
<1> QED BY <1>2, <1>4 DEF WorkInv, EvaluatedAhead, Fresh

\* Nothing is shown when there is no work.
LEMMA NoWork == TypeInv /\ Fresh /\ shown = NothingShown => WorkInv
<1> SUFFICES ASSUME TypeInv, Fresh, shown = NothingShown PROVE WorkInv
  OBVIOUS
<1>1. ASSUME NEW at, Places(at), NEW q, NEW s PROVE OfSymbol(q, at, s) \in Nat
  BY <1>1, FS_Subset, FS_CardinalityType DEF OfSymbol, Places
<1>2. \A s \in Symbols : OfSymbol(hard, HardWindow, s) \in Nat
                         /\ OfSymbol(soft, SoftWindow, s) \in Nat
  BY <1>1, QueuePlaces
<1> QED BY <1>2, FreshWork DEF NothingShown, ShownInWindows

\* The preview shows each symbol as often as the windows hold it.
LEMMA BeginWork ==
  ASSUME TypeInv, TypeInv', NEW h, NEW w, NEW readable, Begin(h, w, readable)
  PROVE  WorkInv'
<1>1. /\ hard' = h /\ soft' = w /\ shown' = Preview(h, w, reserved')
      /\ Fresh'
  BY DEF Begin, reached, caps, TypeInv, ListsOK, Fresh
<1>2. \A s \in Symbols :
        shown'[s] = OfSymbol(hard', HardWindow', s) + OfSymbol(soft', SoftWindow', s)
  BY <1>1 DEF Preview, HardWindow, SoftWindow, ReadyHard, ReadySoft
<1>3. ShownInWindows'
  <2>1. \A s \in Symbols : shown'[s] \in Nat
    BY DEF TypeInv, TypeOK
  <2> QED BY <1>2, <2>1 DEF ShownInWindows
<1> QED BY <1>1, <1>3, FreshWork, PTL

\* The candidate in turn is at a ready place when the agents may look at it.
MayLook == Eligible(Taken) /\ Taken.symbol \notin reserved

LEMMA TurnIsReady ==
  ASSUME TypeInv, Take
  PROVE  /\ TakesHard => (atHard + 1 \in ReadyHard <=> MayLook)
         /\ ~TakesHard => (atSoft + 1 \in ReadySoft <=> MayLook)
BY TakenFacts DEF MayLook, ReadyHard, ReadySoft, ReadyAt

\* The record of the candidate in turn, if one is shown, is resolved.
LEMMA TakeShown ==
  ASSUME TypeInv, ShownAhead, Take,
         \/ ~MayLook /\ shown' = shown
         \/ shown' = IF shown[Taken.symbol] > 0
                     THEN [shown EXCEPT ![Taken.symbol] = @ - 1] ELSE shown
  PROVE  ShownAhead'
<1> DEFINE ofHard(s, n) == OfSymbol(hard, Ahead(HardWindow, n), s)
           ofSoft(s, n) == OfSymbol(soft, Ahead(SoftWindow, n), s)
           turn(s) == IF MayLook /\ Taken.symbol = s THEN 1 ELSE 0
<1>1. UNCHANGED <<hard, soft, reserved>> /\ HardWindow' = HardWindow /\ SoftWindow' = SoftWindow
  BY TakenFacts DEF HardWindow, SoftWindow, ReadyHard, ReadySoft
<1>2. shown \in [Symbols -> Nat] /\ Taken.symbol \in Symbols
  BY TakenFacts DEF TypeInv, TypeOK, Candidates
<1>3. atHard \in Nat /\ atSoft \in Nat /\ atHard' \in Nat /\ atSoft' \in Nat
  BY TakenFacts, QueuePlaces
<1>4. ASSUME NEW s, NEW n \in Nat
      PROVE  /\ ofHard(s, n) \in Nat
             /\ ofHard(s, n) = ofHard(s, n + 1)
                               + IF n + 1 \in HardWindow /\ hard[n + 1].symbol = s
                                 THEN 1 ELSE 0
  <2>1. Places(HardWindow)
    BY QueuePlaces
  <2> QED BY <2>1, AheadNext
<1>5. ASSUME NEW s, NEW n \in Nat
       PROVE  /\ ofSoft(s, n) \in Nat
              /\ ofSoft(s, n) = ofSoft(s, n + 1)
                                + IF n + 1 \in SoftWindow /\ soft[n + 1].symbol = s
                                  THEN 1 ELSE 0
  <2>1. Places(SoftWindow)
    BY QueuePlaces
  <2> QED BY <2>1, AheadNext
<1> HIDE DEF ofHard, ofSoft
<1>6. \A s \in Symbols : /\ ofHard(s, atHard) \in Nat /\ ofHard(s, atHard') \in Nat
                         /\ ofSoft(s, atSoft) \in Nat /\ ofSoft(s, atSoft') \in Nat
  BY <1>3, <1>4, <1>5
<1>7. \A s \in Symbols : ofHard(s, atHard) + ofSoft(s, atSoft)
                           <= ofHard(s, atHard') + ofSoft(s, atSoft') + turn(s)
  <2> SUFFICES ASSUME NEW s \in Symbols
               PROVE  ofHard(s, atHard) + ofSoft(s, atSoft)
                        <= ofHard(s, atHard') + ofSoft(s, atSoft') + turn(s)
    OBVIOUS
  <2>1. CASE TakesHard
    <3>1. atHard' = atHard + 1 /\ atSoft' = atSoft /\ Taken = hard[atHard + 1]
      BY <2>1, TakenFacts
    <3>2. ofHard(s, atHard) = ofHard(s, atHard + 1)
                                + IF atHard + 1 \in HardWindow /\ hard[atHard + 1].symbol = s
                                  THEN 1 ELSE 0
      BY <1>3, <1>4
    <3>3. atHard + 1 \in HardWindow => MayLook
      BY <2>1, QueuePlaces, TurnIsReady
    <3> QED BY <1>6, <3>1, <3>2, <3>3
  <2>2. CASE ~TakesHard
    <3>1. atSoft' = atSoft + 1 /\ atHard' = atHard /\ Taken = soft[atSoft + 1]
      BY <2>2, TakenFacts
    <3>2. ofSoft(s, atSoft) = ofSoft(s, atSoft + 1)
                                + IF atSoft + 1 \in SoftWindow /\ soft[atSoft + 1].symbol = s
                                  THEN 1 ELSE 0
      BY <1>3, <1>5
    <3>3. atSoft + 1 \in SoftWindow => MayLook
      BY <2>2, QueuePlaces, TurnIsReady
    <3> QED BY <1>6, <3>1, <3>2, <3>3
  <2> QED BY <2>1, <2>2
<1>8. \A s \in Symbols : \/ shown'[s] = shown[s] /\ turn(s) = 0
                         \/ shown'[s] = 0
                         \/ shown'[s] = shown[s] - 1 /\ s = Taken.symbol
  <2>1. CASE ~MayLook /\ shown' = shown
    BY <2>1
  <2>2. CASE shown' = IF shown[Taken.symbol] > 0
                      THEN [shown EXCEPT ![Taken.symbol] = @ - 1] ELSE shown
    <3>1. CASE shown[Taken.symbol] > 0
      BY <1>2, <2>2, <3>1
    <3>2. CASE ~(shown[Taken.symbol] > 0)
      BY <1>2, <2>2, <3>2
    <3> QED BY <3>1, <3>2
  <2> QED BY <2>1, <2>2
<1>9. \A s \in Symbols : shown[s] <= ofHard(s, atHard) + ofSoft(s, atSoft)
  BY DEF ShownAhead, ofHard, ofSoft
<1>10. \A s \in Symbols : shown'[s] <= ofHard(s, atHard') + ofSoft(s, atSoft')
  BY <1>2, <1>6, <1>7, <1>8, <1>9
<1> QED BY <1>1, <1>10 DEF ShownAhead, ofHard, ofSoft

\* A slot is taken for the candidate in turn, or none is.
LEMMA TakeCounts ==
  ASSUME TypeInv, CountedBehind, Take, UNCHANGED caps \/ (MayLook /\ Count)
  PROVE  CountedBehind'
<1>1. UNCHANGED <<hard, soft, reserved>> /\ ReadyHard' = ReadyHard /\ ReadySoft' = ReadySoft
  BY TakenFacts DEF ReadyHard, ReadySoft
<1> DEFINE behindHard(n) == Cardinality(Past(ReadyHard, n))
           behindSoft(n) == Cardinality(Past(ReadySoft, n))
<1>2. /\ behindHard(atHard) \in Nat /\ behindSoft(atSoft) \in Nat
      /\ behindHard(atHard + 1) = behindHard(atHard) + IF atHard + 1 \in ReadyHard THEN 1 ELSE 0
      /\ behindSoft(atSoft + 1) = behindSoft(atSoft) + IF atSoft + 1 \in ReadySoft THEN 1 ELSE 0
  BY QueuePlaces, PastNext
<1>3. scanned \in Nat /\ watched \in Nat
  BY CapsAssumption DEF TypeInv, TypeOK
<1>4. watched <= scanned /\ scanned - watched <= behindHard(atHard) /\ watched <= behindSoft(atSoft)
  BY DEF CountedBehind
<1>5. \/ scanned' = scanned /\ watched' = watched
      \/ MayLook /\ scanned' = scanned + 1 /\ watched' = IF TakesHard THEN watched ELSE watched + 1
  BY TakenFacts DEF Count, caps
<1> HIDE DEF behindHard, behindSoft
<1>6. /\ watched' <= scanned' /\ scanned' - watched' <= behindHard(atHard')
      /\ watched' <= behindSoft(atSoft')
  <2>1. CASE TakesHard
    <3>1. atHard' = atHard + 1 /\ atSoft' = atSoft /\ (MayLook => atHard + 1 \in ReadyHard)
      BY <2>1, TakenFacts, TurnIsReady
    <3> QED BY <1>2, <1>3, <1>4, <1>5, <2>1, <3>1
  <2>2. CASE ~TakesHard
    <3>1. atSoft' = atSoft + 1 /\ atHard' = atHard /\ (MayLook => atSoft + 1 \in ReadySoft)
      BY <2>2, TakenFacts, TurnIsReady
    <3> QED BY <1>2, <1>3, <1>4, <1>5, <2>2, <3>1
  <2> QED BY <2>1, <2>2
<1> QED BY <1>1, <1>6 DEF CountedBehind, behindHard, behindSoft

\* The lists are sorted: the candidate in turn is at least as sure as the rest.
LEMMA TakeEvaluates ==
  ASSUME TypeInv, EvaluatedAhead, Take,
         \/ entries' = entries
         \/ \E status \in {"skipped", "evaluated"} :
              entries' = entries \union {Record(Taken, status)}
  PROVE  EvaluatedAhead'
<1>1. UNCHANGED <<hard, soft>>
  BY TakenFacts
<1>2. /\ Taken.conf \in Nat /\ atHard \in Nat /\ atSoft \in Nat
      /\ Len(hard) \in Nat /\ Len(soft) \in Nat
      /\ BestFirst(hard) /\ BestFirst(soft)
  BY TakenFacts, QueuePlaces DEF Candidates, TypeInv, ListsOK
<1>3. ASSUME NEW r \in entries, r.status = "evaluated"
      PROVE  IF r.soft
             THEN atHard' = Len(hard) /\ \A i \in 1..Len(soft) : i > atSoft' => r.conf >= soft[i].conf
             ELSE \A i \in 1..Len(hard) : i > atHard' => r.conf >= hard[i].conf
  <2>1. CASE TakesHard
    <3>1. atHard' = atHard + 1 /\ atSoft' = atSoft /\ atHard < Len(hard)
      BY <2>1, TakenFacts DEF TakesHard
    <3> QED BY <1>2, <1>3, <3>1 DEF EvaluatedAhead
  <2>2. CASE ~TakesHard
    <3>1. atHard' = atHard /\ atSoft' = atSoft + 1
      BY <2>2, TakenFacts
    <3> QED BY <1>2, <1>3, <3>1 DEF EvaluatedAhead
  <2> QED BY <2>1, <2>2
<1>4. ASSUME NEW status, NEW r, r = Record(Taken, status)
      PROVE  IF r.soft
             THEN atHard' = Len(hard) /\ \A i \in 1..Len(soft) : i > atSoft' => r.conf >= soft[i].conf
             ELSE \A i \in 1..Len(hard) : i > atHard' => r.conf >= hard[i].conf
  <2>1. r.soft = IsSoft(Taken) /\ r.conf = Taken.conf
    BY <1>4 DEF Record
  <2>2. CASE TakesHard
    <3>1. /\ ~r.soft /\ atHard' = atHard + 1 /\ atHard + 1 \in 1..Len(hard)
          /\ r.conf = hard[atHard + 1].conf
      BY <2>1, <2>2, TakenFacts
    <3> QED BY <1>2, <3>1 DEF BestFirst
  <2>3. CASE ~TakesHard
    <3>1. /\ r.soft /\ atHard' = Len(hard) /\ atSoft' = atSoft + 1
          /\ atSoft + 1 \in 1..Len(soft) /\ r.conf = soft[atSoft + 1].conf
      BY <2>1, <2>3, TakenFacts
    <3> QED BY <1>2, <3>1 DEF BestFirst
  <2> QED BY <2>2, <2>3
<1> QED BY <1>1, <1>3, <1>4 DEF EvaluatedAhead

LEMMA TakeWork ==
  ASSUME TypeInv, WorkInv,
         \/ PassOver \/ SkipReserved \/ CandlesMissing \/ NoEntry
         \/ \E approved, accepted \in BOOLEAN : Enter(approved, accepted)
  PROVE  WorkInv'
<1>1. Take
  BY DEF PassOver, SkipReserved, CandlesMissing, NoEntry, Enter, Examine
<1>2. \/ ~MayLook /\ shown' = shown
      \/ shown' = IF shown[Taken.symbol] > 0
                  THEN [shown EXCEPT ![Taken.symbol] = @ - 1] ELSE shown
  <2>1. PassOver \/ SkipReserved => ~MayLook /\ shown' = shown
    BY DEF PassOver, SkipReserved, payload, MayLook
  <2>2. ASSUME NEW status, Examine(status)
        PROVE  shown' = IF shown[Taken.symbol] > 0
                        THEN [shown EXCEPT ![Taken.symbol] = @ - 1] ELSE shown
    BY <2>2 DEF Examine
  <2> QED BY <2>1, <2>2, Zenon DEF CandlesMissing, NoEntry, Enter
<1>3. UNCHANGED caps \/ (MayLook /\ Count)
  BY DEF PassOver, SkipReserved, CandlesMissing, NoEntry, Enter, Examine, MayLook
<1>4. \/ entries' = entries
      \/ \E status \in {"skipped", "evaluated"} :
           entries' = entries \union {Record(Taken, status)}
  BY DEF PassOver, SkipReserved, CandlesMissing, NoEntry, Enter, Examine, payload
<1>5. ShownAhead'
  BY <1>1, <1>2, TakeShown DEF WorkInv
<1>6. CountedBehind'
  BY <1>1, <1>3, TakeCounts DEF WorkInv
<1>7. EvaluatedAhead'
  BY <1>1, <1>4, TakeEvaluates DEF WorkInv
<1> QED BY <1>5, <1>6, <1>7 DEF WorkInv

LEMMA NextWork ==
  ASSUME TypeInv, TypeInv', WorkInv, [Next]_vars
  PROVE  WorkInv'
<1>1. ASSUME UNCHANGED <<hard, soft, atHard, atSoft, reserved, shown, entries, scanned, watched>>
      PROVE  WorkInv'
  BY <1>1
  DEF WorkInv, ShownAhead, CountedBehind, EvaluatedAhead, HardWindow, SoftWindow, ReadyHard,
      ReadySoft
<1> USE DEF queue, reached, payload, caps
<1>2. ASSUME NEW s \in Symbols, Fill(s) \/ CancelOrder(s) \/ ClosePosition(s) PROVE WorkInv'
  BY <1>1, <1>2 DEF Fill, CancelOrder, ClosePosition, cycle
<1>3. ASSUME NEW row, NEW vetoes, NEW shortVetoes, Scan(row, vetoes, shortVetoes)
      PROVE  WorkInv'
  BY <1>1, <1>3 DEF Scan
<1>4. ASSUME NEW s, NEW exit, Monitor(s, exit) PROVE WorkInv'
  BY <1>1, <1>4 DEF Monitor
<1>5. CASE Publish
  BY <1>1, <1>5 DEF Publish
<1>6. ASSUME NEW market, NEW limit, RouteEntries(market, limit) PROVE WorkInv'
  BY <1>1, <1>6 DEF RouteEntries
<1>7. ASSUME Forget PROVE WorkInv'
  <2>1. Fresh' /\ (shown = NothingShown)'
    BY <1>7 DEF Forget, Fresh, NothingShown
  <2> QED BY <2>1, NoWork, PTL
<1>8. CASE EndLive \/ Abandon \/ \E closed \in SUBSET Symbols : RouteExits(closed)
  BY <1>7, <1>8 DEF EndLive, Abandon, RouteExits
<1>9. CASE UNCHANGED vars
  BY <1>1, <1>9 DEF vars
<1> QED
  BY <1>2, <1>3, <1>4, <1>5, <1>6, <1>8, <1>9, TakeWork, BeginWork DEF Next

Inv == TypeInv /\ WorkInv

-----------------------------------------------------------------------------
(* The results.                                                            *)

\* The invariant holds in every state of the specification.
THEOREM Invariance == Spec => []Inv
<1>1. Init => Inv
  <2>1. Init => Fresh /\ shown = NothingShown
    BY DEF Init, Fresh
  <2> QED BY <2>1, InitTypes, NoWork DEF Inv
<1>2. Inv /\ [Next]_vars => Inv'
  BY NextTypes, NextWork DEF Inv
<1> QED BY <1>1, <1>2, PTL DEF Spec

\* Every variable stays of its type; above all, the agents never go over the cap
\* of a cycle or that of the WATCH candidates.
THEOREM TypeCorrect == Spec => []TypeOK
<1>1. Inv => TypeOK
  BY DEF Inv, TypeInv
<1> QED BY <1>1, Invariance, PTL

\* What the places behind the agents say when they are done: with a cap used up,
\* nothing of the windows is ahead.
LEMMA WindowsPassed ==
  ASSUME Inv, step = "written"
  PROVE  Ahead(HardWindow, atHard) = {} /\ Ahead(SoftWindow, atSoft) = {}
<1> DEFINE behindHard == Cardinality(Past(ReadyHard, atHard))
           behindSoft == Cardinality(Past(ReadySoft, atSoft))
           slots == Min({MaxSoft, MaxEntry - Cardinality(HardWindow)})
<1>1. /\ Places(ReadyHard) /\ Places(ReadySoft) /\ Places(HardWindow)
      /\ atHard \in 0..Len(hard) /\ atSoft \in 0..Len(soft)
      /\ Len(hard) \in Nat /\ Len(soft) \in Nat
      /\ ReadyHard \subseteq 1..Len(hard) /\ ReadySoft \subseteq 1..Len(soft)
  BY QueuePlaces DEF Inv, TypeInv, TypeOK
<1>2. behindHard \in Nat /\ behindSoft \in Nat /\ Cardinality(HardWindow) \in Nat
  <2>1. atHard \in Nat /\ atSoft \in Nat
    BY <1>1
  <2>2. behindHard \in Nat /\ behindSoft \in Nat
    BY <1>1, <2>1, PastNext
  <2>3. Cardinality(HardWindow) \in Nat
    BY <1>1, FS_CardinalityType DEF Places
  <2> QED BY <2>2, <2>3
<1>3. /\ scanned \in 0..MaxEntry /\ watched \in 0..MaxSoft
      /\ MaxEntry \in Nat /\ MaxSoft \in Nat
  BY CapsAssumption DEF Inv, TypeInv, TypeOK
<1>4. watched <= scanned /\ scanned - watched <= behindHard /\ watched <= behindSoft
  BY DEF Inv, WorkInv, CountedBehind
<1>5. /\ atHard = Len(hard) \/ scanned = MaxEntry
      /\ atSoft = Len(soft) \/ scanned = MaxEntry \/ watched = MaxSoft
      /\ atHard < Len(hard) => atSoft = 0
  BY <1>1, <1>3 DEF Inv, TypeInv, ListsOK, TakesHard, TakesSoft
<1>6. slots \in {MaxSoft, MaxEntry - Cardinality(HardWindow)} /\ slots \in Int
      /\ slots <= MaxSoft /\ slots <= MaxEntry - Cardinality(HardWindow)
  <2>1. MaxSoft \in Int /\ MaxEntry - Cardinality(HardWindow) \in Int
    BY <1>2, <1>3
  <2> QED BY <2>1, SmallerOfTwo
<1> HIDE DEF slots
<1>7. atSoft = 0 => watched = 0
  <2>1. \A i \in ReadySoft : ~(i <= 0)
    BY <1>1
  <2>2. Past(ReadySoft, 0) = {}
    BY <2>1 DEF Past
  <2>3. atSoft = 0 => behindSoft = 0
    BY <2>2, FS_EmptySet
  <2> QED BY <1>2, <1>3, <1>4, <2>3
<1>8. ASSUME NEW at, Places(at), NEW n \in Nat, at \subseteq 1..n
      PROVE  Past(at, n) = at /\ \A w : w \subseteq at => Ahead(w, n) = {}
  <2>1. \A i \in at : i <= n /\ ~(i > n)
    BY <1>8
  <2> QED BY <2>1 DEF Past, Ahead
<1>9. Ahead(HardWindow, atHard) = {}
  <2>1. CASE atHard = Len(hard)
    BY <1>1, <1>8, <2>1, QueuePlaces DEF Inv
  <2>2. CASE atHard < Len(hard)
    <3>1. behindHard >= MaxEntry
      BY <1>2, <1>3, <1>4, <1>5, <1>7, <2>2
    <3> QED BY <1>1, <1>3, <3>1, WindowPassed DEF HardWindow
  <2> QED BY <1>1, <2>1, <2>2
<1>10. Cardinality(HardWindow) >= scanned - watched
  <2>1. CASE HardWindow = ReadyHard
    <3>1. behindHard <= Cardinality(ReadyHard)
      <4>1. Past(ReadyHard, atHard) \in SUBSET ReadyHard /\ IsFiniteSet(ReadyHard)
        BY <1>1 DEF Past, Places
      <4> QED BY <4>1, FS_Subset
    <3> QED BY <1>2, <1>3, <1>4, <2>1, <3>1
  <2>2. CASE Cardinality(HardWindow) >= MaxEntry
    BY <1>2, <1>3, <2>2
  <2> QED BY <1>1, <1>3, <2>1, <2>2, WindowFull DEF HardWindow
<1>11. Ahead(SoftWindow, atSoft) = {}
  <2>1. CASE atSoft = Len(soft)
    BY <1>1, <1>8, <2>1, QueuePlaces DEF Inv
  <2>2. CASE atSoft # Len(soft)
    <3>1. slots <= behindSoft
      <4>1. CASE watched = MaxSoft
        BY <1>2, <1>3, <1>4, <1>6, <4>1
      <4>2. CASE scanned = MaxEntry
        BY <1>2, <1>3, <1>4, <1>6, <1>10, <4>2
      <4> QED BY <1>5, <2>2, <4>1, <4>2
    <3>2. SoftWindow = FirstOf(ReadySoft, slots)
      BY DEF SoftWindow, slots
    <3>3. atSoft \in Nat /\ behindSoft >= slots
      BY <1>1, <1>2, <1>6, <3>1
    <3> QED BY <1>1, <1>6, <3>2, <3>3, WindowPassed
  <2> QED BY <2>1, <2>2
<1> QED BY <1>9, <1>11

\* When the payload is marked complete no candidate is left as being processed:
\* the free slots the progress file counted before the agents started are never
\* more than the candidates the agents come to.
THEOREM NoneLeftProcessing == Spec => []NothingLeftProcessing
<1>1. Inv => NothingLeftProcessing
  <2> SUFFICES ASSUME Inv, step = "written", NEW s \in Symbols PROVE shown[s] = 0
    BY DEF NothingLeftProcessing
  <2>1. \A q : OfSymbol(q, {}, s) = 0
    BY FS_EmptySet DEF OfSymbol
  <2>2. shown[s] <= 0 + 0
    BY <2>1, WindowsPassed DEF Inv, WorkInv, ShownAhead
  <2>3. shown[s] \in Nat
    BY DEF Inv, TypeInv, TypeOK
  <2> QED BY <2>2, <2>3
<1> QED BY <1>1, Invariance, PTL

\* A candidate the agents could have looked at is left out because a cap was used
\* up, and every candidate that took a slot of it is at least as sure.
THEOREM OnlyForBetter == Spec => []LeftOutForBetter
<1>1. Inv => LeftOutForBetter
  <2> SUFFICES ASSUME Inv, step = "written",
                      NEW c \in {hard[i] : i \in atHard + 1..Len(hard)}
                                  \union {soft[i] : i \in atSoft + 1..Len(soft)}
               PROVE  /\ scanned = MaxEntry \/ (IsSoft(c) /\ watched = MaxSoft)
                      /\ \A r \in entries : r.status = "evaluated" =>
                           IF r.soft = IsSoft(c) THEN r.conf >= c.conf ELSE IsSoft(c)
    BY DEF LeftOutForBetter
  <2>1. /\ atHard \in 0..Len(hard) /\ atSoft \in 0..Len(soft)
        /\ Len(hard) \in Nat /\ Len(soft) \in Nat
        /\ scanned \in 0..MaxEntry /\ watched \in 0..MaxSoft
        /\ MaxEntry \in Nat /\ MaxSoft \in Nat
    BY CapsAssumption, QueuePlaces DEF Inv, TypeInv, TypeOK
  <2>2. ~TakesHard /\ ~TakesSoft
    BY DEF Inv, TypeInv, ListsOK
  <2>3. ASSUME NEW i \in atHard + 1..Len(hard), c = hard[i]
        PROVE  /\ ~IsSoft(c) /\ scanned = MaxEntry
               /\ \A r \in entries : r.status = "evaluated" => ~r.soft /\ r.conf >= c.conf
    <3>1. i \in 1..Len(hard) /\ i > atHard /\ atHard < Len(hard)
      BY <2>1, <2>3
    <3>2. ~IsSoft(c)
      BY <2>3, <3>1 DEF Inv, TypeInv, ListsOK
    <3>3. scanned = MaxEntry
      BY <2>1, <2>2, <3>1 DEF TakesHard
    <3>4. \A r \in entries : r.status = "evaluated" => ~r.soft /\ r.conf >= c.conf
      BY <2>1, <2>3, <3>1 DEF Inv, WorkInv, EvaluatedAhead
    <3> QED BY <3>2, <3>3, <3>4
  <2>4. ASSUME NEW i \in atSoft + 1..Len(soft), c = soft[i]
        PROVE  /\ IsSoft(c) /\ (scanned = MaxEntry \/ watched = MaxSoft)
               /\ \A r \in entries : r.status = "evaluated" => (r.soft => r.conf >= c.conf)
    <3>1. i \in 1..Len(soft) /\ i > atSoft /\ atSoft < Len(soft)
      BY <2>1, <2>4
    <3>2. IsSoft(c)
      BY <2>4, <3>1 DEF Inv, TypeInv, ListsOK
    <3>3. scanned = MaxEntry \/ watched = MaxSoft
      BY <2>1, <2>2, <3>1 DEF TakesSoft
    <3>4. \A r \in entries : r.status = "evaluated" => (r.soft => r.conf >= c.conf)
      BY <2>4, <3>1 DEF Inv, WorkInv, EvaluatedAhead
    <3> QED BY <3>2, <3>3, <3>4
  <2>5. \A r \in entries : r.soft \in BOOLEAN
    BY DEF Inv, TypeInv, TypeOK, Records
  <2>6. IsSoft(c) \in BOOLEAN
    BY DEF IsSoft
  <2> QED BY <2>3, <2>4, <2>5, <2>6
<1> QED BY <1>1, Invariance, PTL

-----------------------------------------------------------------------------
(* What a scan offers.                                                     *)

\* A candidate is of the symbol whose row it was made from.
LEMMA CandidateKeepsSymbol ==
  ASSUME NEW s, NEW r, NEW origin
  PROVE  Candidate(s, r, origin).symbol = s
BY DEF Candidate

\* The three sources of rows name different symbols in paper mode: the confirmed
\* shorts leave out what the long ranking has, the WATCH rows what either has.
LEMMA ScanOffersOnce ==
  ASSUME NEW row, NEW vetoes, NEW shortVetoes, Scan(row, vetoes, shortVetoes)
  PROVE  PaperOffersOnce'
<1> DEFINE confirmed == {s \in Symbols : Streaks(row)[s] = Required}
           held == {s \in Symbols : mode = "paper" /\ (s \in open \/ working[s] > 0)}
           long == {s \in Symbols : "long" \in row[s].in} \ held
           short == RowsKept(confirmed, long) \ held
           watch == {s \in Symbols \ (long \union short) :
                       row[s].in # {} /\ "WATCH" \in {row[s].long, row[s].short}}
           ofLong(s) == Candidate(s, Judged(row[s], s \in vetoes), "long")
           ofShort(s) == Candidate(s, Judged(Confirmed(row[s]), s \in shortVetoes),
                                   "confirmed")
           ofWatch(s) == Candidate(s, row[s], "watch")
<1> HIDE DEF confirmed, held, ofLong, ofShort, ofWatch
<1> SUFFICES ASSUME mode = "paper", NEW c \in offered', NEW d \in offered',
                    c.symbol = d.symbol
             PROVE  c = d
  BY DEF Scan, PaperOffersOnce
<1>1. offered' \subseteq {ofLong(s) : s \in long} \union {ofShort(s) : s \in short}
                           \union {ofWatch(s) : s \in watch}
  BY DEF Scan, confirmed, held, ofLong, ofShort, ofWatch
<1>2. \A s : ofLong(s).symbol = s /\ ofShort(s).symbol = s /\ ofWatch(s).symbol = s
  BY CandidateKeepsSymbol DEF ofLong, ofShort, ofWatch
<1>3. long \intersect short = {}
  BY DEF RowsKept
<1>4. watch \intersect (long \union short) = {}
  OBVIOUS
<1> HIDE DEF long, short, watch
<1> QED
  BY <1>1, <1>2, <1>3, <1>4

\* Every other step keeps what the scan offered, or forgets it; the mode of the
\* settings stays.
LEMMA NextOffersOnce == PaperOffersOnce /\ [Next]_vars => PaperOffersOnce'
<1> SUFFICES ASSUME PaperOffersOnce, [Next]_vars PROVE PaperOffersOnce'
  OBVIOUS
<1>1. ASSUME NEW row \in [Symbols -> Shapes], NEW vetoes \in SUBSET Symbols,
             NEW shortVetoes \in SUBSET Symbols, Scan(row, vetoes, shortVetoes)
      PROVE  PaperOffersOnce'
  BY <1>1, ScanOffersOnce
<1> DEFINE Kept == mode' = mode /\ (offered' = offered \/ offered' = {})
<1>2. ASSUME NEW s \in Symbols, Fill(s) \/ CancelOrder(s) \/ ClosePosition(s) PROVE Kept
  BY <1>2 DEF Fill, CancelOrder, ClosePosition, cycle
<1>3. ASSUME NEW h, NEW w, NEW readable, Begin(h, w, readable) PROVE Kept
  BY <1>3 DEF Begin
<1>4. PassOver \/ SkipReserved => Kept
  BY DEF PassOver, SkipReserved, Take
<1>5. CandlesMissing \/ NoEntry => Kept
  BY DEF CandlesMissing, NoEntry, Examine, Take
<1>6. ASSUME NEW approved, NEW accepted, Enter(approved, accepted) PROVE Kept
  BY <1>6 DEF Enter, Examine, Take
<1>7. ASSUME NEW s \in Symbols, NEW exit, Monitor(s, exit) PROVE Kept
  BY <1>7 DEF Monitor
<1>8. Publish \/ EndLive \/ Abandon => Kept
  BY DEF Publish, EndLive, Abandon, Forget
<1>9. ASSUME NEW market, NEW limit, RouteEntries(market, limit) PROVE Kept
  BY <1>9 DEF RouteEntries
<1>10. ASSUME NEW closed, RouteExits(closed) PROVE Kept
  BY <1>10 DEF RouteExits, Forget
<1>11. UNCHANGED vars => Kept
  BY DEF vars
<1>12. Kept => PaperOffersOnce'
  BY DEF PaperOffersOnce
<1> HIDE DEF Kept
<1> QED
  BY <1>1, <1>2, <1>3, <1>4, <1>5, <1>6, <1>7, <1>8, <1>9, <1>10, <1>11, <1>12 DEF Next


\* In paper mode a symbol is offered to the agents once a cycle, whichever of the
\* rankings list it.
THEOREM OneOfferPerSymbol == Spec => []PaperOffersOnce
<1>1. Init => PaperOffersOnce
  BY DEF Init, PaperOffersOnce
<1> QED
  BY <1>1, NextOffersOnce, PTL DEF Spec
=============================================================================
