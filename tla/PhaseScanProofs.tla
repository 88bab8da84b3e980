-------------------------- MODULE PhaseScanProofs --------------------------
(***************************************************************************)
(* Type correctness of PhaseScan, that no stake is counted twice, that a   *)
(* resumed scan misses nothing it was not meant to, that the totals of the *)
(* phases keep their bounds, and that a scan nothing disturbed is exact:   *)
(* for every chain, phases, batch size and number of errors and restarts.  *)
(***************************************************************************)
EXTENDS PhaseScan, SumTheorems, FiniteSetTheorems, TLAPS

-----------------------------------------------------------------------------
\* Facts about the helpers

LEMMA PhaseFacts ==
    /\ Phases \subseteq Nat \ {0}
    /\ \A p \in Phases : Starts[p] \in Nat \ {0} /\ LastOf(p) \in Int
<1>1. Cardinality(Phases) \in Nat /\ Phases = 1..Cardinality(Phases)
  BY FS_CardinalityType, ConstantsAssumption DEF ConstantsAssumption
<1>2. Phases \subseteq Nat \ {0}
  BY <1>1
<1>3. \A p \in Phases : Starts[p] \in Nat \ {0}
  BY ConstantsAssumption DEF ConstantsAssumption
<1>4. \A p \in Phases : LastOf(p) \in Int
  BY <1>2, <1>3, ConstantsAssumption DEF ConstantsAssumption, LastOf
<1> QED BY <1>2, <1>3, <1>4

\* PhaseAt answers a phase that holds the height, or none when none does.
LEMMA PhaseAtFact ==
    \A h \in Nat : \/ /\ PhaseAt(h) \in Phases
                      /\ h \in Starts[PhaseAt(h)]..LastOf(PhaseAt(h))
                   \/ /\ PhaseAt(h) = NoPhase
                      /\ ~ \E p \in Phases : h \in Starts[p]..LastOf(p)
<1> TAKE h \in Nat
<1>1. CASE \E p \in Phases : h \in Starts[p]..LastOf(p)
  <2> DEFINE q == CHOOSE p \in Phases : h \in Starts[p]..LastOf(p)
  <2>1. q \in Phases /\ h \in Starts[q]..LastOf(q)
    BY <1>1
  <2>2. PhaseAt(h) = q
    BY <1>1 DEF PhaseAt
  <2> QED BY <2>1, <2>2
<1>2. CASE ~ \E p \in Phases : h \in Starts[p]..LastOf(p)
  BY <1>2 DEF PhaseAt
<1> QED BY <1>1, <1>2

\* Between a height in no phase and the next phase there is no phase.
LEMMA GapFact ==
    ASSUME NEW h \in Nat, PhaseAt(h) = NoPhase, NEW p \in NextPhase(h),
           NEW g \in Nat, h <= g, g < Starts[p]
    PROVE  PhaseAt(g) = NoPhase
<1>1. p \in Phases /\ \A q \in PhasesAfter(h) : Starts[p] <= Starts[q]
  BY DEF NextPhase, PhasesAfter
<1>2. ~ \E q \in Phases : h \in Starts[q]..LastOf(q)
  BY PhaseAtFact, PhaseFacts DEF NoPhase
<1>3. ASSUME NEW q \in Phases, g \in Starts[q]..LastOf(q) PROVE FALSE
  <2>1. CASE Starts[q] > h
    BY <1>1, <1>3, <2>1, PhaseFacts DEF PhasesAfter
  <2>2. CASE ~(Starts[q] > h)
    BY <1>2, <1>3, <2>2, PhaseFacts
  <2> QED BY <2>1, <2>2
<1> QED BY <1>3, PhaseAtFact, PhaseFacts

\* n of Costs(n) is a number.
LEMMA SpanCardinality ==
    \A a, b \in Int : \A S \in SUBSET (a..b) : Cardinality(S) \in Nat
<1> TAKE a, b \in Int
<1> TAKE S \in SUBSET (a..b)
<1>1. IsFiniteSet(a..b)
  BY FS_Interval
<1> QED BY <1>1, FS_Subset, FS_CardinalityType

LEMMA SpanNat == \A a \in Nat, b \in Int : a..b \subseteq Nat
OBVIOUS

LEMMA PhaseCardinality ==
    ASSUME NEW P \in SUBSET Phases
    PROVE  Cardinality(P) \in Nat
BY FS_Subset, FS_CardinalityType, ConstantsAssumption DEF ConstantsAssumption

LEMMA CapsInt == EndHeight \in Nat /\ PhasesEnd \in Nat /\ BatchSize \in Nat \ {0}
BY ConstantsAssumption DEF ConstantsAssumption

\* A batch starts at height and ends at or after it, at a number.
LEMMA BatchEndFact ==
    ASSUME height \in Nat, until \in Int, height <= until
    PROVE  BatchEnd \in Nat /\ height <= BatchEnd
BY CapsInt DEF BatchEnd

-----------------------------------------------------------------------------
\* Type correctness.  until may be below 0 only if the last phase is empty, so
\* its type needs the ends of the phases.

LEMMA LastOfNat == \A p \in Phases : LastOf(p) \in Nat
BY PhaseFacts, ConstantsAssumption DEF ConstantsAssumption, LastOf

LEMMA AskedForFact == \A dark : AskedFor(dark) \subseteq Phases
BY ConstantsAssumption DEF ConstantsAssumption, AskedFor

LEMMA UpdatesForFact == \A T \in SUBSET Txs : UpdatesFor(T) \subseteq Updates
<1> TAKE T \in SUBSET Txs
<1>1. \A t \in T : DocsOf(t) \subseteq Docs
  BY DEF Docs, DocsOf
<1>2. ASSUME NEW d \in UNION {DocsOf(t) : t \in T}
      PROVE  [doc |-> d, txs |-> {t \in T : d \in DocsOf(t)}, read |-> FALSE,
              seen |-> {}] \in Updates
  <2>1. d \in Docs
    BY <1>1
  <2>2. {t \in T : d \in DocsOf(t)} \subseteq Txs
    OBVIOUS
  <2> HIDE DEF Docs
  <2> QED BY <2>1, <2>2 DEF Updates
<1> QED BY <1>2 DEF UpdatesFor

LEMMA UpdatesForNone == UpdatesFor({}) = {}
BY DEF UpdatesFor

LEMMA TxFacts == Block \in [Txs -> Nat \ {0}]
BY ConstantsAssumption DEF ConstantsAssumption

LEMMA PhaseNowFact ==
    ASSUME height \in Nat, target \in Reindexed \cup {NoPhase}
    PROVE  PhaseNow \in Phases \cup {NoPhase}
BY PhaseAtFact, ConstantsAssumption DEF ConstantsAssumption, PhaseNow

\* What the rest of the proofs needs to know of a batch just fetched.
LEMMA FetchFacts ==
    ASSUME TypeOK, Fetch
    PROVE  /\ BatchEnd \in Nat /\ height <= BatchEnd
           /\ faults' \in Nat /\ known' \subseteq Phases
           /\ curPhase' \in Phases \cup {NoPhase}
           /\ batch' \in [phase : Phases, end : {BatchEnd}, stop : height..BatchEnd,
                          jump : Nat, txs : SUBSET Txs, at : {height}]
           /\ passed \subseteq passed' /\ passed' \subseteq Nat
           /\ \A t \in Txs : Block[t] \in height..BatchEnd
                             /\ PhaseAt(Block[t]) # NoPhase
                => t \in batch'.txs \/ Block[t] \in passed'
           /\ \/ pc' = "insert" /\ height' = height
              \/ batch'.txs = {} /\ pc' = "count" /\ height' = height
              \/ batch'.txs = {} /\ pc' = "top" /\ height' = BatchEnd + 1
<1> USE DEF TypeOK, StoreTyped, LoopTyped
<1>1. PICK stop \in height..BatchEnd, ok \in SUBSET Phases,
           dark \in SUBSET (height..BatchEnd) : Fetch!2!(stop, ok, dark)
  BY DEF Fetch
<1> DEFINE p     == PhaseNow
           here  == IF p # curPhase THEN {p} ELSE {}
           next  == IF Breaks(p, stop) THEN NextPhase(stop) ELSE {}
           tot   == [total EXCEPT ![p] = IF p \in here \cap ok THEN 0 ELSE @]
           blank == {h \in height..BatchEnd : Paramless(h, dark, tot)}
           seen  == (height..stop) \ blank
           found == {t \in TxsAt(seen) : PhaseAt(Block[t]) # NoPhase}
<1>2. BatchEnd \in Nat /\ height <= BatchEnd
  BY BatchEndFact DEF Fetch
<1>3. p \in Phases /\ here \subseteq Phases /\ next \subseteq Phases
  BY PhaseNowFact DEF Fetch, NextPhase, PhasesAfter
<1>4. faults' \in Nat
  <2>1. Cardinality(dark) \in Nat
    <3>1. height \in Int /\ BatchEnd \in Int /\ dark \in SUBSET (height..BatchEnd)
      BY <1>2
    <3> QED BY ONLY <3>1, SpanCardinality
  <2>2. Cardinality((here \cup next) \ ok) \in Nat
    BY <1>3, PhaseCardinality
  <2>3. faults' = faults + (Cardinality(dark) + Cardinality((here \cup next) \ ok))
    BY <1>1 DEF Costs
  <2> QED BY <2>1, <2>2, <2>3
<1>5. known' \subseteq Phases
  BY <1>1, AskedForFact DEF InitPhaseStats
<1>6. curPhase' \in Phases \cup {NoPhase}
  <2>1. curPhase' = IF next \cap ok # {} THEN CHOOSE q \in next \cap ok : TRUE
                    ELSE IF here \cap ok # {} THEN p ELSE curPhase
    BY <1>1
  <2>2. next \cap ok # {} => (CHOOSE q \in next \cap ok : TRUE) \in Phases
    BY <1>3
  <2> QED BY <2>1, <2>2, <1>3
<1>7. /\ batch' = [phase |-> p, end |-> BatchEnd, stop |-> stop,
                   jump |-> IF next = {} THEN 0
                            ELSE Starts[CHOOSE q \in next : TRUE],
                   txs |-> found, at |-> height]
      /\ passed' = passed \cup blank \cup (stop + 1)..BatchEnd
  BY <1>1
<1>8. (IF next = {} THEN 0 ELSE Starts[CHOOSE q \in next : TRUE]) \in Nat
  <2>1. next # {} => (CHOOSE q \in next : TRUE) \in Phases
    BY <1>3
  <2> QED BY <2>1, PhaseFacts
<1>9. found \subseteq Txs
  BY DEF TxsAt
<1>10. batch' \in [phase : Phases, end : {BatchEnd}, stop : height..BatchEnd,
                   jump : Nat, txs : SUBSET Txs, at : {height}]
  BY <1>3, <1>7, <1>8, <1>9
<1>11. passed \subseteq passed' /\ passed' \subseteq Nat
  <2>1. blank \subseteq height..BatchEnd
    OBVIOUS
  <2>2. height..BatchEnd \subseteq Nat /\ (stop + 1)..BatchEnd \subseteq Nat
    <3>1. stop \in Nat /\ stop + 1 \in Nat
      BY <1>2
    <3> QED BY <1>2, <3>1, SpanNat
  <2>3. passed \subseteq Nat
    OBVIOUS
  <2> HIDE DEF blank
  <2> QED BY ONLY <2>1, <2>2, <2>3, <1>7
<1>12. ASSUME NEW t \in Txs, Block[t] \in height..BatchEnd, PhaseAt(Block[t]) # NoPhase
       PROVE  t \in batch'.txs \/ Block[t] \in passed'
  <2>1. Block[t] \in blank \/ Block[t] \in (stop + 1)..BatchEnd \/ Block[t] \in seen
    BY <1>2, <1>12
  <2>2. Block[t] \in seen => t \in found
    BY <1>12 DEF TxsAt
  <2> QED BY <2>1, <2>2, <1>7
<1>13. \/ pc' = "insert" /\ height' = height
       \/ found = {} /\ pc' = "count" /\ height' = height
       \/ found = {} /\ pc' = "top" /\ height' = BatchEnd + 1
  <2>1. AfterBatch(batch') = BatchEnd + 1
    BY <1>7 DEF AfterBatch
  <2>2. \/ found # {} /\ pc' = "insert" /\ UNCHANGED height
        \/ found = {} /\ seen \cap Invalid # {} /\ pc' = "count" /\ UNCHANGED height
        \/ found = {} /\ seen \cap Invalid = {} /\ pc' = "top"
           /\ height' = AfterBatch(batch')
    BY <1>1
  <2> QED BY ONLY <2>1, <2>2
<1>14. batch'.txs = found
  BY <1>7
<1> HIDE DEF found
<1> QED BY <1>2, <1>4, <1>5, <1>6, <1>10, <1>11, <1>12, <1>13, <1>14

LEMMA NextSplit ==
    ASSUME [Next]_vars
    PROVE  \/ Start \/ Finish \/ SkipToPhase \/ Fetch \/ FetchFails
           \/ Insert \/ InsertFails \/ DocsDone
           \/ (\E u \in updates \cup strays : ReadDoc(u) \/ WriteDoc(u))
           \/ (\E u \in updates : DocFails(u)) \/ (\E u \in strays : StrayFails(u))
           \/ FlagTxs \/ NoPhaseStats \/ IncStats \/ Mark \/ CountFails
           \/ Crash \/ UNCHANGED vars
BY DEF Next, Scan

LEMMA GiveUpNat ==
    ASSUME TypeOK, GiveUp
    PROVE  passed' \subseteq Nat
<1>1. passed \subseteq Nat /\ height \in Nat /\ batch.end \in Nat
  BY DEF TypeOK, StoreTyped, LoopTyped
<1>2. height..batch.end \subseteq Nat
  BY <1>1, SpanNat
<1> QED BY <1>1, <1>2 DEF GiveUp

LEMMA StoreTypedStep ==
    ASSUME TypeOK, [Next]_vars
    PROVE  StoreTyped'
<1> USE DEF TypeOK, StoreTyped, LoopTyped, BatchInOrder, InBatch, Costs, mongo, scan
<1>1. CASE Start
  <2>1. PICK p \in Reindexed \cup {NoPhase} :
              \E ok \in SUBSET (IF p = NoPhase THEN Phases ELSE {p}) :
                /\ Costs(IF p = NoPhase THEN Cardinality(Phases \ ok)
                         ELSE Cardinality({p} \ ok))
                /\ InitPhaseStats(ok, {})
    BY <1>1 DEF Start
  <2>2. Reindexed \subseteq Phases
    BY ConstantsAssumption DEF ConstantsAssumption
  <2>3. PICK ok \in SUBSET (IF p = NoPhase THEN Phases ELSE {p}) :
                /\ Costs(IF p = NoPhase THEN Cardinality(Phases \ ok)
                         ELSE Cardinality({p} \ ok))
                /\ InitPhaseStats(ok, {})
    BY <2>1
  <2>4. /\ p = NoPhase => Cardinality(Phases \ ok) \in Nat
        /\ p # NoPhase => Cardinality({p} \ ok) \in Nat
    BY <2>2, PhaseCardinality
  <2>5. faults' \in Nat
    BY <2>3, <2>4
  <2>6. known' \subseteq Phases
    BY <2>2, <2>3 DEF InitPhaseStats
  <2>7. passed' \subseteq Nat
    <3>1. PICK q \in Reindexed \cup {NoPhase} : passed' = passed \cup Skipped(q)
      BY <1>1 DEF Start
    <3>2. q # NoPhase => Starts[q] \in Nat
      BY <2>2, <3>1, PhaseFacts
    <3>3. Skipped(q) \subseteq Nat
      BY <3>2 DEF Skipped
    <3> QED BY <3>1, <3>3
  <2> QED BY <1>1, <2>5, <2>6, <2>7 DEF Start
<1>2. CASE Finish
  BY <1>2 DEF Finish
<1>3. CASE SkipToPhase
  <2>1. known' \subseteq Phases /\ faults' \in Nat
    BY <1>3 DEF SkipToPhase, NextPhase, PhasesAfter, InitPhaseStats
  <2> QED BY <1>3, <2>1 DEF SkipToPhase
<1>4. CASE Fetch
  BY <1>4, FetchFacts DEF Fetch
<1>5. CASE FetchFails
  <2>1. PhaseNow \in Phases
    BY <1>5, PhaseNowFact DEF FetchFails
  <2>2. known' \subseteq Phases /\ faults' \in Nat
    BY <1>5, <2>1, AskedForFact DEF FetchFails, InitPhaseStats
  <2>3. passed' \subseteq Nat
    <3>1. height..BatchEnd \subseteq Nat
      BY <1>5, BatchEndFact, SpanNat DEF FetchFails
    <3> QED BY <1>5, <3>1 DEF FetchFails
  <2> QED BY <1>5, <2>2, <2>3 DEF FetchFails
<1>6. CASE Insert
  <2>1. Fresh \subseteq Txs
    BY DEF Fresh
  <2> QED BY <1>6, <2>1, UpdatesForFact DEF Insert
<1>7. CASE InsertFails
  <2>1. stored' \subseteq Txs
    BY <1>7 DEF InsertFails, Fresh
  <2>2. passed' \subseteq Nat
    BY <1>7, GiveUpNat DEF InsertFails
  <2> QED BY <1>7, <2>1, <2>2 DEF InsertFails, GiveUp
<1>8. CASE DocsDone
  BY <1>8 DEF DocsDone
<1>9. CASE FlagTxs
  <2>1. flagged' \subseteq Txs
    BY <1>9 DEF FlagTxs, Counted
  <2> QED BY <1>9, <2>1 DEF FlagTxs
<1>10. CASE NoPhaseStats
  <2>1. passed' \subseteq Nat
    BY <1>10, GiveUpNat DEF NoPhaseStats
  <2> QED BY <1>10, <2>1 DEF NoPhaseStats, GiveUp
<1>11. CASE IncStats
  BY <1>11 DEF IncStats
<1>12. CASE Mark
  BY <1>12 DEF Mark, AfterBatch, MoreHeights
<1>13. CASE CountFails
  <2>1. flagged' \subseteq Txs
    BY <1>13 DEF CountFails, Counted
  <2>2. passed' \subseteq Nat
    BY <1>13, GiveUpNat DEF CountFails
  <2> QED BY <1>13, <2>1, <2>2 DEF CountFails, GiveUp
<1>14. CASE Crash
  BY <1>14 DEF Crash, NoBatch, NoPhase
<1>15. ASSUME NEW u \in updates \cup strays, ReadDoc(u) PROVE StoreTyped'
  <2> DEFINE v == [u EXCEPT !.read = TRUE, !.seen = merged[u.doc]]
  <2>1. u \in Updates
    OBVIOUS
  <2>2. v \in Updates
    BY <2>1 DEF Updates
  <2>3. updates' \subseteq Updates /\ strays' \subseteq Updates
    BY <1>15, <2>2 DEF ReadDoc
  <2> QED BY <1>15, <2>3 DEF ReadDoc
<1>16. ASSUME NEW u \in updates \cup strays, WriteDoc(u) PROVE StoreTyped'
  <2>1. u.doc \in Docs /\ u.txs \subseteq Txs /\ u.seen \subseteq Txs
    BY DEF Updates
  <2>2. [t \in Txs |-> IF t \in u.txs THEN times[u.doc][t] + 1 ELSE times[u.doc][t]]
          \in [Txs -> Nat]
    BY <2>1
  <2>3. times' \in [Docs -> [Txs -> Nat]]
    BY <1>16, <2>2 DEF WriteDoc
  <2>4. merged' \in [Docs -> SUBSET Txs]
    BY <1>16, <2>1 DEF WriteDoc, MergedStakes
  <2> QED BY <1>16, <2>3, <2>4 DEF WriteDoc
<1>17. ASSUME NEW u \in updates, DocFails(u) PROVE StoreTyped'
  <2>1. updates' \subseteq Updates /\ strays' \subseteq Updates
    BY <1>17 DEF DocFails
  <2>2. passed' \subseteq Nat
    BY <1>17, GiveUpNat DEF DocFails
  <2> QED BY <1>17, <2>1, <2>2 DEF DocFails, GiveUp
<1>18. ASSUME NEW u \in strays, StrayFails(u) PROVE StoreTyped'
  BY <1>18 DEF StrayFails
<1>19. CASE UNCHANGED vars
  BY <1>19 DEF vars
<1> QED BY <1>1, <1>2, <1>3, <1>4, <1>5, <1>6, <1>7, <1>8, <1>9, <1>10, <1>11,
           <1>12, <1>13, <1>14, <1>15, <1>16, <1>17, <1>18, <1>19, NextSplit

LEMMA LoopTypedStep ==
    ASSUME TypeOK, [Next]_vars
    PROVE  LoopTyped'
<1> USE DEF TypeOK, StoreTyped, LoopTyped, BatchInOrder, InBatch, Costs, mongo, scan
<1>1. CASE Start
  <2>1. Reindexed \subseteq Phases
    BY ConstantsAssumption DEF ConstantsAssumption
  <2>2. height' \in Nat /\ until' \in Nat /\ target' \in Reindexed \cup {NoPhase}
    BY <1>1, <2>1, CapsInt, PhaseFacts, LastOfNat DEF Start
  <2> QED BY <1>1, <2>2 DEF Start, NoBatch, NoPhase
<1>2. CASE Finish
  BY <1>2 DEF Finish
<1>3. CASE SkipToPhase
  <2>1. NextPhase(height) \subseteq Phases
    BY DEF NextPhase, PhasesAfter
  <2>2. height' \in Nat /\ curPhase' \in Phases \cup {NoPhase}
    BY <1>3, <2>1, PhaseFacts DEF SkipToPhase
  <2> QED BY <1>3, <2>2 DEF SkipToPhase, NoBatch, NoPhase
<1>4. CASE Fetch
  <2>1. batch' \in [phase : Phases \cup {NoPhase}, end : Nat, stop : Nat,
                     jump : Nat, txs : SUBSET Txs, at : Nat]
    <3>1. BatchEnd \in Nat /\ height..BatchEnd \subseteq Nat
      BY <1>4, FetchFacts, SpanNat
    <3> QED BY <1>4, <3>1, FetchFacts
  <2>2. /\ pc' \in {"insert", "count", "top"} /\ height' \in Nat
        /\ curPhase' \in Phases \cup {NoPhase}
    BY <1>4, FetchFacts
  <2>3. UNCHANGED <<target, until, over>>
    BY <1>4 DEF Fetch
  <2> QED BY <2>1, <2>2, <2>3
<1>5. CASE FetchFails
  <2>1. PhaseNow \in Phases
    BY <1>5, PhaseNowFact DEF FetchFails
  <2>2. height' \in Nat /\ curPhase' \in Phases \cup {NoPhase}
    BY <1>5, <2>1, BatchEndFact DEF FetchFails
  <2> QED BY <1>5, <2>2 DEF FetchFails, NoBatch, NoPhase
<1>6. CASE Insert
  BY <1>6 DEF Insert
<1>7. CASE InsertFails
  BY <1>7 DEF InsertFails, GiveUp, AfterBatch
<1>8. CASE DocsDone
  BY <1>8 DEF DocsDone
<1>9. CASE FlagTxs
  <2>1. Overflowing(batch.phase, Counted) \subseteq Txs
    BY DEF Overflowing, Counted
  <2> QED BY <1>9, <2>1 DEF FlagTxs
<1>10. CASE NoPhaseStats
  BY <1>10 DEF NoPhaseStats, GiveUp, AfterBatch
<1>11. CASE IncStats
  BY <1>11 DEF IncStats
<1>12. CASE Mark
  BY <1>12 DEF Mark, AfterBatch, MoreHeights
<1>13. CASE CountFails
  BY <1>13 DEF CountFails, GiveUp, AfterBatch
<1>14. CASE Crash
  BY <1>14 DEF Crash, NoBatch, NoPhase
<1>15. ASSUME NEW u \in updates \cup strays, ReadDoc(u) PROVE LoopTyped'
  BY <1>15 DEF ReadDoc, Updates
<1>16. ASSUME NEW u \in updates \cup strays, WriteDoc(u) PROVE LoopTyped'
  BY <1>16 DEF WriteDoc, Updates
<1>17. ASSUME NEW u \in updates, DocFails(u) PROVE LoopTyped'
  BY <1>17 DEF DocFails, GiveUp, AfterBatch
<1>18. ASSUME NEW u \in strays, StrayFails(u) PROVE LoopTyped'
  BY <1>18 DEF StrayFails
<1>19. CASE UNCHANGED vars
  BY <1>19 DEF vars
<1> QED BY <1>1, <1>2, <1>3, <1>4, <1>5, <1>6, <1>7, <1>8, <1>9, <1>10, <1>11,
           <1>12, <1>13, <1>14, <1>15, <1>16, <1>17, <1>18, <1>19, NextSplit

LEMMA BatchInOrderStep ==
    ASSUME TypeOK, [Next]_vars
    PROVE  BatchInOrder'
<1> USE DEF TypeOK, StoreTyped, LoopTyped, BatchInOrder, InBatch, Costs, mongo, scan
<1>1. CASE Start
  BY <1>1 DEF Start, NoBatch
<1>2. CASE Finish
  BY <1>2 DEF Finish
<1>3. CASE SkipToPhase
  BY <1>3 DEF SkipToPhase, NoBatch
<1>4. CASE Fetch
  BY <1>4, FetchFacts, PhaseFacts DEF Fetch, NoPhase
<1>5. CASE FetchFails
  BY <1>5 DEF FetchFails, NoBatch
<1>6. CASE Insert
  BY <1>6, UpdatesForNone DEF Insert
<1>7. CASE InsertFails
  BY <1>7 DEF InsertFails, GiveUp, AfterBatch
<1>8. CASE DocsDone
  BY <1>8 DEF DocsDone
<1>9. CASE FlagTxs
  BY <1>9 DEF FlagTxs
<1>10. CASE NoPhaseStats
  BY <1>10 DEF NoPhaseStats, GiveUp, AfterBatch
<1>11. CASE IncStats
  BY <1>11 DEF IncStats
<1>12. CASE Mark
  BY <1>12 DEF Mark, AfterBatch, MoreHeights
<1>13. CASE CountFails
  BY <1>13 DEF CountFails, GiveUp, AfterBatch
<1>14. CASE Crash
  BY <1>14 DEF Crash, NoBatch, NoPhase
<1>15. ASSUME NEW u \in updates \cup strays, ReadDoc(u) PROVE BatchInOrder'
  BY <1>15 DEF ReadDoc, Updates
<1>16. ASSUME NEW u \in updates \cup strays, WriteDoc(u) PROVE BatchInOrder'
  BY <1>16 DEF WriteDoc, Updates
<1>17. ASSUME NEW u \in updates, DocFails(u) PROVE BatchInOrder'
  BY <1>17 DEF DocFails, GiveUp, AfterBatch
<1>18. ASSUME NEW u \in strays, StrayFails(u) PROVE BatchInOrder'
  BY <1>18 DEF StrayFails
<1>19. CASE UNCHANGED vars
  BY <1>19 DEF vars
<1> QED BY <1>1, <1>2, <1>3, <1>4, <1>5, <1>6, <1>7, <1>8, <1>9, <1>10, <1>11,
           <1>12, <1>13, <1>14, <1>15, <1>16, <1>17, <1>18, <1>19, NextSplit

\* Every variable keeps its type and the heights of a batch their order
\* (BabylonIndexer.scanBlocks).
THEOREM TypeCorrect == Spec => []TypeOK
<1>1. Init => TypeOK
  BY DEF Init, TypeOK, StoreTyped, LoopTyped, BatchInOrder, InBatch, NoBatch, NoPhase
<1>2. TypeOK /\ [Next]_vars => TypeOK'
  BY StoreTypedStep, LoopTypedStep, BatchInOrderStep DEF TypeOK
<1> QED BY <1>1, <1>2, PTL DEF Spec
-----------------------------------------------------------------------------
\* No stake is counted twice.  Besides the property the invariant says what an
\* update in flight holds: stored stakes of its document not counted yet, which
\* no other update of the document holds.

Sound(u) == \A t \in u.txs : /\ t \in stored /\ u.doc \in DocsOf(t)
                             /\ times[u.doc][t] = 0

\* Two updates of one document share no stake.
Apart(u, v) == u.doc = v.doc => u.txs \cap v.txs = {}

CountInv ==
    /\ NeverCountedTwice
    /\ \A u \in updates : Sound(u)
    /\ \A u \in strays : Sound(u)
    /\ \A u, v \in updates : u = v \/ Apart(u, v)
    /\ \A u, v \in strays : u = v \/ Apart(u, v)
    /\ \A u \in updates, v \in strays : Apart(u, v)

LEMMA UpdatesForSound ==
    ASSUME NEW T, NEW u \in UpdatesFor(T)
    PROVE  u.txs = {t \in T : u.doc \in DocsOf(t)}
BY DEF UpdatesFor

\* A step that leaves the transactions and the documents alone, and starts no
\* update, keeps the invariant.
LEMMA CountQuiet ==
    ASSUME CountInv, UNCHANGED times, stored \subseteq stored',
           updates' \subseteq updates, strays' \subseteq updates \cup strays,
           updates' = {} \/ strays' \subseteq strays
    PROVE  CountInv'
<1> USE DEF CountInv, Apart
<1>1. NeverCountedTwice'
  BY DEF NeverCountedTwice
<1>2. (\A u \in updates : Sound(u))' /\ (\A u \in strays : Sound(u))'
  BY DEF Sound
<1>3. (\A u, v \in updates : u = v \/ Apart(u, v))'
  OBVIOUS
<1>4. (\A u, v \in strays : u = v \/ Apart(u, v))'
  OBVIOUS
<1>5. (\A u \in updates, v \in strays : Apart(u, v))'
  OBVIOUS
<1> QED BY <1>1, <1>2, <1>3, <1>4, <1>5

LEMMA CountInvStep ==
    ASSUME TypeOK, CountInv, [Next]_vars
    PROVE  CountInv'
<1>1. CASE Insert
  <2>1. Fresh \subseteq Txs /\ Fresh \cap stored = {} /\ updates = {}
    BY <1>1 DEF Insert, Fresh, TypeOK, LoopTyped, BatchInOrder
  <2>2. stored' = stored \cup Fresh /\ updates' = UpdatesFor(Fresh)
        /\ UNCHANGED <<times, strays>>
    BY <1>1 DEF Insert
  <2>3. ASSUME NEW u \in updates' PROVE Sound(u)'
    <3>1. u \in Updates /\ u.txs = {t \in Fresh : u.doc \in DocsOf(t)}
      BY <2>1, <2>2, <2>3, UpdatesForSound, UpdatesForFact
    <3>2. ASSUME NEW t \in u.txs PROVE times[u.doc][t] = 0
      <4>1. u.doc \in Docs /\ t \in Txs /\ t \notin stored
        BY <2>1, <3>1, <3>2 DEF Updates
      <4>2. times[u.doc][t] \in Nat
        BY <4>1 DEF TypeOK, StoreTyped
      <4> QED BY <4>1, <4>2 DEF CountInv, NeverCountedTwice
    <3> QED BY <2>2, <3>1, <3>2 DEF Sound
  <2>4. ASSUME NEW u \in updates', NEW v \in strays PROVE Apart(u, v)
    <3>1. u.txs \subseteq Fresh
      BY <2>2, <2>4, UpdatesForSound
    <3>2. v.txs \subseteq stored
      BY DEF CountInv, Sound
    <3> QED BY <2>1, <3>1, <3>2 DEF Apart
  <2>5. ASSUME NEW u \in updates', NEW v \in updates' PROVE u = v \/ Apart(u, v)
    <3>1. PICK d \in UNION {DocsOf(t) : t \in Fresh} :
            u = [doc |-> d, txs |-> {t \in Fresh : d \in DocsOf(t)},
                 read |-> FALSE, seen |-> {}]
      BY <2>2, <2>5 DEF UpdatesFor
    <3>2. PICK e \in UNION {DocsOf(t) : t \in Fresh} :
            v = [doc |-> e, txs |-> {t \in Fresh : e \in DocsOf(t)},
                 read |-> FALSE, seen |-> {}]
      BY <2>2, <2>5 DEF UpdatesFor
    <3>3. u.doc = d /\ v.doc = e
      BY <3>1, <3>2
    <3>4. d = e => u = v
      BY <3>1, <3>2
    <3> QED BY <3>3, <3>4 DEF Apart
  <2>6. NeverCountedTwice'
    BY <2>2 DEF CountInv, NeverCountedTwice
  <2>7. (\A u \in strays : Sound(u))'
    BY <2>2 DEF CountInv, Sound
  <2>8. (\A u, v \in strays : u = v \/ Apart(u, v))'
    BY <2>2 DEF CountInv, Apart
  <2>9. (\A u \in updates, v \in strays : Apart(u, v))'
    BY <2>2, <2>4 DEF Apart
  <2>10. (\A u, v \in updates : u = v \/ Apart(u, v))'
    BY <2>5 DEF Apart
  <2> QED BY <2>3, <2>6, <2>7, <2>8, <2>9, <2>10 DEF CountInv
<1>2. ASSUME NEW u \in updates \cup strays, ReadDoc(u) PROVE CountInv'
  <2> DEFINE v == [u EXCEPT !.read = TRUE, !.seen = merged[u.doc]]
  <2>1. u \in Updates
    BY DEF TypeOK, StoreTyped
  <2>2. v.doc = u.doc /\ v.txs = u.txs
    BY <2>1 DEF Updates
  <2>3. UNCHANGED <<stored, times>>
    BY <1>2 DEF ReadDoc, mongo
  <2>4. \/ /\ u \in updates /\ updates' = (updates \ {u}) \cup {v}
           /\ strays' = strays
        \/ /\ u \in strays /\ strays' = (strays \ {u}) \cup {v}
           /\ updates' = updates
    BY <1>2 DEF ReadDoc
  <2> HIDE DEF v
  <2>5. NeverCountedTwice'
    BY <2>3 DEF CountInv, NeverCountedTwice
  <2>6. Sound(u) => Sound(v)
    BY <2>2 DEF Sound
  <2>7. \A w \in updates \cup strays \cup {v} : Sound(w)
    BY <2>6 DEF CountInv
  <2>8. (\A w \in updates : Sound(w))' /\ (\A w \in strays : Sound(w))'
    BY <2>3, <2>4, <2>7 DEF Sound
  <2>9. \A w : (Apart(u, w) => Apart(v, w)) /\ (Apart(w, u) => Apart(w, v))
    BY <2>2 DEF Apart
  <2>10. \A w, x \in updates' : w = x \/ Apart(w, x)
    BY <2>4, <2>9 DEF CountInv
  <2>11. \A w, x \in strays' : w = x \/ Apart(w, x)
    BY <2>4, <2>9 DEF CountInv
  <2>12. \A w \in updates', x \in strays' : Apart(w, x)
    BY <2>4, <2>9 DEF CountInv
  <2> QED BY <2>5, <2>8, <2>10, <2>11, <2>12 DEF CountInv, Apart
<1>3. ASSUME NEW u \in updates \cup strays, WriteDoc(u) PROVE CountInv'
  <2>1. u.doc \in Docs /\ u.txs \subseteq Txs /\ Sound(u)
    BY DEF TypeOK, StoreTyped, Updates, CountInv
  <2>2. \A d \in Docs, t \in Txs :
          times'[d][t] = IF d = u.doc /\ t \in u.txs THEN times[d][t] + 1
                         ELSE times[d][t]
    BY <1>3, <2>1 DEF WriteDoc, TypeOK, StoreTyped
  <2>3. /\ stored' = stored /\ updates' = updates \ {u} /\ strays' = strays \ {u}
    BY <1>3 DEF WriteDoc
  <2>4. NeverCountedTwice'
    BY <2>1, <2>2, <2>3 DEF CountInv, NeverCountedTwice, Sound
  <2>5. ASSUME NEW w \in updates' \cup strays' PROVE Sound(w)'
    <3>1. w \in Updates /\ Sound(w)
      BY <2>3 DEF TypeOK, StoreTyped, CountInv
    <3>2. Apart(u, w)
      BY <2>3 DEF CountInv, Apart
    <3>3. ASSUME NEW t \in w.txs PROVE times'[w.doc][t] = times[w.doc][t]
      BY <2>2, <3>1, <3>2, <3>3 DEF Updates, Apart
    <3> QED BY <2>3, <3>1, <3>3 DEF Sound
  <2> QED BY <2>3, <2>4, <2>5 DEF CountInv, Apart
<1>4. ASSUME NEW u \in updates, DocFails(u) PROVE CountInv'
  BY <1>4, CountQuiet DEF DocFails, mongo
<1>5. ASSUME NEW u \in strays, StrayFails(u) PROVE CountInv'
  BY <1>5, CountQuiet DEF StrayFails, mongo
<1>6. CASE Crash
  BY <1>6, CountQuiet DEF Crash, mongo
<1>7. CASE InsertFails
  BY <1>7, CountQuiet DEF InsertFails
<1>8. CASE Start
  BY <1>8, CountQuiet DEF Start
<1>9. CASE Finish
  BY <1>9, CountQuiet DEF Finish, mongo
<1>10. CASE SkipToPhase
  BY <1>10, CountQuiet DEF SkipToPhase
<1>11. CASE Fetch
  BY <1>11, CountQuiet DEF Fetch
<1>12. CASE FetchFails
  BY <1>12, CountQuiet DEF FetchFails
<1>13. CASE DocsDone
  BY <1>13, CountQuiet DEF DocsDone, mongo
<1>14. CASE FlagTxs
  BY <1>14, CountQuiet DEF FlagTxs
<1>15. CASE NoPhaseStats
  BY <1>15, CountQuiet DEF NoPhaseStats, mongo
<1>16. CASE IncStats
  BY <1>16, CountQuiet DEF IncStats
<1>17. CASE Mark
  BY <1>17, CountQuiet DEF Mark
<1>18. CASE CountFails
  BY <1>18, CountQuiet DEF CountFails
<1>19. CASE UNCHANGED vars
  BY <1>19, CountQuiet DEF vars, mongo
<1> QED BY <1>1, <1>2, <1>3, <1>4, <1>5, <1>6, <1>7, <1>8, <1>9, <1>10, <1>11,
           <1>12, <1>13, <1>14, <1>15, <1>16, <1>17, <1>18, <1>19, NextSplit

\* No stored stake is counted twice for its provider or its staker
\* (TransactionService.saveTransactionBatch).
THEOREM NeverCountedTwiceHolds == Spec => []NeverCountedTwice
<1>1. Init => CountInv
  BY DEF Init, CountInv, NeverCountedTwice
<1>2. TypeOK /\ CountInv /\ [Next]_vars => CountInv'
  BY CountInvStep
<1>3. CountInv => NeverCountedTwice
  BY DEF CountInv
<1> QED BY <1>1, <1>2, <1>3, TypeCorrect, PTL DEF Spec

-----------------------------------------------------------------------------
\* A resumed scan misses nothing.  The invariant follows the cursor: what is
\* below height is settled, and from the insert on what is in the batch too.

Settled(t) == t \in stored \/ Block[t] \in passed

Staked == {t \in Txs : PhaseAt(Block[t]) # NoPhase}

CoverInv ==
    /\ \A t \in Staked : Block[t] <= lastProcessed => Settled(t)
    /\ pc = "top" \/ InBatch => \A t \in Staked : Block[t] < height => Settled(t)
    /\ pc = "insert" => \A t \in Staked : Block[t] \in height..batch.end
                                             => Settled(t) \/ t \in batch.txs
    /\ InBatch /\ pc # "insert" =>
         \A t \in Staked : Block[t] \in height..batch.end => Settled(t)

\* What is settled stays settled.
LEMMA SettledStays ==
    ASSUME stored \subseteq stored', passed \subseteq passed', NEW t, Settled(t)
    PROVE  Settled(t)'
BY DEF Settled

\* Giving a batch up settles it.
LEMMA CoverGiveUp ==
    ASSUME TypeOK, CoverInv, InBatch, GiveUp, stored \subseteq stored',
           UNCHANGED lastProcessed
    PROVE  CoverInv'
<1>1. passed' = passed \cup height..batch.end /\ pc' = "top"
      /\ height' = batch.end + 1
  BY DEF GiveUp, AfterBatch
<1>2. height \in Nat /\ batch.end \in Nat
  BY DEF TypeOK, LoopTyped
<1>3. ASSUME NEW t \in Staked, Block[t] < height' PROVE Settled(t)'
  <2>1. Block[t] \in Nat
    BY TxFacts DEF Staked
  <2>2. CASE Block[t] < height
    BY <1>1, <2>2, SettledStays DEF CoverInv
  <2>3. CASE Block[t] \in height..batch.end
    BY <1>1, <2>3 DEF Settled
  <2> QED BY <1>1, <1>2, <1>3, <2>1, <2>2, <2>3
<1>4. ASSUME NEW t \in Staked, Block[t] <= lastProcessed PROVE Settled(t)'
  BY <1>1, <1>4, SettledStays DEF CoverInv
<1> QED BY <1>1, <1>3, <1>4 DEF CoverInv, InBatch, Staked

LEMMA CoverInvStep ==
    ASSUME TypeOK, CoverInv, [Next]_vars
    PROVE  CoverInv'
<1> USE DEF InBatch
<1>0. \A t \in Staked : Block[t] \in Nat
  BY TxFacts DEF Staked
<1>1. CASE Start
  <2>1. PICK p \in Reindexed \cup {NoPhase} :
              /\ height' = IF p = NoPhase THEN lastProcessed + 1 ELSE Starts[p]
              /\ passed' = passed \cup Skipped(p)
    BY <1>1 DEF Start
  <2>2. pc' = "top" /\ UNCHANGED <<stored, lastProcessed>>
    BY <1>1 DEF Start
  <2>3. lastProcessed \in Nat
    BY DEF TypeOK, StoreTyped
  <2>4. \A t \in Staked : Block[t] <= lastProcessed => Settled(t)'
    BY <2>1, <2>2, SettledStays DEF CoverInv
  <2>5. CASE p = NoPhase
    BY <1>0, <2>1, <2>2, <2>3, <2>4, <2>5 DEF CoverInv, Staked
  <2>6. CASE p # NoPhase
    <3>1. Starts[p] \in Nat
      BY <2>6, PhaseFacts, ConstantsAssumption DEF ConstantsAssumption
    <3>2. \A t \in Staked : Block[t] >= 1
      BY TxFacts, ConstantsAssumption DEF Staked, ConstantsAssumption
    <3>3. \A t \in Staked : Block[t] < height' => Block[t] \in Skipped(p)
      BY <1>0, <2>1, <2>6, <3>1, <3>2 DEF Skipped
    <3>4. \A t \in Staked : Block[t] < height' => Settled(t)'
      BY <2>1, <3>3 DEF Settled
    <3> QED BY <2>2, <2>4, <3>4 DEF CoverInv, Staked
  <2> QED BY <2>5, <2>6
<1>2. CASE Finish
  BY <1>2 DEF Finish, mongo, CoverInv, Settled, Staked
<1>3. CASE SkipToPhase
  <2>1. PICK p \in NextPhase(height) : height' = Starts[p]
    BY <1>3 DEF SkipToPhase
  <2>2. /\ PhaseAt(height) = NoPhase /\ height \in Nat /\ Starts[p] \in Nat
        /\ pc = "top" /\ pc' = "top" /\ UNCHANGED <<stored, passed, lastProcessed>>
    BY <1>3, PhaseFacts
       DEF SkipToPhase, PhaseNow, TypeOK, LoopTyped, NextPhase, PhasesAfter
  <2>3. ASSUME NEW t \in Staked, Block[t] < height' PROVE Block[t] < height
    <3>1. ~(height <= Block[t])
      BY <1>0, <2>1, <2>2, <2>3, GapFact DEF Staked
    <3> QED BY <1>0, <2>2, <3>1
  <2> QED BY <2>2, <2>3 DEF CoverInv, Settled, Staked
<1>4. CASE Fetch
  <2>1. /\ BatchEnd \in Nat /\ height \in Nat /\ batch'.end = BatchEnd
        /\ pc = "top" /\ UNCHANGED <<stored, lastProcessed>>
        /\ passed \subseteq passed'
    BY <1>4, FetchFacts DEF Fetch, TypeOK, LoopTyped
  <2>2. ASSUME NEW t \in Staked, Settled(t) PROVE Settled(t)'
    BY <2>1, <2>2, SettledStays
  <2>3. ASSUME NEW t \in Staked, Block[t] \in height..BatchEnd
        PROVE  Settled(t)' \/ t \in batch'.txs
    BY <1>4, <2>3, FetchFacts DEF Staked, Settled
  <2>4. \A t \in Staked : Block[t] <= lastProcessed => Settled(t)'
    BY <2>2 DEF CoverInv
  <2>5. \A t \in Staked : Block[t] < height => Settled(t)'
    BY <2>1, <2>2 DEF CoverInv
  <2>6. CASE pc' = "insert" /\ height' = height
    BY <2>1, <2>3, <2>4, <2>5, <2>6 DEF CoverInv, Staked
  <2>7. CASE batch'.txs = {} /\ pc' = "count" /\ height' = height
    BY <2>1, <2>3, <2>4, <2>5, <2>7 DEF CoverInv, Staked
  <2>8. CASE batch'.txs = {} /\ pc' = "top" /\ height' = BatchEnd + 1
    <3>1. \A t \in Staked : Block[t] < height' => Settled(t)'
      BY <1>0, <2>1, <2>3, <2>5, <2>8
    <3> QED BY <2>1, <2>4, <2>8, <3>1 DEF CoverInv, Staked
  <2> QED BY <1>4, <2>6, <2>7, <2>8, FetchFacts
<1>5. CASE FetchFails
  <2>1. /\ pc = "top" /\ pc' = "top" /\ height' = BatchEnd + 1
        /\ passed' = passed \cup height..BatchEnd
        /\ UNCHANGED <<stored, lastProcessed>>
    BY <1>5 DEF FetchFails
  <2>2. BatchEnd \in Nat /\ height \in Nat
    BY <1>5, BatchEndFact DEF FetchFails, TypeOK, LoopTyped
  <2>3. ASSUME NEW t \in Staked, Block[t] < height' PROVE Settled(t)'
    <3>1. CASE Block[t] < height
      BY <2>1, <3>1, SettledStays DEF CoverInv
    <3>2. CASE Block[t] \in height..BatchEnd
      BY <2>1, <3>2 DEF Settled
    <3> QED BY <1>0, <2>1, <2>2, <2>3, <3>1, <3>2
  <2>4. \A t \in Staked : Block[t] <= lastProcessed => Settled(t)'
    BY <2>1, SettledStays DEF CoverInv
  <2> QED BY <2>1, <2>3, <2>4 DEF CoverInv, Staked
<1>6. CASE Insert
  <2>1. /\ stored' = stored \cup Fresh /\ pc = "insert" /\ pc' \in {"docs", "count"}
        /\ UNCHANGED <<lastProcessed, height, batch, passed>>
    BY <1>6 DEF Insert
  <2>2. \A t \in batch.txs : t \in stored'
    BY <2>1 DEF Fresh
  <2> QED BY <2>1, <2>2 DEF CoverInv, Settled, Staked
<1>7. CASE InsertFails
  BY <1>7, CoverGiveUp DEF InsertFails
<1>8. ASSUME NEW u \in updates \cup strays, ReadDoc(u) PROVE CoverInv'
  BY <1>8 DEF ReadDoc, mongo, scan, CoverInv, Settled, Staked
<1>9. ASSUME NEW u \in updates \cup strays, WriteDoc(u) PROVE CoverInv'
  BY <1>9 DEF WriteDoc, scan, CoverInv, Settled, Staked
<1>10. CASE DocsDone
  BY <1>10 DEF DocsDone, mongo, CoverInv, Settled, Staked
<1>11. ASSUME NEW u \in updates, DocFails(u) PROVE CoverInv'
  BY <1>11, CoverGiveUp DEF DocFails, mongo
<1>12. ASSUME NEW u \in strays, StrayFails(u) PROVE CoverInv'
  BY <1>12 DEF StrayFails, mongo, scan, CoverInv, Settled, Staked
<1>13. CASE FlagTxs
  BY <1>13 DEF FlagTxs, CoverInv, Settled, Staked
<1>14. CASE NoPhaseStats
  BY <1>14, CoverGiveUp DEF NoPhaseStats, mongo
<1>15. CASE IncStats
  BY <1>15 DEF IncStats, CoverInv, Settled, Staked
<1>16. CASE Mark
  <2>1. /\ height \in Nat /\ batch.end \in Nat /\ batch.at \in Nat
        /\ batch.at <= batch.end /\ batch.end = batch'.end
        /\ lastProcessed' = batch.at /\ UNCHANGED <<stored, passed>>
        /\ \/ pc' = "count" /\ height' = height
           \/ pc' = "top" /\ height' = batch.end + 1
    BY <1>16 DEF Mark, AfterBatch, TypeOK, LoopTyped, BatchInOrder
  <2>2. ASSUME NEW t \in Staked, Block[t] <= batch.end PROVE Settled(t)
    <3>1. CASE Block[t] < height
      BY <1>16, <3>1 DEF CoverInv, Mark
    <3>2. CASE Block[t] \in height..batch.end
      BY <1>16, <3>2 DEF CoverInv, Mark
    <3> QED BY <1>0, <2>1, <2>2, <3>1, <3>2
  <2>3. \A t \in Staked : Block[t] <= batch.end => Settled(t)'
    BY <2>1, <2>2 DEF Settled
  <2>4. CASE pc' = "count" /\ height' = height
    <3>1. \A t \in Staked : Block[t] < height => Settled(t)'
      BY <1>16, <2>1 DEF CoverInv, Mark, Settled
    <3>2. \A t \in Staked : Block[t] <= lastProcessed' => Settled(t)'
      BY <1>0, <2>1, <2>3
    <3> QED BY <1>0, <2>1, <2>3, <2>4, <3>1, <3>2 DEF CoverInv, Staked
  <2>5. CASE pc' = "top" /\ height' = batch.end + 1
    BY <1>0, <2>1, <2>3, <2>5 DEF CoverInv, Staked
  <2> QED BY <2>1, <2>4, <2>5
<1>17. CASE CountFails
  BY <1>17, CoverGiveUp DEF CountFails
<1>18. CASE Crash
  BY <1>18 DEF Crash, mongo, CoverInv, Settled, Staked
<1>19. CASE UNCHANGED vars
  BY <1>19 DEF vars, mongo, scan, CoverInv, Settled, Staked
<1> QED BY <1>1, <1>2, <1>3, <1>4, <1>5, <1>6, <1>7, <1>8, <1>9, <1>10, <1>11,
           <1>12, <1>13, <1>14, <1>15, <1>16, <1>17, <1>18, <1>19, NextSplit

\* What lies at or below lastProcessedBlock was stored or given up
\* (BabylonIndexer.scanBlocks, IndexerStateService).
THEOREM ResumeCoverageHolds == Spec => []ResumeCoverage
<1>1. Init => CoverInv
  BY TxFacts DEF Init, CoverInv, InBatch, Staked
<1>2. TypeOK /\ CoverInv /\ [Next]_vars => CoverInv'
  BY CoverInvStep
<1>3. CoverInv => ResumeCoverage
  BY DEF CoverInv, ResumeCoverage, Settled, Staked
<1> QED BY <1>1, <1>2, <1>3, TypeCorrect, PTL DEF Spec
-----------------------------------------------------------------------------
(* The totals of the phases.                                                 *)

\* A stake of transactions is a number.
LEMMA StakeNat == \A T \in SUBSET Txs : IsFiniteSet(T) /\ StakeOf(T) \in Nat
<1> TAKE T \in SUBSET Txs
<1>1. IsFiniteSet(T) /\ \A t \in T : Amount[t] \in Nat
  BY FS_Subset, ConstantsAssumption DEF ConstantsAssumption
<1> QED BY <1>1, SumNat DEF StakeOf

LEMMA StakeEmpty == StakeOf({}) = 0
BY SumEmpty DEF StakeOf

LEMMA StakeUnion ==
    ASSUME NEW S \in SUBSET Txs, NEW T \in SUBSET Txs, S \cap T = {}
    PROVE  StakeOf(S \cup T) = StakeOf(S) + StakeOf(T)
<1>1. \A t \in S \cup T : Amount[t] \in Int
  BY ConstantsAssumption DEF ConstantsAssumption
<1> QED BY <1>1, StakeNat, SumUnion DEF StakeOf

TotalsTyped ==
    /\ total \in [Phases -> Nat] /\ active \in [Phases -> Nat]
    /\ overflow \in [Phases -> Nat]

\* The phases' totals are initialised and incremented, and by nothing else.
LEMMA TotalsChange ==
    ASSUME TypeOK, [Next]_vars
    PROVE  \/ IncStats
           \/ /\ UNCHANGED <<active, overflow>>
              /\ \/ UNCHANGED total
                 \/ \E P : total' = [p \in Phases |-> IF p \in P THEN 0 ELSE total[p]]
<1>1. CASE Start
  <2>1. PICK ok : InitPhaseStats(ok, {})
    BY <1>1 DEF Start
  <2> QED BY <1>1, <2>1 DEF Start, InitPhaseStats
<1>2. CASE SkipToPhase
  BY <1>2 DEF SkipToPhase, InitPhaseStats
<1>3. CASE Fetch
  <2>1. \E P, Q : InitPhaseStats(P, Q)
    BY <1>3 DEF Fetch
  <2> QED BY <1>3, <2>1 DEF Fetch, InitPhaseStats
<1>4. CASE FetchFails
  <2>1. \E P, Q : InitPhaseStats(P, Q)
    BY <1>4 DEF FetchFails
  <2> QED BY <1>4, <2>1 DEF FetchFails, InitPhaseStats
<1>5. CASE Finish \/ Insert \/ InsertFails \/ DocsDone \/ FlagTxs \/ NoPhaseStats \/ Mark
           \/ CountFails \/ Crash \/ UNCHANGED vars
  BY <1>5 DEF Finish, Insert, InsertFails, DocsDone, FlagTxs, NoPhaseStats, Mark, CountFails,
              Crash, vars, mongo
<1>6. ASSUME NEW u, ReadDoc(u) \/ WriteDoc(u) \/ DocFails(u) \/ StrayFails(u)
      PROVE  UNCHANGED <<total, active, overflow>>
  BY <1>6 DEF ReadDoc, WriteDoc, DocFails, StrayFails, mongo
<1> QED BY <1>1, <1>2, <1>3, <1>4, <1>5, <1>6, NextSplit

\* What one height adds to its phase.
LEMMA IncFacts ==
    ASSUME TypeOK, TotalsTyped, IncStats
    PROVE  LET p == batch.phase
               a == StakeOf(Accepted(p, Counted, over))
               o == StakeOf(over)
           IN  /\ p \in Phases /\ a \in Nat /\ o \in Nat
               /\ total' = [total EXCEPT ![p] = total[p] + a + o]
               /\ active' = [active EXCEPT ![p] = active[p] + a]
               /\ overflow' = [overflow EXCEPT ![p] = overflow[p] + o]
               /\ p = 1 /\ active[1] <= Cap => active[1] + a <= Cap
<1> DEFINE p == batch.phase
           A == Accepted(p, Counted, over)
<1>1. p \in Phases /\ over \subseteq Txs /\ Counted \subseteq Txs
  BY DEF IncStats, TypeOK, BatchInOrder, InBatch, LoopTyped, Counted
<1>2. A \subseteq Txs
  BY <1>1 DEF Accepted
<1>3. StakeOf(A) \in Nat /\ StakeOf(over) \in Nat
  BY <1>1, <1>2, StakeNat
<1>4. p = 1 /\ active[1] <= Cap => active[1] + StakeOf(A) <= Cap
  <2> SUFFICES ASSUME p = 1, active[1] <= Cap PROVE active[1] + StakeOf(A) <= Cap
    OBVIOUS
  <2>1. active[1] \in Nat /\ Cap \in Nat /\ StakeOf(Counted \ over) \in Nat
    BY <1>1, StakeNat, ConstantsAssumption DEF TotalsTyped, ConstantsAssumption
  <2>2. CASE active[1] + StakeOf(Counted \ over) > Cap
    <3>1. A = {}
      BY <2>2 DEF Accepted, ActiveBefore
    <3> QED BY <2>1, <3>1, StakeEmpty
  <2>3. CASE ~(active[1] + StakeOf(Counted \ over) > Cap)
    <3>1. A = Counted \ over
      BY <2>3 DEF Accepted, ActiveBefore
    <3>2. StakeOf(A) = StakeOf(Counted \ over)
      BY <3>1
    <3> HIDE DEF A
    <3> QED BY <2>1, <2>3, <3>2
  <2> QED BY <2>2, <2>3
<1> QED BY <1>1, <1>3, <1>4 DEF IncStats, OverflowAfter

\* The cap of phase 1 and the parts of every total, with the types they need.
TotalsInv == TotalsTyped /\ PhaseTotalsHold

LEMMA TotalsInvStep ==
    ASSUME TypeOK, TotalsInv, [Next]_vars
    PROVE  TotalsInv'
<1> USE DEF TotalsInv, TotalsTyped, PhaseTotalsHold, CapHolds, TotalWithinParts
<1>1. CASE IncStats
  <2> DEFINE p == batch.phase
             a == StakeOf(Accepted(p, Counted, over))
             o == StakeOf(over)
  <2>1. /\ p \in Phases /\ a \in Nat /\ o \in Nat
        /\ total' = [total EXCEPT ![p] = total[p] + a + o]
        /\ active' = [active EXCEPT ![p] = active[p] + a]
        /\ overflow' = [overflow EXCEPT ![p] = overflow[p] + o]
        /\ p = 1 => active[1] + a <= Cap
    BY <1>1, IncFacts
  <2>2. 1 \in Phases
    BY ConstantsAssumption DEF ConstantsAssumption
  <2> HIDE DEF p, a, o
  <2> QED BY <2>1, <2>2
<1>2. CASE /\ UNCHANGED <<active, overflow>>
           /\ \/ UNCHANGED total
              \/ \E P : total' = [p \in Phases |-> IF p \in P THEN 0 ELSE total[p]]
  BY <1>2
<1> QED BY <1>1, <1>2, TotalsChange

LEMMA TotalsInit == Init => TotalsInv
BY ConstantsAssumption
   DEF Init, TotalsInv, TotalsTyped, PhaseTotalsHold, CapHolds, TotalWithinParts, ConstantsAssumption

\* The active stake of phase 1 never exceeds its cap, and no phase's total
\* exceeds its parts, through recounts, stray updates and restarts
\* (PhaseStatsService.updatePhaseStatsBatch, initPhaseStats).
THEOREM PhaseTotalsHoldAlways == Spec => []PhaseTotalsHold
<1>1. TypeOK /\ TotalsInv /\ [Next]_vars => TotalsInv'
  BY TotalsInvStep
<1>2. TotalsInv => PhaseTotalsHold
  BY DEF TotalsInv
<1> QED BY <1>1, <1>2, TotalsInit, TypeCorrect, PTL DEF Spec

-----------------------------------------------------------------------------
(* The running stake of phase 1.                                             *)

\* RunningStake is the function its equations describe.
LEMMA RunningStakeFact ==
    ASSUME NEW p, NEW T
    PROVE  \A n \in {0} \cup Txs :
             RunningStake(p, T)[n] =
               IF n = 0 THEN ActiveBefore(p)
               ELSE IF n \in T /\ RunningStake(p, T)[n - 1] + Amount[n] <= Cap
                    THEN RunningStake(p, T)[n - 1] + Amount[n]
                    ELSE RunningStake(p, T)[n - 1]
<1> DEFINE N == Cardinality(Txs)
           Next1(r, n) == IF n \in T /\ r[n - 1] + Amount[n] <= Cap
                          THEN r[n - 1] + Amount[n] ELSE r[n - 1]
           Runs(r, D) == r = [n \in D |-> IF n = 0 THEN ActiveBefore(p) ELSE Next1(r, n)]
           G == {m \in Nat : \E r : Runs(r, 0..m)}
<1>1. N \in Nat /\ {0} \cup Txs = 0..N
  <2>1. N \in Nat /\ Txs = 1..N
    BY FS_CardinalityType, ConstantsAssumption DEF ConstantsAssumption
  <2> HIDE DEF N
  <2> QED BY <2>1
<1>2. 0 \in G
  <2> DEFINE r == [n \in 0..0 |-> ActiveBefore(p)]
  <2>1. Runs(r, 0..0)
    OBVIOUS
  <2> QED BY <2>1
<1>3. ASSUME NEW m \in Nat, m \in G PROVE m + 1 \in G
  <2>1. PICK r : Runs(r, 0..m)
    BY <1>3
  <2> DEFINE q == [n \in 0..(m + 1) |-> IF n = m + 1 THEN Next1(r, n) ELSE r[n]]
  <2>2. \A n \in 0..m : q[n] = r[n]
    OBVIOUS
  <2>3. \A n \in 0..(m + 1) : n # 0 => Next1(q, n) = Next1(r, n)
    <3>1. \A n \in 0..(m + 1) : n # 0 => q[n - 1] = r[n - 1]
      BY <2>2
    <3> HIDE DEF q
    <3> QED BY <3>1
  <2>4. \A n \in 0..(m + 1) : q[n] = IF n = 0 THEN ActiveBefore(p) ELSE Next1(r, n)
    <3>1. \A n \in 0..m : r[n] = IF n = 0 THEN ActiveBefore(p) ELSE Next1(r, n)
      BY <2>1
    <3> HIDE DEF Next1
    <3> QED BY <3>1
  <2>5. q = [n \in 0..(m + 1) |-> q[n]]
    OBVIOUS
  <2> HIDE DEF q, Next1
  <2>6. q = [n \in 0..(m + 1) |-> IF n = 0 THEN ActiveBefore(p) ELSE Next1(q, n)]
    BY <2>3, <2>4, <2>5
  <2> QED BY <2>6
<1>4. N \in G
  <2> HIDE DEF G, N
  <2> QED BY <1>1, <1>2, <1>3, NumberInduction
<1>5. \E r : Runs(r, {0} \cup Txs)
  BY <1>1, <1>4
<1>6. RunningStake(p, T) = CHOOSE r : Runs(r, {0} \cup Txs)
  BY DEF RunningStake
<1>7. Runs(RunningStake(p, T), {0} \cup Txs)
  <2> HIDE DEF Runs
  <2> QED BY <1>5, <1>6
<1> QED BY <1>7

\* The transactions accepted up to the n-th are what the running stake adds
\* up, and it stays within the cap.
LEMMA RunningStakeSum ==
    ASSUME TotalsInv, NEW T \in SUBSET Txs, NEW O \in SUBSET T,
           O = {t \in T : RunningStake(1, T)[t - 1] + Amount[t] > Cap}
    PROVE  active[1] + StakeOf(T \ O) <= Cap
<1> DEFINE N == Cardinality(Txs)
           run == RunningStake(1, T)
           In(n) == {t \in T \ O : t <= n}
           G == {n \in Nat : n <= N => run[n] <= Cap /\ run[n] = active[1] + StakeOf(In(n))}
<1>0. N \in Nat /\ Txs = 1..N /\ Cap \in Nat /\ \A t \in Txs : Amount[t] \in Nat
  BY FS_CardinalityType, ConstantsAssumption DEF ConstantsAssumption
<1>a. active[1] \in Nat /\ active[1] <= Cap
  BY ConstantsAssumption
     DEF TotalsInv, TotalsTyped, PhaseTotalsHold, CapHolds, ConstantsAssumption
<1> HIDE DEF N
<1>b. \A t \in T : t \in Nat /\ 1 <= t /\ t <= N
  BY <1>0
<1>1. \A n \in 1..N : run[n] = IF n \in T /\ run[n - 1] + Amount[n] <= Cap
                               THEN run[n - 1] + Amount[n] ELSE run[n - 1]
  BY <1>0, RunningStakeFact
<1>2. run[0] = active[1]
  BY RunningStakeFact DEF ActiveBefore
<1>3. 0 \in G
  <2>1. In(0) = {}
    BY <1>b
  <2>2. StakeOf(In(0)) = 0
    BY <2>1, StakeEmpty
  <2> HIDE DEF In, run
  <2> QED BY <1>2, <1>a, <2>2
<1>4. ASSUME NEW n \in Nat, n \in G PROVE n + 1 \in G
  <2> SUFFICES ASSUME n + 1 <= N
               PROVE  run[n + 1] <= Cap /\ run[n + 1] = active[1] + StakeOf(In(n + 1))
    OBVIOUS
  <2>1. n + 1 \in Txs /\ Amount[n + 1] \in Nat /\ n + 1 \in 1..N
    BY <1>0
  <2>2. run[n] <= Cap /\ run[n] = active[1] + StakeOf(In(n))
    BY <1>0, <1>4
  <2>3. In(n) \subseteq Txs /\ n + 1 \notin In(n)
    OBVIOUS
  <2>4. StakeOf(In(n)) \in Nat /\ IsFiniteSet(In(n))
    BY <2>3, StakeNat
  <2>5. (n + 1) - 1 = n
    OBVIOUS
  <2>6. CASE n + 1 \in T /\ run[n] + Amount[n + 1] <= Cap
    <3>1. n + 1 \in T \ O
      <4>1. ~(run[n] + Amount[n + 1] > Cap)
        BY <1>0, <1>a, <2>1, <2>2, <2>4, <2>6
      <4> QED BY <2>5, <2>6, <4>1
    <3>2. In(n + 1) = In(n) \cup {n + 1}
      BY <1>b, <3>1
    <3>3. StakeOf(In(n) \cup {n + 1}) = Amount[n + 1] + StakeOf(In(n))
      <4>1. \A t \in In(n) \cup {n + 1} : Amount[t] \in Int
        BY <1>0, <2>1, <2>3
      <4> HIDE DEF In
      <4> QED BY <2>3, <2>4, <4>1, SumAdd DEF StakeOf
    <3>4. run[n + 1] = run[n] + Amount[n + 1]
      BY <1>1, <2>1, <2>5, <2>6
    <3>5. StakeOf(In(n + 1)) = Amount[n + 1] + StakeOf(In(n))
      BY <3>2, <3>3
    <3> HIDE DEF In, run
    <3> QED BY <1>a, <2>1, <2>2, <2>4, <2>6, <3>4, <3>5
  <2>7. CASE ~(n + 1 \in T /\ run[n] + Amount[n + 1] <= Cap)
    <3>1. n + 1 \notin T \ O
      <4>1. n + 1 \in T => run[n] + Amount[n + 1] > Cap
        BY <1>0, <1>a, <2>1, <2>2, <2>4, <2>7
      <4> QED BY <2>5, <4>1
    <3>2. In(n + 1) = In(n)
      BY <1>b, <3>1
    <3>3. run[n + 1] = run[n]
      BY <1>1, <2>1, <2>5, <2>7
    <3>4. StakeOf(In(n + 1)) = StakeOf(In(n))
      BY <3>2
    <3> HIDE DEF In, run
    <3> QED BY <2>2, <3>3, <3>4
  <2> QED BY <2>6, <2>7
<1>5. N \in G
  <2> HIDE DEF G
  <2> QED BY <1>0, <1>3, <1>4, NumberInduction
<1>6. In(N) = T \ O
  BY <1>b
<1>7. run[N] <= Cap /\ run[N] = active[1] + StakeOf(In(N))
  BY <1>0, <1>5
<1>8. StakeOf(In(N)) = StakeOf(T \ O)
  BY <1>6
<1> HIDE DEF In, run
<1> QED BY <1>7, <1>8

\* The transactions that do not overflow are accepted: the second look at the
\* cap finds nothing the first one left.
LEMMA AcceptedFact ==
    ASSUME TotalsInv, NEW p, NEW T \in SUBSET Txs
    PROVE  /\ Overflowing(p, T) \subseteq T
           /\ Accepted(p, T, Overflowing(p, T)) = T \ Overflowing(p, T)
<1> DEFINE O == Overflowing(p, T)
<1>1. O \subseteq T
  BY DEF Overflowing
<1>2. CASE p # 1
  BY <1>1, <1>2 DEF Accepted
<1>3. CASE p = 1
  <2>1. O = {t \in T : RunningStake(1, T)[t - 1] + Amount[t] > Cap}
    BY <1>3 DEF Overflowing
  <2> HIDE DEF O
  <2>2. active[1] + StakeOf(T \ O) <= Cap
    BY <1>1, <2>1, RunningStakeSum
  <2>3. active[1] \in Nat /\ Cap \in Nat /\ StakeOf(T \ O) \in Nat
    BY StakeNat, ConstantsAssumption DEF TotalsInv, TotalsTyped, ConstantsAssumption
  <2>4. ~(active[1] + StakeOf(T \ O) > Cap)
    BY <2>2, <2>3
  <2> QED BY <1>1, <1>3, <2>4 DEF Accepted, ActiveBefore, O
<1> QED BY <1>1, <1>2, <1>3

-----------------------------------------------------------------------------
(* A scan nothing disturbed is exact.  Until its end the documents lack what *)
(* their pending updates will write, and the phases what of the batch is     *)
(* stored and not counted yet.                                               *)

Undisturbed == faults = 0 /\ restarts = 0

Own(d) == {t \in stored : d \in DocsOf(t)}

\* A document that no update is pending for is exact; the others lack it.
DocsExact ==
    /\ strays = {}
    /\ \A d \in Docs : (\A u \in updates : u.doc # d) =>
         merged[d] = Own(d) /\ \A t \in Own(d) : times[d][t] = 1
    /\ \A u \in updates :
         /\ u.txs \subseteq Own(u.doc) /\ merged[u.doc] = Own(u.doc) \ u.txs
         /\ \A t \in merged[u.doc] : times[u.doc][t] = 1
         /\ u.read => u.seen = merged[u.doc]
    /\ \A u, v \in updates : u.doc = v.doc => u = v

\* Every height is visited once: what is stored lies below the batch.
CursorExact ==
    /\ pc = "down" => stored = {}
    /\ pc \in {"top", "insert"} => \A t \in stored : Block[t] < height
    /\ InBatch => batch.txs \subseteq TxsAt(height..batch.stop)
    /\ pc = "insert" => batch.at = height
    /\ InBatch /\ pc # "insert" => /\ batch.txs \subseteq stored
                                   /\ \A t \in stored : Block[t] <= batch.end

\* The phase of a batch has its document.
KnownExact ==
    /\ curPhase # NoPhase => curPhase \in known
    /\ InBatch => batch.phase \in known

\* Stored, but not counted for its phase yet.
Due == IF pc \in {"docs", "count", "inc"} THEN {t \in batch.txs : Block[t] >= batch.at}
       ELSE IF pc = "mark" THEN {t \in batch.txs : Block[t] > batch.at} ELSE {}

SumsExact ==
    /\ flagged \subseteq stored /\ flagged \cap Due = over
    /\ pc = "inc" => /\ over \subseteq Counted
                     /\ Accepted(batch.phase, Counted, over) = Counted \ over
    /\ pc # "inc" => over = {}
    /\ SumFunction(active) = StakeOf((stored \ Due) \ flagged)
    /\ SumFunction(overflow) = StakeOf(flagged \ over)

ExactInv == Undisturbed => DocsExact /\ CursorExact /\ KnownExact /\ SumsExact

\* The steps that cost nothing.
QuietStep ==
    \/ Start \/ Finish \/ SkipToPhase \/ Fetch \/ Insert \/ DocsDone
    \/ (\E u \in updates \cup strays : ReadDoc(u) \/ WriteDoc(u))
    \/ FlagTxs \/ NoPhaseStats \/ IncStats \/ Mark

\* What a batch read without an error is made of.
LEMMA FetchQuiet ==
    ASSUME TypeOK, Fetch, faults' = 0
    PROVE  /\ faults = 0 /\ known \subseteq known'
           /\ batch'.txs \subseteq TxsAt(height..batch'.stop)
           /\ batch'.phase = curPhase \/ batch'.phase \in known'
           /\ curPhase' = curPhase \/ curPhase' \in known'
<1> USE DEF TypeOK, StoreTyped, LoopTyped
<1>1. PICK stop \in height..BatchEnd, ok \in SUBSET Phases,
           dark \in SUBSET (height..BatchEnd) : Fetch!2!(stop, ok, dark)
  BY DEF Fetch
<1> DEFINE p     == PhaseNow
           here  == IF p # curPhase THEN {p} ELSE {}
           next  == IF Breaks(p, stop) THEN NextPhase(stop) ELSE {}
           tot   == [total EXCEPT ![p] = IF p \in here \cap ok THEN 0 ELSE @]
           blank == {h \in height..BatchEnd : Paramless(h, dark, tot)}
           seen  == (height..stop) \ blank
           found == {t \in TxsAt(seen) : PhaseAt(Block[t]) # NoPhase}
           lost  == (here \cup next) \ ok
<1>2. p \in Phases /\ here \subseteq Phases /\ next \subseteq Phases
  BY PhaseNowFact DEF Fetch, NextPhase, PhasesAfter
<1>3. Cardinality(dark) \in Nat /\ Cardinality(lost) \in Nat /\ IsFiniteSet(lost)
  <2>1. height \in Int /\ BatchEnd \in Int /\ dark \in SUBSET (height..BatchEnd)
    BY BatchEndFact DEF Fetch
  <2>2. Cardinality(dark) \in Nat
    BY ONLY <2>1, SpanCardinality
  <2>3. lost \in SUBSET Phases
    BY <1>2
  <2> HIDE DEF lost
  <2> QED BY <2>2, <2>3, FS_Subset, FS_CardinalityType, ConstantsAssumption DEF ConstantsAssumption
<1>4. faults' = faults + (Cardinality(dark) + Cardinality(lost))
  BY <1>1 DEF Costs
<1>5. faults = 0 /\ Cardinality(lost) = 0
  <2>1. faults \in Nat
    OBVIOUS
  <2> QED BY ONLY <1>3, <1>4, <2>1, faults' = 0
<1>6. lost = {}
  BY <1>3, <1>5, FS_EmptySet
<1>7. known \subseteq known' /\ ok \subseteq known'
  BY <1>1 DEF InitPhaseStats
<1>8. batch'.phase = p /\ batch'.stop = stop /\ batch'.txs = found
  BY <1>1
<1>9. found \subseteq TxsAt(height..stop)
  BY DEF TxsAt
<1>10. p # curPhase => p \in known'
  BY <1>6, <1>7
<1>11. curPhase' = curPhase \/ curPhase' \in known'
  <2>1. curPhase' = IF next \cap ok # {} THEN CHOOSE q \in next \cap ok : TRUE
                    ELSE IF here \cap ok # {} THEN p ELSE curPhase
    BY <1>1
  <2>2. next \cap ok # {} => (CHOOSE q \in next \cap ok : TRUE) \in ok
    OBVIOUS
  <2>3. here \cap ok # {} => p \in ok
    OBVIOUS
  <2> HIDE DEF next, here, p
  <2> QED BY <1>7, <2>1, <2>2, <2>3
<1> HIDE DEF found, p
<1> QED BY <1>5, <1>7, <1>8, <1>9, <1>10, <1>11

\* While nothing is disturbed only steps that cost nothing are taken.
LEMMA QuietSplit ==
    ASSUME TypeOK, TypeOK', [Next]_vars, Undisturbed'
    PROVE  Undisturbed /\ (QuietStep \/ UNCHANGED vars)
<1> USE DEF Undisturbed, QuietStep
<1>0. faults \in Nat /\ restarts \in Nat
  BY DEF TypeOK, StoreTyped
<1>1. CASE Start
  <2>1. PICK p \in Reindexed \cup {NoPhase} :
              \E ok \in SUBSET (IF p = NoPhase THEN Phases ELSE {p}) :
                Costs(IF p = NoPhase THEN Cardinality(Phases \ ok) ELSE Cardinality({p} \ ok))
    BY <1>1 DEF Start
  <2>2. \A ok : Cardinality(Phases \ ok) \in Nat /\ (p # NoPhase => Cardinality({p} \ ok) \in Nat)
    BY <2>1, PhaseCardinality, ConstantsAssumption DEF ConstantsAssumption
  <2>3. \E k \in Nat : faults' = faults + k
    BY <2>1, <2>2 DEF Costs
  <2>4. restarts' = restarts
    BY <1>1 DEF Start
  <2> QED BY <1>0, <1>1, <2>3, <2>4
<1>2. CASE SkipToPhase
  BY <1>0, <1>2 DEF SkipToPhase, Costs
<1>3. CASE Fetch
  BY <1>3, FetchQuiet DEF Fetch
<1>4. CASE Finish \/ Insert \/ DocsDone \/ FlagTxs \/ NoPhaseStats \/ IncStats \/ Mark
           \/ UNCHANGED vars
  BY <1>4 DEF Finish, Insert, DocsDone, FlagTxs, NoPhaseStats, GiveUp, IncStats, Mark, vars
<1>5. ASSUME NEW u \in updates \cup strays, ReadDoc(u) \/ WriteDoc(u)
      PROVE  Undisturbed /\ (QuietStep \/ UNCHANGED vars)
  BY <1>5 DEF ReadDoc, WriteDoc
<1>6. CASE FetchFails \/ InsertFails \/ CountFails
  <2>1. faults' = faults + 1 \/ faults' = faults + 2
    BY <1>6 DEF FetchFails, InsertFails, CountFails, Costs
  <2> QED BY <1>0, <2>1
<1>7. CASE Crash
  BY <1>0, <1>7 DEF Crash
<1>8. ASSUME NEW u, DocFails(u) \/ StrayFails(u) PROVE FALSE
  BY <1>0, <1>8 DEF DocFails, StrayFails, Costs
<1> QED BY <1>1, <1>2, <1>3, <1>4, <1>5, <1>6, <1>7, <1>8, NextSplit

LEMMA KnownExactStep ==
    ASSUME TypeOK, KnownExact, QuietStep, faults' = 0
    PROVE  KnownExact'
<1> USE DEF KnownExact, InBatch
<1>1. CASE Start
  BY <1>1 DEF Start
<1>2. CASE SkipToPhase
  <2>1. faults \in Nat
    BY DEF TypeOK, StoreTyped
  <2> QED BY <1>2, <2>1 DEF SkipToPhase, Costs, InitPhaseStats
<1>3. CASE Fetch
  <2>1. curPhase' # NoPhase => curPhase' \in known'
    BY <1>3, FetchQuiet
  <2>2. batch'.phase \in Phases
    BY <1>3, FetchFacts
  <2>3. batch'.phase \in known'
    BY <1>3, <2>2, FetchQuiet, PhaseFacts DEF NoPhase
  <2> QED BY <2>1, <2>3
<1>4. CASE Finish \/ Insert \/ DocsDone \/ FlagTxs \/ IncStats
  BY <1>4 DEF Finish, Insert, DocsDone, FlagTxs, IncStats, mongo
<1>5. CASE Mark
  <2>1. batch'.phase = batch.phase
    BY <1>5 DEF Mark, TypeOK, LoopTyped
  <2> QED BY <1>5, <2>1 DEF Mark
<1>6. CASE NoPhaseStats
  BY <1>6 DEF NoPhaseStats, GiveUp, mongo
<1>7. ASSUME NEW u \in updates \cup strays, ReadDoc(u) \/ WriteDoc(u) PROVE KnownExact'
  BY <1>7 DEF ReadDoc, WriteDoc, mongo, scan
<1> QED BY <1>1, <1>2, <1>3, <1>4, <1>5, <1>6, <1>7 DEF QuietStep

LEMMA CursorExactStep ==
    ASSUME TypeOK, CursorExact, KnownExact, QuietStep, faults' = 0
    PROVE  CursorExact'
<1> USE DEF CursorExact, InBatch
<1>0. \A t \in stored : t \in Txs /\ Block[t] \in Nat
  BY TxFacts DEF TypeOK, StoreTyped
<1>a. height \in Nat /\ batch.end \in Nat /\ batch.stop \in Nat /\ batch.at \in Nat
  BY DEF TypeOK, LoopTyped
<1>1. CASE Start
  BY <1>1 DEF Start
<1>2. CASE SkipToPhase
  <2>1. height' \in Nat /\ height' > height
    BY <1>2, PhaseFacts DEF SkipToPhase, NextPhase, PhasesAfter
  <2>2. pc = "top" /\ pc' = "top" /\ stored' = stored
    BY <1>2 DEF SkipToPhase
  <2> QED BY <1>0, <1>a, <2>1, <2>2
<1>3. CASE Fetch
  <2>1. pc = "top" /\ stored' = stored /\ \A t \in stored : Block[t] < height
    BY <1>3 DEF Fetch
  <2>2. /\ BatchEnd \in Nat /\ height <= BatchEnd /\ batch'.end = BatchEnd
        /\ batch'.at = height /\ batch'.txs \subseteq TxsAt(height..batch'.stop)
    BY <1>3, FetchFacts, FetchQuiet
  <2>3. CASE pc' = "insert" /\ height' = height
    BY <2>1, <2>2, <2>3
  <2>4. CASE batch'.txs = {} /\ pc' = "count" /\ height' = height
    BY <1>0, <1>a, <2>1, <2>2, <2>4
  <2>5. CASE batch'.txs = {} /\ pc' = "top" /\ height' = BatchEnd + 1
    BY <1>0, <1>a, <2>1, <2>2, <2>5
  <2> QED BY <1>3, <2>3, <2>4, <2>5, FetchFacts
<1>4. CASE Insert
  <2>1. /\ pc = "insert" /\ pc' \in {"docs", "count"} /\ stored' = stored \cup (batch.txs \ stored)
        /\ UNCHANGED <<height, batch>>
    BY <1>4 DEF Insert, Fresh
  <2>2. height <= batch.end /\ batch.stop <= batch.end
    BY <1>a, <2>1 DEF TypeOK, BatchInOrder
  <2>3. \A t \in stored : Block[t] <= batch.end
    BY <1>0, <1>a, <2>1, <2>2
  <2>4. \A t \in batch.txs : Block[t] <= batch.end
    BY <1>a, <2>1, <2>2 DEF TxsAt
  <2> QED BY <2>1, <2>3, <2>4
<1>5. CASE Finish \/ DocsDone \/ FlagTxs \/ IncStats
  BY <1>5 DEF Finish, DocsDone, FlagTxs, IncStats, mongo
<1>6. CASE Mark
  <2>1. /\ stored' = stored /\ batch'.txs = batch.txs /\ batch'.stop = batch.stop
        /\ batch'.end = batch.end /\ pc \in {"count", "mark"}
        /\ \/ pc' = "count" /\ height' = height
           \/ pc' = "top" /\ height' = batch.end + 1
    BY <1>6 DEF Mark, AfterBatch, TypeOK, LoopTyped
  <2> QED BY <1>0, <1>a, <2>1
<1>7. CASE NoPhaseStats
  BY <1>7 DEF NoPhaseStats, KnownExact
<1>8. ASSUME NEW u \in updates \cup strays, ReadDoc(u) \/ WriteDoc(u) PROVE CursorExact'
  BY <1>8 DEF ReadDoc, WriteDoc, mongo, scan
<1> QED BY <1>1, <1>2, <1>3, <1>4, <1>5, <1>6, <1>7, <1>8 DEF QuietStep

\* The sum over the phases.
LEMMA PhaseSumZero == SumFunction([p \in Phases |-> 0]) = 0
<1>1. IsFiniteSet(Phases)
  BY ConstantsAssumption DEF ConstantsAssumption
<1> DEFINE f == [p \in Phases |-> 0]
<1>2. DOMAIN f = Phases /\ \A p \in Phases : f[p] = 0
  OBVIOUS
<1> HIDE DEF f
<1>3. SumFunctionOnSet(f, DOMAIN f) = 0
  BY <1>1, <1>2, SumZero
<1> QED BY <1>3 DEF SumFunction, f

LEMMA PhaseSumGrows ==
    ASSUME NEW f \in [Phases -> Nat], NEW p \in Phases, NEW n \in Nat
    PROVE  SumFunction([f EXCEPT ![p] = f[p] + n]) = SumFunction(f) + n
<1> DEFINE g == [f EXCEPT ![p] = f[p] + n]
<1>1. IsFiniteSet(Phases)
  BY ConstantsAssumption DEF ConstantsAssumption
<1>2. /\ DOMAIN f = Phases /\ DOMAIN g = Phases /\ g[p] = f[p] + n /\ f[p] \in Nat
      /\ \A q \in Phases : f[q] \in Int /\ g[q] \in Int
      /\ \A q \in Phases \ {p} : f[q] = g[q]
  OBVIOUS
<1> HIDE DEF g
<1>3. SumFunctionOnSet(g, Phases) = SumFunctionOnSet(f, Phases) + (g[p] - f[p])
  BY <1>1, <1>2, SumChange
<1>4. SumFunctionOnSet(f, Phases) \in Int
  BY <1>1, <1>2, SumInt
<1>5. SumFunctionOnSet(g, Phases) = SumFunctionOnSet(f, Phases) + n
  BY <1>2, <1>3, <1>4
<1>6. SumFunction(g) = SumFunction(f) + n
  BY <1>2, <1>5 DEF SumFunction
<1> QED BY <1>6 DEF g

LEMMA DocsExactStep ==
    ASSUME TypeOK, CountInv, DocsExact, QuietStep
    PROVE  DocsExact'
<1>0. strays = {}
  BY DEF DocsExact
<1>1. CASE Insert
  <2>1. Fresh \subseteq Txs /\ Fresh \cap stored = {} /\ updates = {}
    BY <1>1 DEF Insert, Fresh, TypeOK, LoopTyped, BatchInOrder
  <2>2. stored' = stored \cup Fresh /\ updates' = UpdatesFor(Fresh)
        /\ UNCHANGED <<times, merged, strays>>
    BY <1>1 DEF Insert
  <2>3. \A d \in Docs : merged[d] = Own(d) /\ \A t \in Own(d) : times[d][t] = 1
    BY <2>1 DEF DocsExact
  <2>4. \A d : Own(d)' = Own(d) \cup {t \in Fresh : d \in DocsOf(t)}
    BY <2>2 DEF Own
  <2>5. ASSUME NEW d \in Docs, \A u \in updates' : u.doc # d
        PROVE  merged'[d] = Own(d)' /\ \A t \in Own(d)' : times'[d][t] = 1
    <3>1. ASSUME NEW t \in Fresh, d \in DocsOf(t) PROVE FALSE
      <4> DEFINE w == [doc |-> d, txs |-> {s \in Fresh : d \in DocsOf(s)}, read |-> FALSE, seen |-> {}]
      <4>1. w \in UpdatesFor(Fresh)
        BY <3>1 DEF UpdatesFor
      <4>2. w.doc = d
        OBVIOUS
      <4> HIDE DEF w
      <4> QED BY <2>2, <2>5, <4>1, <4>2
    <3>2. Own(d)' = Own(d)
      BY <2>4, <3>1
    <3> QED BY <2>2, <2>3, <3>2
  <2>6. ASSUME NEW u \in updates'
        PROVE  /\ u.txs \subseteq Own(u.doc)' /\ merged'[u.doc] = Own(u.doc)' \ u.txs
               /\ \A t \in merged'[u.doc] : times'[u.doc][t] = 1
               /\ u.read => u.seen = merged'[u.doc]
    <3>1. u.txs = {t \in Fresh : u.doc \in DocsOf(t)} /\ u.doc \in Docs
      BY <2>1, <2>2, UpdatesForSound, UpdatesForFact DEF Updates
    <3>2. ~u.read
      BY <2>2 DEF UpdatesFor
    <3>3. Own(u.doc) \cap u.txs = {}
      BY <2>1, <3>1 DEF Own
    <3> QED BY <2>2, <2>3, <2>4, <3>1, <3>2, <3>3
  <2>7. ASSUME NEW u \in updates', NEW v \in updates', u.doc = v.doc PROVE u = v
    <3>1. PICK d \in UNION {DocsOf(t) : t \in Fresh} :
            u = [doc |-> d, txs |-> {t \in Fresh : d \in DocsOf(t)},
                 read |-> FALSE, seen |-> {}]
      BY <2>2 DEF UpdatesFor
    <3>2. PICK e \in UNION {DocsOf(t) : t \in Fresh} :
            v = [doc |-> e, txs |-> {t \in Fresh : e \in DocsOf(t)},
                 read |-> FALSE, seen |-> {}]
      BY <2>2 DEF UpdatesFor
    <3>3. u.doc = d /\ v.doc = e
      BY <3>1, <3>2
    <3> QED BY <2>7, <3>1, <3>2, <3>3
  <2> QED BY <1>0, <2>2, <2>5, <2>6, <2>7 DEF DocsExact
<1>2. ASSUME NEW u \in updates \cup strays, ReadDoc(u) PROVE DocsExact'
  <2> DEFINE v == [u EXCEPT !.read = TRUE, !.seen = merged[u.doc]]
  <2>1. u \in updates /\ u \in Updates
    BY <1>0 DEF TypeOK, StoreTyped
  <2>2. v.doc = u.doc /\ v.txs = u.txs /\ v.seen = merged[u.doc]
    BY <2>1 DEF Updates
  <2>3. UNCHANGED <<stored, times, merged, strays>>
    BY <1>2, <2>1 DEF ReadDoc, mongo
  <2>4. updates' = (updates \ {u}) \cup {v}
    BY <1>2, <2>1 DEF ReadDoc
  <2> HIDE DEF v
  <2>5. \A d : Own(d)' = Own(d)
    BY <2>3 DEF Own
  <2>6. \A d \in Docs : (\A w \in updates' : w.doc # d) => (\A w \in updates : w.doc # d)
    BY <2>2, <2>4
  <2>7. \A w \in updates' : w = v \/ w \in updates
    BY <2>4
  <2>8. \A w, x \in updates' : w.doc = x.doc => w = x
    BY <2>1, <2>2, <2>4 DEF DocsExact
  <2> QED BY <1>0, <2>1, <2>2, <2>3, <2>5, <2>6, <2>7, <2>8 DEF DocsExact
<1>3. ASSUME NEW u \in updates \cup strays, WriteDoc(u) PROVE DocsExact'
  <2>1. /\ u \in updates /\ u.doc \in Docs /\ u.txs \subseteq Txs /\ Sound(u)
        /\ u.seen = merged[u.doc]
    BY <1>0, <1>3 DEF TypeOK, StoreTyped, Updates, CountInv, DocsExact, WriteDoc
  <2>2. \A d \in Docs, t \in Txs :
          times'[d][t] = IF d = u.doc /\ t \in u.txs THEN times[d][t] + 1
                         ELSE times[d][t]
    BY <1>3, <2>1 DEF WriteDoc, TypeOK, StoreTyped
  <2>3. \A d \in Docs : merged'[d] = IF d = u.doc THEN u.seen \cup u.txs ELSE merged[d]
    BY <1>3, <2>1 DEF WriteDoc, MergedStakes, TypeOK, StoreTyped
  <2>4. stored' = stored /\ updates' = updates \ {u} /\ strays' = {}
    BY <1>0, <1>3 DEF WriteDoc
  <2>5. \A d : Own(d)' = Own(d) /\ Own(d) \subseteq Txs
    BY <2>4 DEF Own, TypeOK, StoreTyped
  <2>6. u.txs \subseteq Own(u.doc) /\ merged[u.doc] = Own(u.doc) \ u.txs
        /\ \A t \in merged[u.doc] : times[u.doc][t] = 1
    BY <2>1 DEF DocsExact
  <2>7. merged'[u.doc] = Own(u.doc) /\ \A t \in Own(u.doc) : times'[u.doc][t] = 1
    <3>1. merged'[u.doc] = Own(u.doc)
      BY <2>1, <2>3, <2>6
    <3>2. ASSUME NEW t \in Own(u.doc) PROVE times'[u.doc][t] = 1
      <4>1. CASE t \in u.txs
        BY <2>1, <2>2, <4>1 DEF Sound
      <4>2. CASE t \notin u.txs
        BY <2>1, <2>2, <2>5, <2>6, <4>2
      <4> QED BY <4>1, <4>2
    <3> QED BY <3>1, <3>2
  <2>8. ASSUME NEW d \in Docs, d # u.doc, \A w \in updates' : w.doc # d
        PROVE  merged'[d] = Own(d) /\ \A t \in Own(d) : times'[d][t] = 1
    <3>1. \A w \in updates : w.doc # d
      BY <2>4, <2>8
    <3> QED BY <2>2, <2>3, <2>5, <2>8, <3>1 DEF DocsExact
  <2>9. ASSUME NEW w \in updates'
        PROVE  /\ w.txs \subseteq Own(w.doc) /\ merged'[w.doc] = Own(w.doc) \ w.txs
               /\ \A t \in merged'[w.doc] : times'[w.doc][t] = 1
               /\ w.read => w.seen = merged'[w.doc]
    <3>1. w \in updates /\ w.doc \in Docs /\ w.doc # u.doc
      BY <2>1, <2>4 DEF TypeOK, StoreTyped, Updates, DocsExact
    <3>2. merged'[w.doc] = merged[w.doc] /\ merged[w.doc] \subseteq Txs
      BY <2>3, <3>1 DEF TypeOK, StoreTyped
    <3> QED BY <2>2, <3>1, <3>2 DEF DocsExact
  <2>10. \A v, w \in updates' : v.doc = w.doc => v = w
    BY <2>4 DEF DocsExact
  <2> QED BY <2>4, <2>5, <2>7, <2>8, <2>9, <2>10 DEF DocsExact
<1>4. CASE \/ Start \/ Finish \/ SkipToPhase \/ Fetch \/ DocsDone
           \/ FlagTxs \/ NoPhaseStats \/ IncStats \/ Mark
  <2>1. UNCHANGED <<stored, times, merged, updates, strays>>
    BY <1>4 DEF Start, Finish, SkipToPhase, Fetch, DocsDone, FlagTxs, NoPhaseStats, IncStats,
                Mark, mongo
  <2> QED BY <2>1 DEF DocsExact, Own
<1> QED BY <1>1, <1>2, <1>3, <1>4 DEF QuietStep

\* A step that moves no stake keeps the sums.
LEMMA SumsQuiet ==
    ASSUME SumsExact, pc # "inc", pc' # "inc", Due' = Due,
           UNCHANGED <<stored, flagged, active, overflow, over>>
    PROVE  SumsExact'
<1>1. StakeOf((stored \ Due) \ flagged)' = StakeOf((stored \ Due) \ flagged)
  BY DEF StakeOf
<1>2. StakeOf(flagged \ over)' = StakeOf(flagged \ over)
  BY DEF StakeOf
<1> QED BY <1>1, <1>2 DEF SumsExact

\* What is counted now is due, and counting it leaves the rest due.
LEMMA DueFacts ==
    ASSUME TypeOK, CursorExact, pc \in {"docs", "count", "inc"}
    PROVE  /\ Due \subseteq stored /\ Counted \subseteq Due
           /\ Due \ Counted = {t \in batch.txs : Block[t] > batch.at}
<1>1. batch.txs \subseteq stored /\ batch.txs \subseteq Txs /\ batch.at \in Nat
  BY DEF CursorExact, InBatch, TypeOK, LoopTyped
<1>2. Due = {t \in batch.txs : Block[t] >= batch.at}
  BY DEF Due
<1>3. Counted = {t \in batch.txs : Block[t] = batch.at}
  BY <1>1 DEF Counted, TxsAt
<1>4. \A t \in batch.txs : Block[t] \in Nat
  BY <1>1, TxFacts
<1> QED BY <1>1, <1>2, <1>3, <1>4

LEMMA SumsExactStep ==
    ASSUME TypeOK, TotalsInv, CursorExact, KnownExact, SumsExact, QuietStep, faults' = 0
    PROVE  SumsExact'
<1>1. CASE Start \/ Finish \/ SkipToPhase \/ Fetch
  <2>1. /\ UNCHANGED <<stored, flagged, active, overflow>> /\ pc \in {"down", "top"}
        /\ \/ pc' \in {"top", "insert", "done"}
           \/ pc' = "count" /\ batch'.txs = {}
        /\ over' \in {over, {}}
    <3>1. CASE Fetch
      <4>1. UNCHANGED <<stored, flagged, active, overflow, over>> /\ pc = "top"
        BY <3>1 DEF Fetch
      <4>2. pc' \in {"top", "insert"} \/ (pc' = "count" /\ batch'.txs = {})
        BY <3>1, FetchFacts
      <4> QED BY <4>1, <4>2
    <3>2. CASE Start
      BY <3>2 DEF Start
    <3>3. CASE Finish
      BY <3>3 DEF Finish, mongo
    <3>4. CASE SkipToPhase
      BY <3>4 DEF SkipToPhase
    <3> QED BY <1>1, <3>1, <3>2, <3>3, <3>4
  <2>2. Due = {} /\ Due' = {} /\ over' = over
    BY <2>1 DEF Due, SumsExact
  <2> QED BY <2>1, <2>2, SumsQuiet
<1>2. CASE Insert
  <2>1. /\ pc = "insert" /\ pc' \in {"docs", "count"} /\ stored' = stored \cup batch.txs
        /\ UNCHANGED <<flagged, active, overflow, over, batch>>
    BY <1>2 DEF Insert, Fresh
  <2>2. over = {} /\ Due = {}
    BY <2>1 DEF SumsExact, Due
  <2>3. batch.at = height /\ batch.txs \subseteq TxsAt(height..batch.stop)
        /\ \A t \in stored : Block[t] < height
    BY <2>1 DEF CursorExact, InBatch
  <2>4. height \in Nat /\ batch.stop \in Nat /\ stored \subseteq Txs
    BY DEF TypeOK, StoreTyped, LoopTyped
  <2>5. \A t \in batch.txs : Block[t] >= height /\ t \in Txs
    BY <2>3, <2>4 DEF TxsAt
  <2>6. Due' = batch.txs
    BY <2>1, <2>3, <2>5 DEF Due
  <2>7. stored \cap batch.txs = {}
    BY <2>3, <2>4, <2>5, TxFacts
  <2>8. (stored' \ Due') \ flagged' = (stored \ Due) \ flagged
    BY <2>1, <2>2, <2>6, <2>7
  <2>9. flagged' \ over' = flagged \ over /\ flagged' \cap Due' = over'
    BY <2>1, <2>2, <2>6, <2>7 DEF SumsExact
  <2> QED BY <2>1, <2>2, <2>8, <2>9 DEF SumsExact, StakeOf
<1>3. CASE DocsDone
  <2>1. Due' = Due /\ pc = "docs" /\ pc' = "count"
    BY <1>3 DEF DocsDone, Due
  <2> QED BY <1>3, <2>1, SumsQuiet DEF DocsDone, mongo
<1>4. ASSUME NEW u \in updates \cup strays, ReadDoc(u) \/ WriteDoc(u) PROVE SumsExact'
  <2>1. UNCHANGED <<stored, flagged, active, overflow, over, pc, batch>>
    BY <1>4 DEF ReadDoc, WriteDoc, mongo, scan
  <2> QED BY <2>1 DEF SumsExact, Due, StakeOf, Counted, Accepted, ActiveBefore
<1>5. CASE FlagTxs
  <2> DEFINE p == batch.phase
  <2>1. /\ pc = "count" /\ pc' = "inc" /\ over' = Overflowing(p, Counted)
        /\ flagged' = (flagged \ Counted) \cup (Counted \ Accepted(p, Counted, over'))
        /\ UNCHANGED <<stored, active, overflow, batch>>
    BY <1>5 DEF FlagTxs
  <2>2. over = {} /\ flagged \cap Due = {} /\ flagged \subseteq stored
    BY <2>1 DEF SumsExact
  <2>3. Due \subseteq stored /\ Counted \subseteq Due /\ Counted \subseteq Txs
    BY <2>1, DueFacts DEF TypeOK, LoopTyped, Counted
  <2>4. over' \subseteq Counted /\ Accepted(p, Counted, over') = Counted \ over'
    BY <2>1, <2>3, AcceptedFact
  <2>5. Due' = Due /\ Counted' = Counted /\ p' = p
        /\ Accepted(p, Counted, over)' = Accepted(p, Counted, over')
    BY <2>1 DEF Due, Counted, Accepted, ActiveBefore, StakeOf
  <2>6. flagged' = flagged \cup over'
    BY <2>1, <2>2, <2>3, <2>4
  <2>7. (stored' \ Due') \ flagged' = (stored \ Due) \ flagged
    BY <2>1, <2>3, <2>4, <2>5, <2>6
  <2>8. flagged' \ over' = flagged \ over /\ flagged' \cap Due' = over'
    BY <2>2, <2>3, <2>4, <2>5, <2>6
  <2>9. flagged' \subseteq stored'
    BY <2>1, <2>2, <2>3, <2>4, <2>6
  <2> QED BY <2>1, <2>4, <2>5, <2>7, <2>8, <2>9 DEF SumsExact, StakeOf
<1>6. CASE NoPhaseStats
  BY <1>6 DEF NoPhaseStats, KnownExact, InBatch
<1>7. CASE IncStats
  <2> DEFINE p == batch.phase
             A == Accepted(p, Counted, over)
             a == StakeOf(A)
             o == StakeOf(over)
             kept == (stored \ Due) \ flagged
             gone == flagged \ over
  <2>1. /\ p \in Phases /\ a \in Nat /\ o \in Nat
        /\ active' = [active EXCEPT ![p] = active[p] + a]
        /\ overflow' = [overflow EXCEPT ![p] = overflow[p] + o]
    BY <1>7, IncFacts DEF TotalsInv
  <2>2. /\ pc = "inc" /\ pc' = "mark" /\ over' = {}
        /\ UNCHANGED <<stored, flagged, batch>>
    BY <1>7 DEF IncStats
  <2>3. /\ over \subseteq Counted /\ A = Counted \ over
        /\ flagged \subseteq stored /\ flagged \cap Due = over
        /\ SumFunction(active) = StakeOf(kept) /\ SumFunction(overflow) = StakeOf(gone)
    BY <2>2 DEF SumsExact
  <2>4. Due \subseteq stored /\ Counted \subseteq Due /\ stored \subseteq Txs
        /\ Due \ Counted = {t \in batch.txs : Block[t] > batch.at}
    BY <2>2, DueFacts DEF TypeOK, StoreTyped
  <2>5. Due' = Due \ Counted
    BY <2>2, <2>4 DEF Due
  <2>6. (stored' \ Due') \ flagged' = kept \cup A /\ kept \cap A = {}
    BY <2>2, <2>3, <2>4, <2>5
  <2>7. flagged' \ over' = gone \cup over /\ gone \cap over = {} /\ flagged' \cap Due' = over'
    BY <2>2, <2>3, <2>4, <2>5
  <2>8. kept \subseteq Txs /\ A \subseteq Txs /\ gone \subseteq Txs /\ over \subseteq Txs
    BY <2>3, <2>4
  <2>9. StakeOf(kept \cup A) = StakeOf(kept) + a /\ StakeOf(gone \cup over) = StakeOf(gone) + o
    <3> HIDE DEF kept, gone, A
    <3> QED BY <2>6, <2>7, <2>8, StakeUnion
  <2>10. SumFunction(active') = SumFunction(active) + a
         /\ SumFunction(overflow') = SumFunction(overflow) + o
    <3> HIDE DEF p, a, o
    <3> QED BY <2>1, PhaseSumGrows DEF TotalsInv, TotalsTyped
  <2>11. SumFunction(active') = StakeOf((stored' \ Due') \ flagged')
    <3>1. StakeOf((stored' \ Due') \ flagged') = StakeOf(kept \cup A)
      BY <2>6
    <3> QED BY <2>3, <2>9, <2>10, <3>1
  <2>12. SumFunction(overflow') = StakeOf(flagged' \ over')
    <3>1. StakeOf(flagged' \ over') = StakeOf(gone \cup over)
      BY <2>7
    <3> QED BY <2>3, <2>9, <2>10, <3>1
  <2>13. flagged' \subseteq stored'
    BY <2>2, <2>3
  <2> QED BY <2>2, <2>7, <2>11, <2>12, <2>13 DEF SumsExact, StakeOf
<1>8. CASE Mark
  <2>1. /\ batch.at \in Nat /\ batch.stop \in Nat /\ batch.txs \subseteq Txs
        /\ pc = "mark" \/ (pc = "count" /\ Counted = {})
        /\ UNCHANGED <<stored, flagged, active, overflow, over>>
    BY <1>8 DEF Mark, TypeOK, LoopTyped
  <2>2. \A t \in batch.txs : Block[t] \in Nat
    BY <2>1, TxFacts
  <2>3. Due = {t \in batch.txs : Block[t] > batch.at}
    <3>1. CASE pc = "mark"
      BY <3>1 DEF Due
    <3>2. CASE pc = "count" /\ Counted = {}
      BY <3>2, DueFacts
    <3> QED BY <2>1, <3>1, <3>2
  <2>4. pc' # "inc" /\ Due' = Due
    <3>1. CASE MoreHeights
      <4>1. pc' = "count" /\ batch'.txs = batch.txs /\ batch'.at = batch.at + 1
        BY <1>8, <3>1 DEF Mark, TypeOK, LoopTyped
      <4>2. Due' = {t \in batch.txs : Block[t] >= batch.at + 1}
        BY <4>1 DEF Due
      <4> QED BY <2>1, <2>2, <2>3, <4>1, <4>2
    <3>2. CASE ~MoreHeights
      <4>1. pc' = "top" /\ Due' = {}
        BY <1>8, <3>2 DEF Mark, Due
      <4>2. \A t \in batch.txs : Block[t] <= batch.stop
        <5>1. batch.txs \subseteq TxsAt(height..batch.stop)
          BY <2>1 DEF CursorExact, InBatch
        <5> QED BY <2>1, <5>1 DEF TxsAt, TypeOK, LoopTyped
      <4>3. Due = {}
        BY <2>1, <2>2, <2>3, <3>2, <4>2 DEF MoreHeights
      <4> QED BY <4>1, <4>3
    <3> QED BY <3>1, <3>2
  <2> QED BY <2>1, <2>4, SumsQuiet
<1> QED BY <1>1, <1>2, <1>3, <1>4, <1>5, <1>6, <1>7, <1>8 DEF QuietStep

LEMMA ExactInvInit == Init => ExactInv
<1> SUFFICES ASSUME Init PROVE ExactInv
  OBVIOUS
<1> USE DEF Init
<1>1. \A d : Own(d) = {}
  BY DEF Own
<1>2. DocsExact
  <2>1. \A d \in Docs : merged[d] = {}
    OBVIOUS
  <2> QED BY <1>1, <2>1 DEF DocsExact
<1>3. CursorExact /\ KnownExact
  BY DEF CursorExact, KnownExact, InBatch
<1>4. SumFunction(active) = 0 /\ SumFunction(overflow) = 0
  BY PhaseSumZero
<1>5. (stored \ Due) \ flagged = {} /\ flagged \ over = {}
  OBVIOUS
<1>6. StakeOf((stored \ Due) \ flagged) = 0 /\ StakeOf(flagged \ over) = 0
  BY <1>5, StakeEmpty
<1>7. SumsExact
  BY <1>4, <1>6 DEF SumsExact
<1> QED BY <1>2, <1>3, <1>7 DEF ExactInv

LEMMA ExactInvStep ==
    ASSUME TypeOK, TypeOK', CountInv, TotalsInv, ExactInv, [Next]_vars
    PROVE  ExactInv'
<1> SUFFICES ASSUME Undisturbed'
             PROVE  DocsExact' /\ CursorExact' /\ KnownExact' /\ SumsExact'
  BY DEF ExactInv
<1>1. Undisturbed /\ (QuietStep \/ UNCHANGED vars)
  BY QuietSplit
<1>2. DocsExact /\ CursorExact /\ KnownExact /\ SumsExact
  BY <1>1 DEF ExactInv
<1>3. faults' = 0
  BY DEF Undisturbed
<1>4. CASE QuietStep
  BY <1>2, <1>3, <1>4, DocsExactStep, CursorExactStep, KnownExactStep, SumsExactStep
<1>5. CASE UNCHANGED vars
  <2>1. UNCHANGED <<stored, times, merged, updates, strays>> /\ UNCHANGED <<pc, height, batch>>
        /\ UNCHANGED <<curPhase, known, flagged, over, active, overflow>>
    BY <1>5 DEF vars, mongo, scan
  <2>2. DocsExact' /\ CursorExact' /\ KnownExact'
    BY <1>2, <2>1 DEF DocsExact, Own, CursorExact, KnownExact, InBatch
  <2>3. SumsExact'
    BY <1>2, <2>1 DEF SumsExact, Due, StakeOf, Counted, Accepted, ActiveBefore
  <2> QED BY <2>2, <2>3
<1> QED BY <1>1, <1>4, <1>5

\* A scan that neither failed nor restarted leaves every total exact
\* (TransactionService.saveTransactionBatch, PhaseStatsService.updatePhaseStatsBatch).
THEOREM ExactWhenUndisturbedHolds == Spec => []ExactWhenUndisturbed
<1>1. Init => CountInv
  BY DEF Init, CountInv, NeverCountedTwice
<1>2. TypeOK /\ CountInv /\ [Next]_vars => CountInv'
  BY CountInvStep
<1>3. TypeOK /\ TotalsInv /\ [Next]_vars => TotalsInv'
  BY TotalsInvStep
<1>4. TypeOK /\ TypeOK' /\ CountInv /\ TotalsInv /\ ExactInv /\ [Next]_vars => ExactInv'
  BY ExactInvStep
<1>5. TypeOK /\ ExactInv => ExactWhenUndisturbed
  <2> SUFFICES ASSUME TypeOK, ExactInv, pc = "done", faults = 0, restarts = 0
               PROVE  /\ \A d \in Docs : merged[d] = Own(d) /\ \A t \in Own(d) : times[d][t] = 1
                      /\ SumFunction(active) = StakeOf(stored \ flagged)
                      /\ SumFunction(overflow) = StakeOf(flagged)
    BY DEF ExactWhenUndisturbed, Own
  <2>1. DocsExact /\ SumsExact
    BY DEF ExactInv, Undisturbed
  <2>2. updates = {}
    BY DEF TypeOK, BatchInOrder
  <2>3. Due = {} /\ over = {}
    BY <2>1 DEF Due, SumsExact
  <2>4. (stored \ Due) \ flagged = stored \ flagged /\ flagged \ over = flagged
    BY <2>3
  <2> QED BY <2>1, <2>2, <2>4 DEF DocsExact, SumsExact
<1> QED BY <1>1, <1>2, <1>3, <1>4, <1>5, TotalsInit, ExactInvInit, TypeCorrect, PTL DEF Spec
=============================================================================
