----------------------------- MODULE PhaseScan -----------------------------
(***************************************************************************)
(* BabylonIndexer.scanBlocks: the staking transactions of a range of       *)
(* Bitcoin blocks are read in batches, stored in MongoDB and counted in    *)
(* three places, one update after the other: the finality providers and    *)
(* the stakers (TransactionService), the phase (PhaseStatsService) and the *)
(* last processed block (IndexerStateService).  No update is in a          *)
(* transaction: a process that dies, or a call that fails, leaves those    *)
(* before it done.                                                         *)
(***************************************************************************)
EXTENDS Integers, FiniteSets, Functions

CONSTANTS
    Txs,            \* valid staking transactions, numbered in block order
    Block,          \* Block[t]: the height of t
    Amount,         \* Amount[t]: stakeAmount
    Provider,       \* Provider[t]: finalityProvider
    Staker,         \* Staker[t]: stakerAddress
    Invalid,        \* heights with a tagged transaction that is not valid
    EndHeight,      \* END_HEIGHT; START_HEIGHT is 1
    Starts,         \* Starts[p]: startHeight of phase p; a phase ends where
    PhasesEnd,      \*   the next one starts, the last one at PhasesEnd
    BatchSize,      \* BATCH_SIZE
    Cap,            \* staking cap of phase 1, the literal 1000 BTC
    Target,         \* PHASE1_TARGET_STAKE
    Near,           \* stake from which inactivity ends phase 1
    Quiet,          \* inactivityThreshold.blocks
    Reindexed,      \* phases INDEX_SPECIFIC_PHASE may ask for
    MaxFaults,      \* bound: database or node errors
    MaxRestarts     \* bound: times the process dies

Phases == DOMAIN Starts

ASSUME ConstantsAssumption ==
    /\ IsFiniteSet(Txs) /\ Txs = 1..Cardinality(Txs)
    /\ Block \in [Txs -> Nat \ {0}] /\ Amount \in [Txs -> Nat]
    /\ \A t, u \in Txs : t < u =>
         \/ Block[t] < Block[u]
         \/ Block[t] = Block[u] /\ Amount[t] >= Amount[u]
    /\ IsFiniteSet(Phases) /\ Phases = 1..Cardinality(Phases) /\ 1 \in Phases
    /\ Starts \in [Phases -> Nat \ {0}]
    /\ \A p, q \in Phases : p < q => Starts[p] < Starts[q]
    /\ \A p \in Phases : Starts[p] <= PhasesEnd
    /\ EndHeight \in Nat /\ PhasesEnd \in Nat /\ BatchSize \in Nat \ {0}
    /\ Cap \in Nat /\ Target \in Nat /\ Near \in Nat /\ Quiet \in Nat
    /\ Invalid \subseteq Nat /\ Reindexed \subseteq Phases
    /\ MaxFaults \in Nat /\ MaxRestarts \in Nat

VARIABLES
    \* MongoDB
    stored,         \* Transaction: the ids stored
    flagged,        \* Transaction: those with isOverflow
    times,          \* times[d][t]: $incs of totalStake of document d by t
    merged,         \* merged[d]: transactions in phaseStakes of d
    known,          \* PhaseStats: phases with a document
    total,          \* PhaseStats: totalStakeBTC
    active,         \* PhaseStats: activeStakeBTC
    overflow,       \* PhaseStats: overflowStakeBTC
    lastProcessed,  \* IndexerState: lastProcessedBlock
    \* scanBlocks
    pc,             \* the call scanBlocks is about to make
    target,         \* targetPhase, 0 without INDEX_SPECIFIC_PHASE
    height,         \* currentHeight at the top of the loop
    until,          \* actualEndHeight
    curPhase,       \* currentPhaseNumber
    batch,          \* the batch: its phase, last height, last height with
                    \*   stats, jump target, transactions and heights done
    over,           \* overflowTransactions of the height being counted
    updates,        \* awaited updates of providers and stakers
    strays,         \* updates left running by a Promise.all that rejected
    \* history and bounds
    passed, faults, restarts

mongo == <<stored, flagged, times, merged, known, total, active, overflow,
           lastProcessed>>
scan  == <<pc, target, height, until, curPhase, batch, over>>
vars  == <<mongo, scan, updates, strays, passed, faults, restarts>>

-----------------------------------------------------------------------------
\* The chain, the phases and the stake

Docs == {Provider[t] : t \in Txs} \cup {Staker[t] : t \in Txs}
DocsOf(t) == {Provider[t], Staker[t]}
TxsAt(H) == {t \in Txs : Block[t] \in H}
StakeOf(T) == SumFunctionOnSet(Amount, T)

LastOf(p) == IF p + 1 \in Phases THEN Starts[p + 1] - 1 ELSE PhasesEnd
NoPhase == 0
\* getPhaseForHeight
PhaseAt(h) == IF \E p \in Phases : h \in Starts[p]..LastOf(p)
              THEN CHOOSE p \in Phases : h \in Starts[p]..LastOf(p)
              ELSE NoPhase
PhasesAfter(h) == {p \in Phases : Starts[p] > h}
\* phases.find(p => p.startHeight > h): a set of one phase, or of none
NextPhase(h) == {p \in PhasesAfter(h) :
                    \A q \in PhasesAfter(h) : Starts[p] <= Starts[q]}

BatchEnd == IF height + BatchSize - 1 <= until THEN height + BatchSize - 1
            ELSE until
\* targetPhase || getPhaseForHeight(currentHeight)
PhaseNow == IF target # NoPhase THEN target ELSE PhaseAt(height)

Unread == {"unread"}
NoBatch == [phase |-> NoPhase, end |-> 0, stop |-> 0, jump |-> 0,
            txs |-> {}, at |-> 0]

Init ==
    /\ stored = {} /\ flagged = {} /\ known = {} /\ lastProcessed = 0
    /\ times = [d \in Docs |-> [t \in Txs |-> 0]]
    /\ merged = [d \in Docs |-> {}]
    /\ total = [p \in Phases |-> 0] /\ active = total /\ overflow = total
    /\ pc = "down" /\ target = NoPhase /\ height = 0 /\ until = 0
    /\ curPhase = NoPhase /\ batch = NoBatch /\ over = {}
    /\ updates = {} /\ strays = {}
    /\ passed = {} /\ faults = 0 /\ restarts = 0

\* A step with n database or node errors.
Costs(n) == faults + n <= MaxFaults /\ faults' = faults + n

-----------------------------------------------------------------------------
\* PhaseStatsService.initPhaseStats of every phase of P, a read-modify-write
\* that also overwrites the total of a document it finds.  Those of Q get a
\* document if they have none (getPhaseStats).
InitPhaseStats(P, Q) ==
    /\ known' = known \cup P \cup Q
    /\ total' = [p \in Phases |-> IF p \in P THEN 0 ELSE total[p]]

\* With INDEX_SPECIFIC_PHASE the heights below the phase are skipped.
Skipped(p) == IF p = NoPhase THEN {} ELSE 1..(Starts[p] - 1)

\* scanBlocks up to its loop: every phase (or the one asked for) gets its
\* stats; an error doing so is logged.
Start ==
    /\ pc = "down"
    /\ \E p \in Reindexed \cup {NoPhase} :
         /\ target' = p
         /\ height' = IF p = NoPhase THEN lastProcessed + 1
                      ELSE Starts[p]
         /\ until' = IF p = NoPhase THEN EndHeight ELSE LastOf(p)
         /\ passed' = passed \cup Skipped(p)
         /\ \E ok \in SUBSET (IF p = NoPhase THEN Phases ELSE {p}) :
              /\ Costs(IF p = NoPhase THEN Cardinality(Phases \ ok)
                       ELSE Cardinality({p} \ ok))
              /\ InitPhaseStats(ok, {})
    /\ pc' = "top" /\ curPhase' = NoPhase /\ batch' = NoBatch /\ over' = {}
    /\ UNCHANGED <<stored, flagged, times, merged, active, overflow,
                   lastProcessed, updates, strays, restarts>>

\* The loop, or the search for a phase, ends.
Finish ==
    /\ pc = "top"
    /\ \/ height > until
       \/ PhaseNow = NoPhase /\ PhasesAfter(height) = {}
    /\ pc' = "done"
    /\ UNCHANGED <<mongo, target, height, until, curPhase, batch, over,
                   updates, strays, passed, faults, restarts>>

\* A height in no phase: on to the next phase.
SkipToPhase ==
    /\ pc = "top" /\ height <= until
    /\ PhaseNow = NoPhase
    /\ \E p \in NextPhase(height) :
         /\ height' = Starts[p]
         /\ \/ /\ p # curPhase /\ Costs(0) /\ InitPhaseStats({p}, {})
               /\ curPhase' = p
            \/ /\ p # curPhase /\ Costs(1) /\ UNCHANGED <<known, total, curPhase>>
            \/ /\ p = curPhase /\ Costs(0) /\ UNCHANGED <<known, total, curPhase>>
    /\ batch' = NoBatch
    /\ UNCHANGED <<stored, flagged, times, merged, active, overflow,
                   lastProcessed, pc, target, until, over, updates, strays,
                   passed, restarts>>

-----------------------------------------------------------------------------
\* getParamsForHeight answers null: an error, or phase 1 has its stake (its
\* own total, reset whenever the phase is initialised, or the global one).
Paramless(h, dark, tot) ==
    \/ h \in dark
    \/ /\ target = NoPhase /\ PhaseAt(h) = 1
       /\ \/ tot[1] > 0 /\ tot[1] >= Cap
          \/ StakeOf(stored) >= Target

\* The phases whose total getParamsForHeight reads for the batch
AskedFor(dark) == {p \in {1} : target = NoPhase /\ \E h \in (height..BatchEnd) \ dark :
                                                   PhaseAt(h) = p}

\* checkPhaseCondition, and checkInactivityCondition for phase 1
PhaseEnded(p, h) ==
    IF p = 1
    THEN \/ StakeOf(stored) >= Target
         \/ /\ StakeOf(stored) >= Near
            /\ \A t \in stored : Block[t] \notin Starts[1]..h \cap (h - Quiet)..h
    ELSE lastProcessed >= LastOf(p)

\* The loop over the blocks breaks at h.
Breaks(p, h) == target = NoPhase /\ PhaseEnded(p, h) /\ PhasesAfter(h) # {}

\* Mutant: the jump of the loop body takes effect, with nothing to add the 1.
JumpBack(b) == IF b.jump # 0 THEN b.jump - 1 ELSE b.end + 1

\* currentHeight = batchEnd + 1, which overwrites the jump of the loop body
AfterBatch(b) == b.end + 1

\* The next batch: the initialisation of its phase, the parameters, the blocks,
\* the transactions of each block, and the phase condition after each.
\* stop: the last height looked at, ok: the phases whose initialisation
\* succeeds, dark: the heights whose parameters fail to load.
Fetch ==
    /\ pc = "top" /\ height <= until /\ PhaseNow # NoPhase
    /\ \E stop \in height..BatchEnd, ok \in SUBSET Phases,
          dark \in SUBSET (height..BatchEnd) :
         LET p     == PhaseNow
             here  == IF p # curPhase THEN {p} ELSE {}
             next  == IF Breaks(p, stop) THEN NextPhase(stop) ELSE {}
             tot   == [total EXCEPT ![p] = IF p \in here \cap ok THEN 0 ELSE @]
             blank == {h \in height..BatchEnd : Paramless(h, dark, tot)}
             seen  == (height..stop) \ blank
             found == {t \in TxsAt(seen) : PhaseAt(Block[t]) # NoPhase}
         IN /\ \A h \in height..(stop - 1) : ~Breaks(p, h)
            /\ stop = BatchEnd \/ Breaks(p, stop)
            /\ ok \subseteq here \cup next
            /\ Costs(Cardinality(dark) + Cardinality((here \cup next) \ ok))
            /\ InitPhaseStats(ok, AskedFor(dark))
            /\ curPhase' = IF next \cap ok # {} THEN CHOOSE q \in next \cap ok : TRUE
                           ELSE IF here \cap ok # {} THEN p ELSE curPhase
            /\ batch' = [phase |-> p, end |-> BatchEnd, stop |-> stop,
                         jump |-> IF next = {} THEN 0
                                  ELSE Starts[CHOOSE q \in next : TRUE],
                         txs |-> found, at |-> height]
            /\ passed' = passed \cup blank \cup (stop + 1)..BatchEnd
            /\ \/ /\ found # {} /\ pc' = "insert" /\ UNCHANGED height
               \/ /\ found = {} /\ seen \cap Invalid # {}
                  /\ pc' = "count" /\ UNCHANGED height
               \/ /\ found = {} /\ seen \cap Invalid = {}
                  /\ pc' = "top" /\ height' = AfterBatch(batch')
    /\ UNCHANGED <<stored, flagged, times, merged, active, overflow,
                   lastProcessed, target, until, over, updates, strays, restarts>>

\* The catch of the loop: the batch is given up for good.
GiveUp ==
    /\ pc' = "top" /\ height' = AfterBatch(batch)
    /\ passed' = passed \cup height..batch.end
    /\ over' = {}
    /\ UNCHANGED <<target, until, curPhase, batch, restarts>>

\* rpc.getBlock of a height of the batch fails.
FetchFails ==
    /\ pc = "top" /\ height <= until /\ PhaseNow # NoPhase
    /\ LET p == PhaseNow IN
         \E ok \in SUBSET {p} :
           /\ p = curPhase => ok = {}
           /\ Costs(IF p # curPhase /\ ok = {} THEN 2 ELSE 1)
           /\ InitPhaseStats(ok, AskedFor({}))
           /\ curPhase' = IF ok # {} THEN p ELSE curPhase
    /\ height' = BatchEnd + 1 /\ batch' = NoBatch
    /\ passed' = passed \cup height..BatchEnd
    /\ UNCHANGED <<stored, flagged, times, merged, active, overflow,
                   lastProcessed, pc, target, until, over, updates, strays, restarts>>

-----------------------------------------------------------------------------
\* Mutant: every transaction of the batch is counted, stored before or not.
FreshAll == batch.txs

\* saveTransactionBatch: the transactions not stored yet are inserted, then
\* the documents of their providers and stakers updated, all at once.
Fresh == batch.txs \ stored

UpdatesFor(T) == {[doc |-> d, txs |-> {t \in T : d \in DocsOf(t)},
                   read |-> FALSE, seen |-> {}] :
                    d \in UNION {DocsOf(t) : t \in T}}

Insert ==
    /\ pc = "insert"
    /\ stored' = stored \cup Fresh
    /\ updates' = UpdatesFor(Fresh)
    /\ pc' = IF Fresh = {} THEN "count" ELSE "docs"
    /\ UNCHANGED <<flagged, times, merged, known, total, active, overflow,
                   lastProcessed, target, height, until, curPhase, batch, over,
                   strays, passed, faults, restarts>>

\* Mutant: every error of insertMany is swallowed, not only duplicates.
InsertErrorSwallowed ==
    /\ pc = "insert" /\ Costs(1)
    /\ \E T \in SUBSET Fresh : stored' = stored \cup T
    /\ pc' = "count"
    /\ UNCHANGED <<flagged, times, merged, known, total, active, overflow,
                   lastProcessed, target, height, until, curPhase, batch, over,
                   updates, strays, passed, restarts>>

\* insertMany fails with some of them inserted.
InsertFails ==
    /\ pc = "insert" /\ Costs(1) /\ GiveUp
    /\ \E T \in SUBSET Fresh : stored' = stored \cup T
    /\ UNCHANGED <<flagged, times, merged, known, total, active, overflow,
                   lastProcessed, updates, strays>>

\* One update reads its document: the phase stakes to merge with.
ReadDoc(u) ==
    /\ ~u.read
    /\ LET v == [u EXCEPT !.read = TRUE, !.seen = merged[u.doc]] IN
         IF u \in updates
         THEN updates' = (updates \ {u}) \cup {v} /\ UNCHANGED strays
         ELSE strays' = (strays \ {u}) \cup {v} /\ UNCHANGED updates
    /\ UNCHANGED <<mongo, scan, passed, faults, restarts>>

\* Mutant: the phase stakes are those of the new transactions.
OnlyNewStakes(u) == u.txs

MergedStakes(u) == u.seen \cup u.txs

\* It writes it back: $inc of the totals, $set of the phase stakes.
WriteDoc(u) ==
    /\ u.read
    /\ times' = [times EXCEPT ![u.doc] =
                   [t \in Txs |-> IF t \in u.txs THEN @[t] + 1 ELSE @[t]]]
    /\ merged' = [merged EXCEPT ![u.doc] = MergedStakes(u)]
    /\ updates' = updates \ {u} /\ strays' = strays \ {u}
    /\ UNCHANGED <<stored, flagged, known, total, active, overflow,
                   lastProcessed, scan, passed, faults, restarts>>

\* Promise.all has resolved.
DocsDone ==
    /\ pc = "docs" /\ updates = {}
    /\ pc' = "count"
    /\ UNCHANGED <<mongo, target, height, until, curPhase, batch, over,
                   updates, strays, passed, faults, restarts>>

\* A call of an awaited update fails: the batch is given up, the other
\* updates go on.
DocFails(u) ==
    /\ pc = "docs" /\ u \in updates /\ Costs(1) /\ GiveUp
    /\ updates' = {} /\ strays' = strays \cup (updates \ {u})
    /\ UNCHANGED mongo

\* A call of an update nobody waits for fails.
StrayFails(u) ==
    /\ u \in strays /\ Costs(1)
    /\ strays' = strays \ {u}
    /\ UNCHANGED <<mongo, scan, updates, passed, restarts>>

-----------------------------------------------------------------------------
\* updatePhaseStatsBatch and updateLastProcessedBlock, height after height
Counted == batch.txs \cap TxsAt({batch.at})

\* Mutant: the stake so far is read from totalStakeBTC.
TotalBefore(p) == total[p]

ActiveBefore(p) == active[p]

\* The active stake after each transaction of T, in order
RunningStake(p, T) ==
    LET run[n \in {0} \cup Txs] ==
          IF n = 0 THEN ActiveBefore(p)
          ELSE IF n \in T /\ run[n - 1] + Amount[n] <= Cap
               THEN run[n - 1] + Amount[n]
               ELSE run[n - 1]
    IN run

Overflowing(p, T) ==
    IF p = 1
    THEN LET run == RunningStake(p, T) IN {t \in T : run[t - 1] + Amount[t] > Cap}
    ELSE {}

\* The transactions left active: none if together they exceed the cap.
Accepted(p, T, O) ==
    IF p = 1 /\ ActiveBefore(p) + StakeOf(T \ O) > Cap THEN {} ELSE T \ O

\* The stats are read and isOverflow set on each transaction.
FlagTxs ==
    /\ pc = "count" /\ Counted # {} /\ batch.phase \in known
    /\ over' = Overflowing(batch.phase, Counted)
    /\ flagged' = (flagged \ Counted)
                  \cup (Counted \ Accepted(batch.phase, Counted, over'))
    /\ pc' = "inc"
    /\ UNCHANGED <<stored, times, merged, known, total, active, overflow,
                   lastProcessed, target, height, until, curPhase, batch,
                   updates, strays, passed, faults, restarts>>

\* The phase has no document: an error like any other.
NoPhaseStats ==
    /\ pc = "count" /\ Counted # {} /\ batch.phase \notin known /\ GiveUp
    /\ UNCHANGED <<mongo, updates, strays, faults>>

OverflowAfter(p, o) == [overflow EXCEPT ![p] = @ + o]

\* The phase's counters
IncStats ==
    /\ pc = "inc"
    /\ LET p == batch.phase
           a == StakeOf(Accepted(p, Counted, over))
           o == StakeOf(over)
       IN /\ total' = [total EXCEPT ![p] = @ + a + o]
          /\ active' = [active EXCEPT ![p] = @ + a]
          /\ overflow' = OverflowAfter(p, o)
    /\ pc' = "mark" /\ over' = {}
    /\ UNCHANGED <<stored, flagged, times, merged, known, lastProcessed, target,
                   height, until, curPhase, batch, updates, strays, passed,
                   faults, restarts>>

MoreHeights == batch.at < batch.stop

\* lastProcessedBlock, then the next height or the next batch
Mark ==
    /\ pc = "mark" \/ (pc = "count" /\ Counted = {})
    /\ lastProcessed' = batch.at
    /\ IF MoreHeights
       THEN /\ batch' = [batch EXCEPT !.at = @ + 1]
            /\ pc' = "count" /\ UNCHANGED height
       ELSE pc' = "top" /\ height' = AfterBatch(batch) /\ UNCHANGED batch
    /\ UNCHANGED <<stored, flagged, times, merged, known, total, active,
                   overflow, target, until, curPhase, over, updates, strays,
                   passed, faults, restarts>>

\* One of these calls fails, some isOverflow perhaps set before.
CountFails ==
    /\ pc \in {"count", "inc", "mark"} /\ Costs(1) /\ GiveUp
    /\ IF pc = "count" /\ batch.phase \in known
       THEN \E T \in SUBSET Counted :
              LET O == Overflowing(batch.phase, Counted) IN
              flagged' = (flagged \ T) \cup (T \ Accepted(batch.phase, Counted, O))
       ELSE UNCHANGED flagged
    /\ UNCHANGED <<stored, times, merged, known, total, active, overflow,
                   lastProcessed, updates, strays>>

\* The process dies; whatever was in flight is gone.
Crash ==
    /\ pc # "down" /\ restarts < MaxRestarts /\ restarts' = restarts + 1
    /\ pc' = "down" /\ target' = NoPhase /\ height' = 0 /\ until' = 0
    /\ curPhase' = NoPhase /\ batch' = NoBatch /\ over' = {}
    /\ updates' = {} /\ strays' = {}
    /\ UNCHANGED <<mongo, passed, faults>>

Scan == \/ Start \/ Finish \/ SkipToPhase \/ Fetch \/ Insert \/ DocsDone
        \/ FlagTxs \/ NoPhaseStats \/ IncStats \/ Mark
        \/ \E u \in updates \cup strays : ReadDoc(u) \/ WriteDoc(u)

Next == \/ Scan
        \/ FetchFails \/ InsertFails \/ CountFails \/ Crash
        \/ \E u \in updates : DocFails(u)
        \/ \E u \in strays : StrayFails(u)

Spec == Init /\ [][Next]_vars

\* Node runs the process until its calls are answered; it need not fail.
FairSpec == Spec /\ WF_vars(Scan)

-----------------------------------------------------------------------------
Updates == [doc : Docs, txs : SUBSET Txs, read : BOOLEAN, seen : SUBSET Txs]

StoreTyped ==
    /\ stored \subseteq Txs /\ flagged \subseteq Txs
    /\ times \in [Docs -> [Txs -> Nat]] /\ merged \in [Docs -> SUBSET Txs]
    /\ known \subseteq Phases /\ lastProcessed \in Nat
    /\ updates \subseteq Updates /\ strays \subseteq Updates
    /\ passed \subseteq Nat /\ faults \in Nat /\ restarts \in Nat

LoopTyped ==
    /\ pc \in {"down", "top", "insert", "docs", "count", "inc", "mark", "done"}
    /\ target \in Reindexed \cup {NoPhase} /\ height \in Nat /\ until \in Nat
    /\ curPhase \in Phases \cup {NoPhase} /\ over \subseteq Txs
    /\ batch \in [phase : Phases \cup {NoPhase}, end : Nat, stop : Nat,
                  jump : Nat, txs : SUBSET Txs, at : Nat]

InBatch == pc \in {"insert", "docs", "count", "inc", "mark"}

BatchInOrder ==
    /\ updates # {} => pc = "docs"
    /\ InBatch => /\ height <= batch.at /\ batch.at <= batch.stop
                  /\ batch.stop <= batch.end /\ batch.phase # NoPhase

TypeOK == StoreTyped /\ LoopTyped /\ BatchInOrder

\* No stored stake is counted twice for its provider or its staker, whatever
\* fails or restarts between the insert and the updates
\* (TransactionService.saveTransactionBatch).
NeverCountedTwice ==
    \A d \in Docs, t \in Txs :
        /\ times[d][t] <= 1
        /\ times[d][t] > 0 => t \in stored /\ d \in DocsOf(t)

\* A scan resumes after lastProcessedBlock, so a staking transaction at or
\* below it must be stored, or its height given up on purpose: its batch
\* failed, its parameters were missing, its phase had ended, or a scan was
\* told to start at a later phase.
ResumeCoverage ==
    \A t \in Txs : Block[t] <= lastProcessed /\ PhaseAt(Block[t]) # NoPhase
                     => t \in stored \/ Block[t] \in passed

\* The active stake of phase 1 never exceeds its cap, also when a height is
\* counted again after a restart (PhaseStatsService.updatePhaseStatsBatch).
CapHolds == active[1] <= Cap

\* totalStakeBTC never exceeds what it is the sum of: initPhaseStats resets it
\* alone, and both are incremented together.
TotalWithinParts == \A p \in Phases : total[p] <= active[p] + overflow[p]

\* The totals of the phases survive recounts, stray updates and restarts.
PhaseTotalsHold == CapHolds /\ TotalWithinParts

\* A scan that neither failed nor restarted leaves every total exact: the
\* documents count the stored transactions, the phases split them by isOverflow.
ExactWhenUndisturbed ==
    pc = "done" /\ faults = 0 /\ restarts = 0 =>
        /\ \A d \in Docs :
             LET own == {t \in stored : d \in DocsOf(t)} IN
             merged[d] = own /\ \A t \in own : times[d][t] = 1
        /\ SumFunction(active) = StakeOf(stored \ flagged)
        /\ SumFunction(overflow) = StakeOf(flagged)

\* Once the process stops dying, a scan ends.
Terminates == <>(pc = "done")
=============================================================================
