------------------------ MODULE ValidatorSignatures ------------------------
(***************************************************************************)
(* ValidatorSignatureService.handleNewBlock keeps, per validator, counters *)
(* of the blocks it signed and missed.  Each call goes through four        *)
(* database round trips: look the validator up and create it, increment,   *)
(* read back, overwrite the totals.  Calls overlap: live blocks come from  *)
(* the WebSocket, and ValidatorHistoricalSyncService runs a whole batch of *)
(* older blocks at once.                                                   *)
(*                                                                         *)
(* One validator's document is modelled: documents meet only in            *)
(* getLastProcessedBlock, the greatest lastSignedBlock of all of them.     *)
(***************************************************************************)
EXTENDS Integers, Sequences, FiniteSets

CONSTANTS
    MaxHeight,      \* bound: the chain stops here
    Window,         \* SIGNATURE_PERFORMANCE_WINDOW
    RecentLimit,    \* RECENT_BLOCKS_LIMIT, and the literal 100 of the rate
    BatchSize,      \* ValidatorHistoricalSyncService.BATCH_SIZE
    MaxHistory,     \* MAX_HISTORICAL_BLOCKS
    Pruned,         \* bound: heights the node does not have any more
    MaxLive,        \* bound: live blocks being handled at once
    MaxErrors       \* bound: database or node errors

ASSUME ConstantsAssumption ==
    /\ MaxHeight \in Nat /\ Window \in Nat \ {0} /\ RecentLimit \in Nat \ {0}
    /\ BatchSize \in Nat \ {0} /\ MaxHistory \in Nat /\ Pruned \in Nat
    /\ MaxLive \in Nat /\ MaxErrors \in Nat

Heights == 1..MaxHeight
Calls == {"live", "sync"} \X Heights
Steps == {"idle", "find", "create", "inc", "others", "read", "set"}

VARIABLES
    signs,      \* which blocks the validator signs
    tip,        \* height of the chain
    exists,     \* the validator has a document, with these fields:
    signed,     \*   totalSignedBlocks
    totalBlocks,    \*   totalBlocksInWindow
    recent,     \*   recentBlocks: signed or not, oldest first
    streak,     \*   consecutiveSigned
    misses,     \*   consecutiveMissed
    rate,       \*   signatureRate, as a fraction
    lastAny,    \* the greatest lastSignedBlock of all documents
    pc,         \* where the call for a block is
    snap,       \* what that call read back
    sync,       \* startSync: "idle", "height", "last", "batch",
                \*   "wait" or "search"
    from,       \* startHeight
    upTo,       \* the currentHeight it read
    began,      \* history: the startHeight it began with
    settled,    \* history: heights counted by a call, or given up after an error
    alone,      \* history: no two calls overlapped and none failed
    seen,       \* history: while alone, signed or not, in the order of the
                \*   increments
    errors

doc  == <<exists, signed, totalBlocks, recent, streak, misses, rate, lastAny>>
syncVars == <<sync, from, upTo, began>>
history == <<settled, alone, seen>>
signatureVars == <<signs, tip, doc, pc, snap, syncVars, history, errors>>

Least(a, b) == IF a < b THEN a ELSE b
Greatest(a, b) == IF a > b THEN a ELSE b
LastN(s, n) == SubSeq(s, Greatest(1, Len(s) - n + 1), Len(s))
SignedIn(s) == Cardinality({i \in DOMAIN s : s[i]})

Document == [signed |-> signed, total |-> totalBlocks, recent |-> recent,
             streak |-> streak, misses |-> misses]
NoDocument == [signed |-> 0, total |-> 0, recent |-> <<>>, streak |-> 0, misses |-> 0]

SignatureInit ==
    /\ signs \in [Heights -> BOOLEAN] /\ tip = 0
    /\ exists = FALSE /\ signed = 0 /\ totalBlocks = 0 /\ recent = <<>>
    /\ streak = 0 /\ misses = 0 /\ rate = [num |-> 1, den |-> 1]
    /\ lastAny = 0
    /\ pc = [c \in Calls |-> "idle"] /\ snap = [c \in Calls |-> NoDocument]
    /\ sync = "idle" /\ from = 1 /\ upTo = 0 /\ began = 1
    /\ settled = {} /\ alone = TRUE /\ seen = <<>> /\ errors = 0

Running(source) == {c \in Calls : c[1] = source /\ pc[c] # "idle"}
InFlight == Running("live") \cup Running("sync")

\* A step that may start a call or lose one.
Overlaps ==
    /\ alone' = (alone /\ Cardinality(InFlight') <= 1 /\ errors' = errors)
    /\ seen' = IF alone' THEN seen ELSE <<>>

-----------------------------------------------------------------------------
(* Blocks.                                                                   *)

\* The chain grows; the block is announced when the socket is up.
NodeCommits ==
    /\ tip < MaxHeight /\ tip' = tip + 1
    /\ \/ UNCHANGED pc
       \/ /\ Cardinality(Running("live")) < MaxLive
          /\ pc' = [pc EXCEPT ![<<"live", tip + 1>>] = "find"]
    /\ UNCHANGED <<signs, doc, snap, syncVars, settled, errors>>
    /\ Overlaps

-----------------------------------------------------------------------------
(* handleNewBlock, for call c.                                               *)

\* Look up the known validators: a block is counted for those and for its
\* signers.
Find(c) ==
    /\ pc[c] = "find"
    /\ pc' = [pc EXCEPT ![c] = IF signs[c[2]] THEN "create" ELSE IF exists THEN "inc" ELSE "others"]
    /\ UNCHANGED <<signs, tip, doc, snap, syncVars, history, errors>>

\* Create the document unless there is one ($setOnInsert).
Create(c) ==
    /\ pc[c] = "create" /\ pc' = [pc EXCEPT ![c] = "inc"]
    /\ exists' = TRUE
    /\ UNCHANGED <<signs, tip, signed, totalBlocks, recent, streak, misses, rate, lastAny, snap, syncVars, history, errors>>

\* lastSignedBlock is set in the documents of the signers: some of them may
\* have held the greatest one so far, or all.
LastSignedBlocks(c) ==
    /\ lastAny' \in {c[2], Greatest(lastAny, c[2])}
    /\ settled' = settled \cup {c[2]}

\* The block is counted for others only.
CountOthers(c) ==
    /\ pc[c] = "others" /\ pc' = [pc EXCEPT ![c] = "idle"]
    /\ LastSignedBlocks(c)
    /\ UNCHANGED <<signs, tip, exists, signed, totalBlocks, recent, streak, misses, rate, snap, syncVars, alone, seen, errors>>

\* $push with $slice, $inc, and $set of lastSignedBlock when signed.
Increment(c) ==
    /\ pc[c] = "inc" /\ pc' = [pc EXCEPT ![c] = "read"]
    /\ recent' = LastN(Append(recent, signs[c[2]]), RecentLimit)
    /\ signed' = signed + (IF signs[c[2]] THEN 1 ELSE 0)
    /\ totalBlocks' = totalBlocks + 1
    /\ LastSignedBlocks(c)
    /\ seen' = IF alone THEN Append(seen, signs[c[2]]) ELSE seen
    /\ UNCHANGED <<signs, tip, exists, streak, misses, rate, snap, syncVars, alone, errors>>

\* Read the document back.
ReadBack(c) ==
    /\ pc[c] = "read" /\ pc' = [pc EXCEPT ![c] = "set"]
    /\ snap' = [snap EXCEPT ![c] = Document]
    /\ UNCHANGED <<signs, tip, doc, syncVars, history, errors>>

Cut(c) == Least(snap[c].total, Window)

\* Mutant: only the number of blocks is held to the window.
SignedNotCut(c) == snap[c].signed

\* "Check totalSignedBlocks count and fix if necessary".
SignedCut(c) == Least(snap[c].signed, Cut(c))

\* The rate: of the recent blocks while there are few, of the totals later,
\* before the number of signed blocks is cut.
Rate(c) ==
    IF Cut(c) < RecentLimit
    THEN [num |-> SignedIn(snap[c].recent), den |-> Len(snap[c].recent)]
    ELSE [num |-> snap[c].signed, den |-> Cut(c)]

\* Mutant: the streak goes on after a missed block.
StreakOf(c) ==
    IF snap[c].recent[Len(snap[c].recent)] THEN snap[c].streak + 1 ELSE snap[c].streak

Streak(c) == IF snap[c].recent[Len(snap[c].recent)] THEN snap[c].streak + 1 ELSE 0
Misses(c) == IF snap[c].recent[Len(snap[c].recent)] THEN 0 ELSE snap[c].misses + 1

\* Overwrite the totals with what follows from the document read back.
SetTotals(c) ==
    /\ pc[c] = "set" /\ pc' = [pc EXCEPT ![c] = "idle"]
    /\ totalBlocks' = Cut(c) /\ signed' = SignedCut(c)
    /\ rate' = Rate(c) /\ streak' = Streak(c) /\ misses' = Misses(c)
    /\ snap' = [snap EXCEPT ![c] = NoDocument]
    /\ UNCHANGED <<signs, tip, exists, recent, lastAny, syncVars, history, errors>>

\* An error in any of the round trips: the call throws, its callers log it.
CallFails(c) ==
    /\ pc[c] # "idle" /\ pc' = [pc EXCEPT ![c] = "idle"]
    /\ errors < MaxErrors /\ errors' = errors + 1
    /\ snap' = [snap EXCEPT ![c] = NoDocument]
    /\ settled' = settled \cup {c[2]}
    /\ UNCHANGED <<signs, tip, doc, syncVars>>
    /\ Overlaps

-----------------------------------------------------------------------------
(* ValidatorHistoricalSyncService.startSync.                                 *)

\* handleOpen starts a sync, unless one is running.
StartSync ==
    /\ sync = "idle" /\ sync' = "height"
    /\ UNCHANGED <<signs, tip, doc, pc, snap, from, upTo, began, history, errors>>

GetHeight ==
    /\ sync = "height" /\ sync' = "last"
    /\ upTo' = tip
    /\ UNCHANGED <<signs, tip, doc, pc, snap, from, began, history, errors>>

\* Where the sync starts.
StartHeight == Greatest(lastAny + 1, upTo - MaxHistory)

GetLast ==
    /\ sync = "last" /\ sync' = "batch"
    /\ from' = StartHeight /\ began' = from'
    /\ UNCHANGED <<signs, tip, doc, pc, snap, upTo, history, errors>>

BatchEnd == Least(from + BatchSize - 1, upTo)

\* Mutant: the sync goes on after the batch it should have run.
SkipsOne == BatchEnd + 2

NextBatch == BatchEnd + 1

\* One batch at once.  A pruned height rejects Promise.all at once, with the
\* others still running; a height that cannot be fetched is skipped.  A
\* height the previous round left running is waited for (bound).
RunBatch ==
    /\ sync = "batch" /\ from <= upTo
    /\ LET batch == from..BatchEnd IN
         \E unfetched \in SUBSET {h \in batch : h > Pruned} :
            /\ errors + Cardinality(unfetched) <= MaxErrors
            /\ errors' = errors + Cardinality(unfetched)
            /\ settled' = settled \cup unfetched
            /\ \A h \in batch : pc[<<"sync", h>>] = "idle"
            /\ pc' = [c \in Calls |->
                        IF c[1] = "sync" /\ c[2] \in batch \ unfetched /\ c[2] > Pruned
                        THEN "find" ELSE pc[c]]
            /\ sync' = IF \E h \in batch : h <= Pruned THEN "search" ELSE "wait"
    /\ UNCHANGED <<signs, tip, doc, snap, from, upTo, began>>
    /\ Overlaps

\* Promise.all has resolved.
BatchDone ==
    /\ sync = "wait" /\ \A h \in from..BatchEnd : pc[<<"sync", h>>] = "idle"
    /\ sync' = "batch" /\ from' = NextBatch
    /\ UNCHANGED <<signs, tip, doc, pc, snap, upTo, began, history, errors>>

\* findEarliestAvailableBlock: bisection for the first height not pruned.  An
\* error ends it with the least available height it met, or with none; none
\* ends the sync.
Search ==
    /\ sync = "search"
    /\ \/ /\ Pruned < upTo
          /\ sync' = "batch" /\ from' = Greatest(from, Pruned + 1)
          /\ UNCHANGED <<settled, errors>>
       \/ /\ Pruned >= upTo
          /\ sync' = "idle" /\ UNCHANGED <<from, settled, errors>>
       \/ /\ errors < MaxErrors /\ errors' = errors + 1
          /\ \E h \in Greatest(from, Pruned + 1)..upTo :
               /\ sync' = "batch" /\ from' = h
               /\ settled' = settled \cup from..(h - 1)
       \/ /\ errors < MaxErrors /\ errors' = errors + 1
          /\ sync' = "idle" /\ UNCHANGED <<from, settled>>
    /\ UNCHANGED <<signs, tip, doc, pc, snap, upTo, began, alone, seen>>

\* The loop ends.
SyncDone ==
    /\ sync = "batch" /\ from > upTo
    /\ sync' = "idle"
    /\ UNCHANGED <<signs, tip, doc, pc, snap, from, upTo, began, history, errors>>

-----------------------------------------------------------------------------
Handle(c) ==
    \/ Find(c) \/ Create(c) \/ Increment(c) \/ CountOthers(c)
    \/ ReadBack(c) \/ SetTotals(c) \/ CallFails(c)

SignatureNext ==
    \/ NodeCommits
    \/ \E c \in Calls : Handle(c)
    \/ StartSync \/ GetHeight \/ GetLast \/ RunBatch \/ BatchDone \/ Search \/ SyncDone

SignatureSpec == SignatureInit /\ [][SignatureNext]_signatureVars

-----------------------------------------------------------------------------
(* Properties.                                                               *)

DocumentType ==
    [signed : Nat, total : Nat, recent : Seq(BOOLEAN), streak : Nat, misses : Nat]

\* The types of the variables.
SignatureTypeOK ==
    /\ signs \in [Heights -> BOOLEAN] /\ tip \in 0..MaxHeight
    /\ exists \in BOOLEAN /\ Document \in DocumentType
    /\ Len(recent) <= RecentLimit
    /\ rate \in [num : Nat, den : Nat \ {0}]
    /\ lastAny \in 0..MaxHeight
    /\ pc \in [Calls -> Steps] /\ snap \in [Calls -> DocumentType]
    /\ sync \in {"idle", "height", "last", "batch", "wait", "search"}
    /\ from \in 1..(MaxHeight + 1) /\ upTo \in 0..MaxHeight /\ began \in 1..(MaxHeight + 1)
    /\ settled \subseteq Heights /\ alone \in BOOLEAN
    /\ seen \in Seq(BOOLEAN) /\ errors \in 0..MaxErrors

\* However calls overlap and lose each other's updates, a validator is never
\* recorded with more signed blocks than blocks.
SignedWithinTotal == signed <= totalBlocks

\* totalBlocksInWindow leaves the window only by the calls between their
\* increment and their overwrite, and by those that died there.
Pending == {c \in Calls : pc[c] \in {"read", "set"}}

TotalWithinWindow == totalBlocks <= Window + Cardinality(Pending) + errors

\* What survives the lost updates of the totals (handleNewBlock).
TotalsBounded == SignedWithinTotal /\ TotalWithinWindow

\* A sync passes over no height: each was counted, is being counted, is not
\* available any more, or was given up after an error, although a pruned
\* height breaks off the wait for its batch.
SyncCovers ==
    sync \in {"batch", "wait", "search"} =>
        \A h \in began..(from - 1) :
            h \in settled \cup 1..Pruned \/ pc[<<"sync", h>>] # "idle"

\* One block at a time, without errors, consecutiveSigned and consecutiveMissed
\* tell the run of equal outcomes at the end of all blocks ever counted.
RunOf(outcome) ==
    Cardinality({i \in DOMAIN seen : \A j \in i..Len(seen) : seen[j] = outcome})

StreaksAreTrue ==
    alone /\ InFlight = {} => streak = RunOf(TRUE) /\ misses = RunOf(FALSE)

\* What a document says of a validator: totals that bound each other whatever
\* overlaps, and streaks that are true while nothing does (handleNewBlock).
StatisticsHold == TotalsBounded /\ StreaksAreTrue
=============================================================================
