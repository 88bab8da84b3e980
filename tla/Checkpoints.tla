---------------------------- MODULE Checkpoints ----------------------------
(***************************************************************************)
(* The checkpoint of one epoch: the status of its document (BLSCheckpoint; *)
(* the lifecycle repeats the statuses written) and the validators' votes   *)
(* (BLSValidatorSignatures).  Four writers work beside each other: the     *)
(* status events of new blocks (CheckpointStatusHandler), the fetch that a *)
(* sealed checkpoint starts (BLSCheckpointHandler), and the two syncs of   *)
(* CHECKPOINT_SYNC, one for epochs that are missing and one for statuses   *)
(* that have moved.                                                        *)
(***************************************************************************)
EXTENDS Messages

VARIABLES
    ckpt,           \* status of the document, "none" without one
    ckptVotes,      \* whether the votes of the epoch are stored
    ckptCalls,      \* ckptCalls[d]: what the handlers of delivery d do next
    epochSync,      \* BLSCheckpointFetcher.syncHistoricalCheckpoints
    statusSync,     \* CheckpointStatusFetcher.syncHistoricalCheckpoints
    fetched,        \* history: a fetch wrote the document
    unvoted,        \* history: a fetch could not store the votes
    disturbed       \* history: others wrote since statusSync listed

ckptHistory == <<fetched, unvoted, disturbed>>
ckptVars == <<ckpt, ckptVotes, ckptCalls, epochSync, statusSync, ckptHistory>>

Lifecycle == <<"ACCUMULATING", "SEALED", "SUBMITTED", "CONFIRMED", "FINALIZED">>
States == {Lifecycle[i] : i \in DOMAIN Lifecycle}
Rank(st) == IF st = "none" THEN 0
            ELSE CHOOSE i \in DOMAIN Lifecycle : Lifecycle[i] = st

Checkpoint == "EventCheckpoint"

ASSUME CheckpointsAssumption ==
    \A c \in Chains : \A n \in DOMAIN c.messages : \A e \in c.messages[n].events :
        e.type = Checkpoint => e.what \in States

StatusOf(d) == The(d, Checkpoint).what

\* The status of the epoch on the chain
ReachedBy(events) == {e.what : e \in {x \in events : x.type = Checkpoint}}
Reached == ReachedBy(UNION {EventsOf(k) : k \in 1..sent})
ChainStatus == IF Reached = {} THEN "none"
               ELSE CHOOSE st \in Reached : \A r \in Reached : Rank(r) <= Rank(st)

StatusIdle == [pc |-> "list", listed |-> "none", answer |-> "none"]

CkptInit ==
    /\ ckpt = "none" /\ ckptVotes = FALSE
    /\ ckptCalls = [d \in Deliveries |-> "none"]
    /\ epochSync = IF Runs("checkpoints") THEN "list" ELSE "off"
    /\ statusSync = [StatusIdle EXCEPT
         !.pc = IF Runs("checkpoints") THEN "list" ELSE "off"]
    /\ fetched = FALSE /\ unvoted = FALSE /\ disturbed = FALSE

\* A write of the document by anyone but statusSync
Stores(st) == ckpt' = st /\ disturbed' = TRUE

-----------------------------------------------------------------------------
\* CheckpointStatusHandler.handleNewBlock takes new_block deliveries and
\* leaves SEALED to BLSCheckpointHandler, which takes checkpoint_for_bls.

CkptStart(d) ==
    /\ Arrives(d) /\ ckptCalls[d] = "none"
    /\ ckptCalls' = [ckptCalls EXCEPT ![d] =
         IF ~Has(d, Checkpoint) THEN "done"
         ELSE CASE d[2] = "new_block" /\ StatusOf(d) # "SEALED" -> "find"
                [] d[2] = "checkpoint_for_bls" /\ StatusOf(d) = "SEALED" -> "fetch"
                [] OTHER -> "done"]
    /\ UNCHANGED <<ckpt, ckptVotes, epochSync, statusSync, ckptHistory, faults>>

\* findOne; an ACCUMULATING event leaves a document that is there alone.
FindCheckpoint(d) ==
    /\ ckptCalls[d] = "find"
    /\ ckptCalls' = [ckptCalls EXCEPT ![d] =
         CASE ckpt = "none" -> "create"
           [] ckpt # "none" /\ StatusOf(d) = "ACCUMULATING" -> "done"
           [] OTHER -> "update"]
    /\ UNCHANGED <<ckpt, ckptVotes, epochSync, statusSync, ckptHistory, faults>>

\* create.  The schema refuses one from ACCUMULATING, which has no
\* multi-signature yet; the unique index refuses a second one.  Both are
\* logged, and the status of the event is stored by nobody.
\* Mutant: create is an upsert.
CreateOrReplace(d) == StatusOf(d) # "ACCUMULATING"
Creatable(d) == ckpt = "none" /\ StatusOf(d) # "ACCUMULATING"
CreateCheckpoint(d) ==
    /\ ckptCalls[d] = "create"
    /\ ckptCalls' = [ckptCalls EXCEPT ![d] = "done"]
    /\ IF Creatable(d) THEN Stores(StatusOf(d)) ELSE UNCHANGED <<ckpt, disturbed>>
    /\ UNCHANGED <<ckptVotes, epochSync, statusSync, fetched, unvoted, faults>>

UpdateCheckpoint(d) ==
    /\ ckptCalls[d] = "update"
    /\ ckptCalls' = [ckptCalls EXCEPT ![d] = "done"]
    /\ Stores(StatusOf(d))
    /\ UNCHANGED <<ckptVotes, epochSync, statusSync, fetched, unvoted, faults>>

\* fetchCheckpointFromHeight, after any of its retries: the document becomes
\* the injected checkpoint, whatever it was.
FetchCheckpoint(d) ==
    /\ ckptCalls[d] = "fetch"
    /\ ckptCalls' = [ckptCalls EXCEPT ![d] = "votes"]
    /\ Stores("SEALED") /\ fetched' = TRUE
    /\ UNCHANGED <<ckptVotes, epochSync, statusSync, unvoted, faults>>

\* processValidatorVotes
StoreVotes(d) ==
    /\ ckptCalls[d] = "votes"
    /\ ckptCalls' = [ckptCalls EXCEPT ![d] = "done"] /\ ckptVotes' = TRUE
    /\ UNCHANGED <<ckpt, epochSync, statusSync, ckptHistory, faults>>

\* An error, or too many retries; one of the votes leaves the document there.
CkptFails(d) ==
    /\ ckptCalls[d] \notin {"none", "done"} /\ Costs
    /\ unvoted' = (unvoted \/ ckptCalls[d] = "votes")
    /\ ckptCalls' = [ckptCalls EXCEPT ![d] = "done"]
    /\ UNCHANGED <<ckpt, ckptVotes, epochSync, statusSync, fetched, disturbed>>

CkptStep(d) == \/ FindCheckpoint(d) \/ CreateCheckpoint(d) \/ UpdateCheckpoint(d)
               \/ FetchCheckpoint(d) \/ StoreVotes(d) \/ CkptFails(d)

-----------------------------------------------------------------------------
\* The sync of missing epochs skips those with a document; a height without
\* the injected checkpoint is taken for a success.

ListEpochs ==
    /\ epochSync = "list"
    /\ epochSync' = IF ckpt = "none" THEN "fetch" ELSE "done"
    /\ UNCHANGED <<ckpt, ckptVotes, ckptCalls, statusSync, ckptHistory, faults>>

FetchEpoch ==
    /\ epochSync = "fetch"
    /\ IF "SEALED" \in Reached
       THEN Stores("SEALED") /\ fetched' = TRUE /\ epochSync' = "votes"
       ELSE UNCHANGED <<ckpt, disturbed, fetched>> /\ epochSync' = "done"
    /\ UNCHANGED <<ckptVotes, ckptCalls, statusSync, unvoted, faults>>

StoreEpochVotes ==
    /\ epochSync = "votes" /\ epochSync' = "done" /\ ckptVotes' = TRUE
    /\ UNCHANGED <<ckpt, ckptCalls, statusSync, ckptHistory, faults>>

EpochSyncFails ==
    /\ epochSync \notin {"off", "done"} /\ Costs
    /\ unvoted' = (unvoted \/ epochSync = "votes")
    /\ epochSync' = "done"
    /\ UNCHANGED <<ckpt, ckptVotes, ckptCalls, statusSync, fetched, disturbed>>

EpochStep == ListEpochs \/ FetchEpoch \/ StoreEpochVotes \/ EpochSyncFails

-----------------------------------------------------------------------------
\* The sync of statuses lists the documents that are not FINALIZED, asks the
\* node, and writes an answer that differs from the status it listed.

ListStatuses ==
    /\ statusSync.pc = "list"
    /\ statusSync' = [statusSync EXCEPT !.listed = ckpt,
         !.pc = IF ckpt \in {"none", "FINALIZED"} THEN "done" ELSE "ask"]
    /\ disturbed' = FALSE
    /\ UNCHANGED <<ckpt, ckptVotes, ckptCalls, epochSync, fetched, unvoted, faults>>

AskStatus ==
    /\ statusSync.pc = "ask"
    /\ statusSync' = [statusSync EXCEPT !.pc = "write", !.answer = ChainStatus]
    /\ UNCHANGED <<ckpt, ckptVotes, ckptCalls, epochSync, ckptHistory, faults>>

WriteStatus ==
    /\ statusSync.pc = "write"
    /\ ckpt' = IF statusSync.answer = statusSync.listed THEN ckpt
               ELSE statusSync.answer
    /\ statusSync' = [statusSync EXCEPT !.pc = "done"]
    /\ UNCHANGED <<ckptVotes, ckptCalls, epochSync, ckptHistory, faults>>

StatusSyncFails ==
    /\ statusSync.pc \notin {"off", "done"} /\ Costs
    /\ statusSync' = [StatusIdle EXCEPT !.pc = "done"]
    /\ UNCHANGED <<ckpt, ckptVotes, ckptCalls, epochSync, ckptHistory>>

StatusStep == ListStatuses \/ AskStatus \/ WriteStatus \/ StatusSyncFails

CkptNext == \/ EpochStep \/ StatusStep
            \/ \E d \in Deliveries : CkptStart(d) \/ CkptStep(d)

-----------------------------------------------------------------------------
CkptTypeOK ==
    /\ ckpt \in {"none"} \cup (States \ {"ACCUMULATING"})
    /\ ckptVotes \in BOOLEAN
    /\ ckptCalls \in [Deliveries -> {"none", "find", "create", "update", "fetch",
                                     "votes", "done"}]
    /\ epochSync \in {"off", "list", "fetch", "votes", "done"}
    /\ statusSync.pc \in {"off", "list", "ask", "write", "done"}
    /\ {statusSync.listed, statusSync.answer} \subseteq {"none"} \cup States
    /\ fetched \in BOOLEAN /\ unvoted \in BOOLEAN /\ disturbed \in BOOLEAN

\* A checkpoint that a fetch stored has its votes, or a fetch is about to
\* store them, or one failed there: the sync of missing epochs will not come
\* back to a document that is there (fetchCheckpointFromHeight).
FetchedHasVotes ==
    fetched => \/ ckptVotes \/ unvoted \/ epochSync = "votes"
               \/ \E d \in Deliveries : ckptCalls[d] = "votes"

\* A status falls back only by a writer that came late: the handler of an
\* older event, the sync of missing epochs when the document was created
\* after its look, or the sync of statuses when others wrote since its own.
FallsBackByLateWriter ==
    [][Rank(ckpt') < Rank(ckpt) =>
         \/ \E d \in Deliveries : /\ ckptCalls[d] \in {"update", "fetch"}
                                  /\ ckptCalls'[d] # ckptCalls[d]
                                  /\ Rank(StatusOf(d)) < Rank(ckpt)
         \/ epochSync = "fetch" /\ epochSync' = "votes"
         \/ statusSync.pc = "write" /\ disturbed]_ckptVars
=============================================================================
