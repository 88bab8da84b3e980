----------------------------- MODULE BlockStore -----------------------------
(***************************************************************************)
(* Blocks of the Babylon chain in MongoDB.  Live blocks come from the      *)
(* socket (BlockTransactionHandler), past ones from a sync that runs at    *)
(* boot, and again whenever the API asks for one (HistoricalSyncService),  *)
(* and any of them from a reader who asks for a block that is not stored   *)
(* (BlockService).  All of them upsert, and none waits for another.  A     *)
(* sync resumes above the highest stored block, so a block that is missing *)
(* below it is fetched by nobody but such a reader.                        *)
(***************************************************************************)
EXTENDS Integers, FiniteSets, FiniteSetsExt

CONSTANTS
    MaxHeight,      \* bound: height of the chain
    Calls,          \* calls of startSync: the one of the boot and the API's
    Boot,           \* the call src/index.ts makes
    FromHeights,    \* fromHeight of an API call; 0 when there is none
    Asked,          \* heights of the blocks that readers ask for
    BlockCount,     \* blockCount, MAX_BLOCK_SYNC
    MaxFaults,      \* bound: errors of the node or the database
    MaxRestarts     \* bound: times the process dies

ASSUME ConstantsAssumption ==
    /\ MaxHeight \in Nat
    /\ Boot \in Calls /\ FromHeights \subseteq Nat /\ Asked \subseteq Nat
    /\ BlockCount \in Nat \ {0}
    /\ MaxFaults \in Nat /\ MaxRestarts \in Nat

VARIABLES
    tip,            \* height of the chain
    mode,           \* the process: down, up without a socket, subscribed
    blocks,         \* Block: heights stored
    live,           \* heights in processBlockFromWebsocket
    sync,           \* sync[c]: the call c of startSync
    isSyncing,      \* HistoricalSyncService.isSyncing
    lost,           \* history: heights nobody will fetch, for a known reason
    unheard,        \* history: heights that no message or call stood for
    faults, restarts

calls == <<sync, isSyncing>>
hist  == <<lost, unheard>>
vars  == <<tip, mode, blocks, live, calls, hist, faults, restarts>>

Heights == 1..MaxHeight
Call(pc, from, at, to, locked) ==
    [pc |-> pc, from |-> from, at |-> at, to |-> to, locked |-> locked]
NoCall == Call("idle", 0, 0, 0, FALSE)

\* findLatestBlock: the highest stored block, 0 if there is none
Latest == IF blocks = {} THEN 0 ELSE Max(blocks)
\* Heights that call c of startSync has still to fetch
Rest(c) == IF sync[c].pc = "block"
           THEN {h \in Heights : h \in sync[c].at..sync[c].to} ELSE {}
Handled == live \cup UNION {Rest(c) : c \in Calls}

Init ==
    /\ tip = 0 /\ mode = "down" /\ blocks = {} /\ live = {}
    /\ sync = [c \in Calls |-> NoCall] /\ isSyncing = FALSE
    /\ lost = {} /\ unheard = {} /\ faults = 0 /\ restarts = 0

Costs(n) == faults + n <= MaxFaults /\ faults' = faults + n

-----------------------------------------------------------------------------
\* The chain, the socket and live messages

\* A block: with a subscription its message starts handleNewBlock.
Commit ==
    /\ tip < MaxHeight
    /\ tip' = tip + 1
    /\ IF mode = "live"
       THEN /\ live' = live \cup {tip'}
            /\ UNCHANGED unheard
       ELSE unheard' = unheard \cup {tip'} /\ UNCHANGED live
    /\ UNCHANGED <<mode, blocks, calls, lost, faults, restarts>>

Subscribe ==
    /\ mode = "up" /\ mode' = "live"
    /\ UNCHANGED <<tip, blocks, live, calls, hist, faults, restarts>>

SocketCloses ==
    /\ mode = "live" /\ mode' = "up" /\ Costs(1)
    /\ UNCHANGED <<tip, blocks, live, calls, hist, restarts>>

\* saveBlock.  A block above unheard ones makes them older than any resume
\* point: they are lost, unless a sync has them in hand.
SaveBlock(h) ==
    /\ blocks' = blocks \cup {h}
    /\ lost' = lost \cup ({u \in unheard : u < h} \ Handled)

SaveLiveBlock(h) ==
    /\ h \in live /\ live' = live \ {h}
    /\ SaveBlock(h)
    /\ UNCHANGED <<tip, mode, calls, unheard, faults, restarts>>

\* GET /block/:height, or a hash, of a block that is not stored: fetched from
\* the node and saved, at any height of the chain and beside any sync.
SaveAskedBlock(h) ==
    /\ mode # "down" /\ h \in Asked /\ h <= tip /\ h \notin blocks
    /\ SaveBlock(h)
    /\ UNCHANGED <<tip, mode, live, calls, unheard, faults, restarts>>

\* The hash or a validator is not found, or the save fails: logged.
LiveBlockFails(h) ==
    /\ h \in live /\ live' = live \ {h} /\ Costs(1)
    /\ lost' = lost \cup {h}
    /\ UNCHANGED <<tip, mode, blocks, calls, unheard, restarts>>

-----------------------------------------------------------------------------
\* HistoricalSyncService.startSync

\* syncFromHeight up to its first await: a second caller is turned away.
SyncFromHeight(c, from) ==
    IF isSyncing
    THEN sync' = [sync EXCEPT ![c] = NoCall] /\ UNCHANGED isSyncing
    ELSE /\ isSyncing' = TRUE
         /\ sync' = [sync EXCEPT ![c] = Call("height", from, 0, 0, TRUE)]

\* src/index.ts starts a sync without fromHeight and does not wait for it.
StartProcess ==
    /\ mode = "down" /\ mode' = "up"
    /\ sync' = [sync EXCEPT ![Boot].pc = "latest"]
    /\ UNCHANGED <<tip, blocks, live, isSyncing, hist, faults, restarts>>

\* POST /sync, at any time, with or without fromHeight.
Request(c, from) ==
    /\ mode # "down" /\ c # Boot /\ sync[c].pc = "idle" /\ from \in FromHeights
    /\ IF from = 0
       THEN sync' = [sync EXCEPT ![c].pc = "latest"] /\ UNCHANGED isSyncing
       ELSE SyncFromHeight(c, from)
    /\ UNCHANGED <<tip, mode, blocks, live, hist, faults, restarts>>

\* getLatestBlock: an error is answered like an empty database.
ReadLatest(c) ==
    /\ sync[c].pc = "latest"
    /\ \/ /\ blocks # {} /\ SyncFromHeight(c, Latest + 1) /\ UNCHANGED faults
       \/ /\ blocks = {} \/ faults < MaxFaults
          /\ Costs(IF blocks = {} THEN 0 ELSE 1)
          /\ sync' = [sync EXCEPT ![c].pc = "window"] /\ UNCHANGED isSyncing
    /\ UNCHANGED <<tip, mode, blocks, live, hist, restarts>>

\* Mutant: the loop leaves out its first height.
BeginAboveFirst(c, from) ==
    /\ sync' = [sync EXCEPT ![c] = Call("block", 0, from + 1, tip, @.locked)]
    /\ lost' = lost \cup {h \in Latest + 1..from - 1 : h <= tip}

\* The loop of syncHistoricalBlocks begins; heights that it leaves below its
\* first one are lost if they were not stored.
BeginLoop(c, from) ==
    /\ sync' = [sync EXCEPT ![c] = Call("block", 0, from, tip, @.locked)]
    /\ lost' = lost \cup {h \in Latest + 1..from - 1 : h <= tip}

\* getCurrentBlockchainHeight of syncHistoricalBlocks.  If it fails, the
\* finally of syncFromHeight unlocks and startSync falls back.
ReadHeight(c) ==
    /\ sync[c].pc = "height"
    /\ \/ BeginLoop(c, sync[c].from) /\ UNCHANGED <<isSyncing, faults>>
       \/ /\ Costs(1) /\ isSyncing' = FALSE
          /\ sync' = [sync EXCEPT ![c] = Call("window", 0, 0, 0, FALSE)]
          /\ UNCHANGED lost
    /\ UNCHANGED <<tip, mode, blocks, live, unheard, restarts>>

\* syncLatestBlocks, which does not look at isSyncing.
ReadWindow(c) ==
    /\ sync[c].pc = "window"
    /\ \/ /\ BeginLoop(c, Max({1, tip - BlockCount + 1})) /\ UNCHANGED faults
       \/ Costs(1) /\ sync' = [sync EXCEPT ![c] = NoCall] /\ UNCHANGED lost
    /\ UNCHANGED <<tip, mode, blocks, live, isSyncing, unheard, restarts>>

\* Mutant: the loop advances twice, in its body and in its head.
NextButOne(c) ==
    sync' = [sync EXCEPT ![c].at = @ + 2]
NextHeight(c) ==
    sync' = [sync EXCEPT ![c].at = @ + 1]

\* Mutant: the last height is not fetched, and the loop waits for it.
InLoopBelow(c) == sync[c].pc = "block" /\ sync[c].at < sync[c].to
InLoop(c) == sync[c].pc = "block" /\ sync[c].at <= sync[c].to

\* syncBlockAtHeight: its tries read until one of them saves the block.  The
\* transactions that follow (processBlockTransactions) never fail a height.
SyncBlock(c) ==
    /\ InLoop(c)
    /\ blocks' = blocks \cup {sync[c].at}
    /\ NextHeight(c)
    /\ UNCHANGED <<tip, mode, live, isSyncing, hist, faults, restarts>>

\* Every try failed: failedBlocks.push(height), which is only logged.
GiveUpBlock(c) ==
    /\ InLoop(c) /\ Costs(1)
    /\ lost' = lost \cup {sync[c].at}
    /\ NextHeight(c)
    /\ UNCHANGED <<tip, mode, blocks, live, isSyncing, unheard, restarts>>

SyncDone(c) ==
    /\ sync[c].pc = "block" /\ sync[c].at > sync[c].to
    /\ isSyncing' = (isSyncing /\ ~sync[c].locked)
    /\ sync' = [sync EXCEPT ![c] = NoCall]
    /\ UNCHANGED <<tip, mode, blocks, live, hist, faults, restarts>>

-----------------------------------------------------------------------------
\* The process dies.  What was under way above the highest stored block will
\* be fetched by the sync of the next boot, what was below it will not.
Crash ==
    /\ mode # "down" /\ restarts < MaxRestarts
    /\ restarts' = restarts + 1 /\ mode' = "down"
    /\ live' = {}
    /\ sync' = [c \in Calls |-> NoCall] /\ isSyncing' = FALSE
    /\ lost' = lost \cup {h \in Handled : h < Latest}
    /\ unheard' = unheard \cup {h \in Handled : h > Latest}
    /\ UNCHANGED <<tip, blocks, faults>>

SyncStep(c) ==
    \/ ReadLatest(c) \/ ReadHeight(c) \/ ReadWindow(c) \/ SyncBlock(c)
    \/ GiveUpBlock(c) \/ SyncDone(c)

Next ==
    \/ Commit \/ Subscribe \/ SocketCloses \/ StartProcess \/ Crash
    \/ \E h \in Heights :
        SaveLiveBlock(h) \/ LiveBlockFails(h) \/ SaveAskedBlock(h)
    \/ \E c \in Calls, from \in FromHeights : Request(c, from)
    \/ \E c \in Calls : SyncStep(c)

Spec == Init /\ [][Next]_vars

\* The event loop runs what is due, PM2 restarts the process, the socket is
\* opened again; nobody owes a request or an error.
Fairness ==
    /\ WF_vars(StartProcess) /\ WF_vars(Subscribe)
    /\ \A h \in Heights : WF_vars(SaveLiveBlock(h) \/ LiveBlockFails(h))
    /\ \A c \in Calls : WF_vars(SyncStep(c))

FairSpec == Spec /\ Fairness

-----------------------------------------------------------------------------
TypeOK ==
    /\ tip \in 0..MaxHeight /\ mode \in {"down", "up", "live"}
    /\ blocks \subseteq 1..tip
    /\ live \subseteq 1..tip
    /\ sync \in [Calls ->
         [pc : {"idle", "latest", "height", "window", "block"},
          from : Nat, at : Nat, to : 0..MaxHeight, locked : BOOLEAN]]
    /\ isSyncing \in BOOLEAN
    /\ lost \subseteq 1..tip /\ unheard \subseteq 1..tip
    /\ faults \in 0..MaxFaults /\ restarts \in 0..MaxRestarts

\* A committed block is stored, or a message or a sync stands for it, or it
\* is above the highest stored block, where the next sync begins, or it was
\* lost in one of the ways that are counted here: its live processing failed,
\* a sync gave it up or was told to begin above it, a crash found it in hand
\* below the highest stored block, or, while nothing stood for it because no
\* socket had announced it, a block above it was stored, by its message or
\* for a reader of the API.  A block that was announced, or that a sync has
\* before it, is never passed over because of what is stored above it.
NoSilentGap ==
    \A h \in 1..tip : h \in blocks \cup Handled \cup lost \/ h > Latest

\* Resuming above the highest stored block keeps the promise of a resume
\* point once the heights counted as lost are settled: blocks, syncs, live
\* messages, reads, crashes and requests only ever take steps of ResumeLedger
\* (startSync, saveBlock).
Ledger == INSTANCE ResumeLedger
          WITH resume <- Latest, settled <- blocks \cup lost, inHand <- Handled
KeepsLedger == Ledger!Spec

\* isSyncing is set exactly while one call of syncFromHeight runs: an error
\* or a fallback never leaves it set, which would turn away every later sync.
LockHasHolder ==
    /\ isSyncing <=> \E c \in Calls : sync[c].locked
    /\ \A c, d \in Calls : sync[c].locked /\ sync[d].locked => c = d

\* What syncs that overlap leave of the store and of each other.
SyncsHold == NoSilentGap /\ LockHasHolder

\* Every sync ends, whatever fails in it.
SyncEnds == \A c \in Calls : sync[c].pc # "idle" ~> sync[c].pc = "idle"
=============================================================================
