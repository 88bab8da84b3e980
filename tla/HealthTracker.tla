--------------------------- MODULE HealthTracker ---------------------------
(***************************************************************************)
(* How the indexer knows which Babylon blocks it has covered.              *)
(*                                                                         *)
(* WebsocketHealthTracker keeps lastProcessedHeight, in memory and in      *)
(* Redis.  NewBlock messages advance it (updateBlockHeight); a closed      *)
(* socket runs handleReconnection.  Both run under one async mutex, both   *)
(* hand the heights they skipped to MissedBlocksProcessor, and both await  *)
(* in the middle.  The staking events of a block arrive on a subscription  *)
(* of their own ("btc_staking") that nothing synchronises with NewBlock.   *)
(*                                                                         *)
(* Heights are the data; every height is taken to carry staking events.    *)
(* The socket is reduced to closed / opened / subscribed: WsConnection     *)
(* models how it gets there.                                               *)
(***************************************************************************)
EXTENDS Integers, Sequences

CONSTANTS
    MaxHeight,      \* bound: the chain stops here
    BatchSize,      \* MissedBlocksProcessor.BATCH_SIZE
    MaxAttempts,    \* WebSocketReconnectionService.MAX_RECONNECT_ATTEMPTS
    MaxFaults,      \* bound: dropped sockets, late close events, failed or
                    \* lagging height calls
    MaxRestarts,    \* bound: restarts of the indexer process
    IsProduction    \* NODE_ENV === 'production'

ASSUME ConstantsAssumption ==
    /\ MaxHeight \in Nat
    /\ BatchSize \in Nat \ {0}
    /\ MaxAttempts \in Nat
    /\ MaxFaults \in Nat
    /\ MaxRestarts \in Nat
    /\ IsProduction \in BOOLEAN

VARIABLES
    tip,        \* height of the chain
    firing,     \* the node has published NewBlock(tip), its Tx events not yet
    socket,     \* "closed", "opened" (handleOpen awaits startSync), "ready"
    subs,       \* the subscriptions the node has accepted on this socket
    blockMsgs,  \* heights of NewBlock messages on the wire
    txMsgs,     \* heights whose btc_staking messages are on the wire
    attempts,   \* WebSocketReconnectionService.reconnectAttempts
    last,       \* state.lastProcessedHeight
    cached,     \* the Redis entry; 0 when there is none
    load,       \* loadLastProcessedHeight: "get", "set" or "done"
    loadVal,    \* the height that call read from Redis
    queue,      \* calls that hold (head) or wait for the mutex
    pc,         \* where the holder is: "free" when no call has started
    next,       \* first height the holder's processMissedBlocks has not tried
    target,     \* the height the holder moves lastProcessedHeight to
    passed,     \* history: heights nobody will look at again, their staking
                \*   events handled, given up, or lost with a socket
    faults, restarts

nodeVars == <<tip, firing>>
linkVars == <<socket, subs, blockMsgs, txMsgs, attempts>>
loadVars == <<load, loadVal>>
lockVars == <<queue, pc, next, target>>
bounds   == <<faults, restarts>>
vars == <<nodeVars, linkVars, last, cached, loadVars, lockVars, passed, bounds>>

Heights == 1..MaxHeight
Topics == {"btc_staking", "new_block"}
Calls == [kind : {"block", "reconnect"}, height : 0..MaxHeight]
BlockCall(h) == [kind |-> "block", height |-> h]
ReconnectCall == [kind |-> "reconnect", height |-> 0]

\* Heights whose staking events the node has sent, or is about to send, on
\* the present socket.
InFlight == txMsgs \cup (IF firing /\ "btc_staking" \in subs THEN {tip} ELSE {})

Covered(h) == h \in passed \cup InFlight

Init ==
    /\ tip = 0 /\ firing = FALSE
    /\ socket = "closed" /\ subs = {} /\ blockMsgs = {} /\ txMsgs = {}
    /\ attempts = 0
    /\ last = 0 /\ cached = 0
    /\ load = "get" /\ loadVal = 0
    /\ queue = <<>> /\ pc = "free" /\ next = 1 /\ target = 0
    /\ passed = {}
    /\ faults = 0 /\ restarts = 0

-----------------------------------------------------------------------------
(* The Babylon node.  CometBFT publishes the NewBlock event of a block and   *)
(* then its Tx events; a subscription that arrives in between gets only      *)
(* what is published after it.                                               *)

NodeCommits ==
    /\ tip < MaxHeight /\ ~firing
    /\ tip' = tip + 1
    /\ firing' = TRUE
    /\ blockMsgs' = IF "new_block" \in subs THEN blockMsgs \cup {tip + 1} ELSE blockMsgs
    /\ UNCHANGED <<socket, subs, txMsgs, attempts, last, cached, loadVars, lockVars, passed, bounds>>

NodeFiresTx ==
    /\ firing
    /\ firing' = FALSE
    /\ txMsgs' = IF "btc_staking" \in subs THEN txMsgs \cup {tip} ELSE txMsgs
    /\ UNCHANGED <<tip, socket, subs, blockMsgs, attempts, last, cached, loadVars, lockVars, passed, bounds>>

-----------------------------------------------------------------------------
(* The socket.                                                               *)

\* A connection opens; handleOpen resets the attempts and awaits startSync.
SocketOpens ==
    /\ socket = "closed"
    /\ socket' = "opened"
    /\ attempts' = 0
    /\ UNCHANGED <<nodeVars, subs, blockMsgs, txMsgs, last, cached, loadVars, lockVars, passed, bounds>>

\* Mutant: the subscriptions are requested in any order.
AnyOrder(topic) == TRUE

\* Order of the subscriptions array: btc_staking is sent before new_block.
MaySubscribe(topic) == topic = "new_block" => "btc_staking" \in subs

\* sendSubscriptions: the node accepts the requests one by one, in order.
Subscribe(topic) ==
    /\ socket = "opened"
    /\ topic \in Topics \ subs
    /\ MaySubscribe(topic)
    /\ subs' = subs \cup {topic}
    /\ socket' = IF subs' = Topics THEN "ready" ELSE "opened"
    /\ UNCHANGED <<nodeVars, blockMsgs, txMsgs, attempts, last, cached, loadVars, lockVars, passed, bounds>>

\* handleReconnect: one more call of handleReconnection, or give up until
\* someone else reconnects.  q is the queue the call is appended to.
QueueReconnection(q) ==
    IF attempts < MaxAttempts
    THEN attempts' = attempts + 1 /\ queue' = Append(q, ReconnectCall)
    ELSE attempts' = 0 /\ queue' = q

\* The socket goes away and what is on it is lost; handleClose follows.
SocketCloses ==
    /\ socket # "closed"
    /\ socket' = "closed"
    /\ subs' = {} /\ blockMsgs' = {} /\ txMsgs' = {}
    /\ passed' = passed \cup InFlight
    /\ QueueReconnection(queue)
    /\ UNCHANGED <<nodeVars, last, cached, loadVars, pc, next, target, restarts>>

Drop == faults < MaxFaults /\ faults' = faults + 1 /\ SocketCloses

\* The late 'close' of a socket that was replaced already (WsConnection):
\* handleClose runs although the present socket is alive.
LateClose ==
    /\ faults < MaxFaults /\ faults' = faults + 1
    /\ QueueReconnection(queue)
    /\ UNCHANGED <<nodeVars, socket, subs, blockMsgs, txMsgs, last, cached, loadVars, pc, next, target, passed, restarts>>

\* Mutant: one block behind does not count as behind.
ToleratesOneBehind ==
    /\ socket = "ready" /\ blockMsgs = {} /\ queue = <<>>
    /\ tip > last + 1
    /\ SocketCloses
    /\ UNCHANGED faults

\* checkBlockActivity: connected, no block message for MAX_INACTIVE_TIME, and
\* the node is ahead of lastProcessedHeight.  The check also fires while a gap
\* fill outlasts MAX_INACTIVE_TIME; for the tracker that is a Drop.
MonitorReconnects ==
    /\ socket = "ready" /\ blockMsgs = {} /\ queue = <<>>
    /\ tip > last
    /\ SocketCloses
    /\ UNCHANGED faults

-----------------------------------------------------------------------------
(* Messages.                                                                 *)

\* BTCStakingMessageProcessor hands the events to the event handler, which
\* may fail; nothing retries them.
StakingMessage(h) ==
    /\ h \in txMsgs
    /\ txMsgs' = txMsgs \ {h}
    /\ passed' = passed \cup {h}
    /\ UNCHANGED <<nodeVars, socket, subs, blockMsgs, attempts, last, cached, loadVars, lockVars, bounds>>

\* NewBlockMessageProcessor calls updateBlockHeight, which waits for the mutex.
NewBlockMessage(h) ==
    /\ h \in blockMsgs
    /\ \A g \in blockMsgs : h <= g
    /\ blockMsgs' = blockMsgs \ {h}
    /\ queue' = Append(queue, BlockCall(h))
    /\ UNCHANGED <<nodeVars, socket, subs, txMsgs, attempts, last, cached, loadVars, pc, next, target, passed, bounds>>

-----------------------------------------------------------------------------
(* The calls under the mutex.                                                *)

Holder(kind) == queue # <<>> /\ Head(queue).kind = kind

\* The holder returns: its locals are gone, the next call may start.
Forget == pc' = "free" /\ next' = 1 /\ target' = 0
Release == queue' = Tail(queue) /\ Forget

\* Both calls end the same way: the new height in memory, then in Redis.
MoveTo(h) == last' = h /\ target' = h /\ pc' = "store"

\* updateBlockHeight up to its first await.
BlockEnter ==
    /\ Holder("block") /\ pc = "free"
    /\ LET h == Head(queue).height IN
         \/ /\ h > last + 1 /\ IsProduction
            /\ pc' = "gap" /\ next' = last + 1 /\ target' = h
            /\ UNCHANGED <<last, queue>>
         \/ /\ ~(h > last + 1 /\ IsProduction)
            /\ h > last
            /\ MoveTo(h)
            /\ UNCHANGED <<next, queue>>
         \/ /\ h <= last
            /\ Release
            /\ UNCHANGED last
    /\ UNCHANGED <<nodeVars, linkVars, cached, loadVars, passed, bounds>>

\* Mutant: handleReconnection leaves out the last block as well.
GapEndTooLow == target - 1

\* The last height of processMissedBlocks: updateBlockHeight leaves out the
\* block it was called for, handleReconnection does not.
GapEnd == IF Head(queue).kind = "block" THEN target - 1 ELSE target

\* One range of processMissedBlocks: Promise.allSettled over its heights.
\* A height that fails is logged and never tried again.
GapBatch ==
    /\ queue # <<>> /\ pc = "gap" /\ next <= GapEnd
    /\ LET end == IF next + BatchSize - 1 < GapEnd THEN next + BatchSize - 1 ELSE GapEnd IN
         /\ passed' = passed \cup (next..end)
         /\ next' = end + 1
    /\ UNCHANGED <<nodeVars, linkVars, last, cached, loadVars, queue, pc, target, bounds>>

\* updateBlockHeight after the gap: only ever forward.
BlockAdvance ==
    /\ Holder("block") /\ pc = "gap" /\ next > GapEnd
    /\ \/ target > last /\ MoveTo(target) /\ UNCHANGED <<next, queue>>
       \/ target <= last /\ Release /\ UNCHANGED last
    /\ UNCHANGED <<nodeVars, linkVars, cached, loadVars, passed, bounds>>

\* handleReconnection, which awaits getCurrentHeight first.
ReconnectEnter ==
    /\ Holder("reconnect") /\ pc = "free"
    /\ pc' = "height"
    /\ UNCHANGED <<nodeVars, linkVars, last, cached, loadVars, queue, next, target, passed, bounds>>

\* getCurrentHeight answers; an endpoint that lags answers low.
ReconnectHeight ==
    /\ Holder("reconnect") /\ pc = "height"
    /\ \E c \in 1..tip :
         /\ \/ c = tip /\ UNCHANGED faults
            \/ c < tip /\ faults < MaxFaults /\ faults' = faults + 1
         /\ IF c > last /\ IsProduction
            THEN pc' = "gap" /\ next' = last + 1 /\ target' = c /\ UNCHANGED queue
            ELSE Release
    /\ UNCHANGED <<nodeVars, linkVars, last, cached, loadVars, passed, restarts>>

\* getCurrentHeight throws: the mutex is released and handleReconnect calls
\* itself again.
ReconnectFails ==
    /\ Holder("reconnect") /\ pc = "height"
    /\ faults < MaxFaults /\ faults' = faults + 1
    /\ QueueReconnection(Tail(queue))
    /\ Forget
    /\ UNCHANGED <<nodeVars, socket, subs, blockMsgs, txMsgs, last, cached, loadVars, passed, restarts>>

\* handleReconnection after the gap: unconditional.
ReconnectAdvance ==
    /\ Holder("reconnect") /\ pc = "gap" /\ next > GapEnd
    /\ MoveTo(target)
    /\ UNCHANGED <<nodeVars, linkVars, cached, loadVars, queue, next, passed, bounds>>

\* CacheService.set, whose errors are swallowed; then the mutex is released.
StoreHeight ==
    /\ queue # <<>> /\ pc = "store"
    /\ cached' \in {cached, target}
    /\ Release
    /\ UNCHANGED <<nodeVars, linkVars, last, loadVars, passed, bounds>>

-----------------------------------------------------------------------------
(* Start-up: loadLastProcessedHeight runs without the mutex.                 *)

LoadGet ==
    /\ load = "get"
    /\ \/ cached # 0 /\ load' = "set" /\ loadVal' = cached
       \/ load' = "done" /\ UNCHANGED loadVal         \* no entry, or an error
    /\ UNCHANGED <<nodeVars, linkVars, last, cached, lockVars, passed, bounds>>

LoadSet ==
    /\ load = "set"
    /\ last' = loadVal
    /\ load' = "done" /\ loadVal' = 0
    /\ UNCHANGED <<nodeVars, linkVars, cached, lockVars, passed, bounds>>

\* The process dies and starts again.  Redis and the database survive it.
Restart ==
    /\ restarts < MaxRestarts /\ restarts' = restarts + 1
    /\ socket' = "closed" /\ subs' = {} /\ blockMsgs' = {} /\ txMsgs' = {}
    /\ passed' = passed \cup InFlight
    /\ attempts' = 0
    /\ last' = 0 /\ load' = "get" /\ loadVal' = 0
    /\ queue' = <<>> /\ Forget
    /\ UNCHANGED <<nodeVars, cached, faults>>

-----------------------------------------------------------------------------
Tracker ==
    \/ BlockEnter \/ GapBatch \/ BlockAdvance
    \/ ReconnectEnter \/ ReconnectHeight \/ ReconnectAdvance \/ StoreHeight
    \/ LoadGet \/ LoadSet

Next ==
    \/ NodeCommits \/ NodeFiresTx
    \/ SocketOpens \/ \E t \in Topics : Subscribe(t)
    \/ Drop \/ LateClose \/ MonitorReconnects
    \/ \E h \in Heights : StakingMessage(h) \/ NewBlockMessage(h)
    \/ Tracker \/ ReconnectFails
    \/ Restart

Spec == Init /\ [][Next]_vars

\* What the event loop, the timers and the node owe: messages are dispatched,
\* awaited calls return, the health monitor keeps checking, and a closed
\* socket is reopened (WsConnection).  Faults and restarts are never owed.
Fairness ==
    /\ WF_vars(NodeCommits) /\ WF_vars(NodeFiresTx)
    /\ WF_vars(SocketOpens) /\ WF_vars(\E t \in Topics : Subscribe(t))
    /\ WF_vars(MonitorReconnects)
    /\ WF_vars(\E h \in Heights : NewBlockMessage(h))
    /\ WF_vars(\E h \in Heights : StakingMessage(h))
    /\ WF_vars(Tracker)

FairSpec == Spec /\ Fairness

-----------------------------------------------------------------------------
(* Properties.                                                               *)

\* The types of the variables.
TypeOK ==
    /\ tip \in 0..MaxHeight /\ firing \in BOOLEAN
    /\ socket \in {"closed", "opened", "ready"} /\ subs \subseteq Topics
    /\ blockMsgs \subseteq Heights /\ txMsgs \subseteq Heights
    /\ attempts \in 0..MaxAttempts
    /\ last \in 0..MaxHeight /\ cached \in 0..MaxHeight
    /\ load \in {"get", "set", "done"} /\ loadVal \in 0..MaxHeight
    /\ queue \in Seq(Calls) /\ pc \in {"free", "height", "gap", "store"}
    /\ next \in 1..(MaxHeight + 1) /\ target \in 0..MaxHeight
    /\ passed \subseteq Heights
    /\ faults \in 0..MaxFaults /\ restarts \in 0..MaxRestarts

\* In production no height at or below lastProcessedHeight is silently passed
\* over: its staking events were handled, or are still on the socket, or were
\* tried and failed, or were on a socket when it closed.  It spans the two
\* subscriptions, the gap fill, the unlocked load of the cached height and
\* restarts.
Coverage == IsProduction => \A h \in 1..last : Covered(h)

\* The same for the height kept in Redis, from which a restarted indexer goes
\* on: resuming there passes over nothing.
ResumeCoverage == IsProduction => \A h \in 1..cached : Covered(h)

\* In production the tracker only takes steps of ResumeLedger, with the height
\* kept in Redis as the resume point (saveLastProcessedHeight).
Ledger == INSTANCE ResumeLedger
          WITH resume <- cached, settled <- passed, inHand <- InFlight
KeepsLedger == Ledger!Spec

\* Once the chain stops growing and the faults are over, lastProcessedHeight
\* reaches the chain's height and stays there.  A block committed between
\* handleReconnection and the subscription is announced to nobody, and only
\* the health monitor's inactivity check picks it up.
CatchesUp == IsProduction => <>[](last = MaxHeight)
=============================================================================
