---------------------------- MODULE WsConnection ----------------------------
(***************************************************************************)
(* The life of the WebSocket to the Babylon node, and the three parties    *)
(* that repair it.                                                         *)
(*                                                                         *)
(*   WebSocketReconnectionService  a 'close' event starts a chain: gap     *)
(*                                 fill, then a 5 s timer, then a new      *)
(*                                 connection;                             *)
(*   handleError                   closes whatever connection is current;  *)
(*   WebSocketHealthMonitor        reconnects a dead or silent connection  *)
(*                                 through reconnectNetwork and its lock.  *)
(*                                                                         *)
(* Handlers get the network, not the connection they were installed on, so *)
(* an event of an old socket acts on the current one.  Sockets other than  *)
(* the current one differ only in their state, so they are counted.        *)
(***************************************************************************)
EXTENDS Integers

CONSTANTS
    MaxReconnectAttempts,    \* WebSocketReconnectionService.MAX_RECONNECT_ATTEMPTS
    MaxTrouble      \* bound: failures of the network or the node, and timers
                    \* that find a handshake unfinished

ASSUME ConnectionAssumption == MaxReconnectAttempts \in Nat /\ MaxTrouble \in Nat

VARIABLES
    current,        \* the connection in the connections map:
                    \*   "none"        the map has no entry
                    \*   "connecting"  its socket has not opened yet
                    \*   "open"        its socket is open
                    \*   "closed"      its socket closed by itself
                    \*   "dropped"     disconnect() took its socket away
    subscribed,     \* the current socket has been sent the subscriptions
    strayConnecting, strayOpen, \* sockets whose map entry was overwritten
    closing,        \* sockets ws.close() was called on; 'close' is to come
    aborting,       \* the same for a connecting one: 'error' and 'close'
    syncing,        \* syncInProgress: a handleOpen awaits startSync
    reconnectAttempts,
    retrying,       \* calls of handleReconnect awaiting handleReconnection
    timers,         \* pending setTimeout(reconnectAction, RECONNECT_INTERVAL)
    locked,         \* reconnectLocks: reconnectNetwork's 1 s timer is pending
    recheck,        \* checkConnection's 1 s timer is pending
    checking,       \* checkBlockActivity awaits getCurrentHeight
    gaveUp,         \* history: a chain gave up and no connection since
    trouble

sockets == <<current, subscribed, strayConnecting, strayOpen, closing, aborting>>
strays  == <<strayConnecting, strayOpen>>
chain   == <<reconnectAttempts, retrying, timers>>
monitor == <<recheck, checking>>
connectionVars == <<sockets, syncing, chain, locked, monitor, gaveUp, trouble>>

States == {"none", "connecting", "open", "closed", "dropped"}

\* startListening: the first connection is on its way, the monitor is on.
ConnectionInit ==
    /\ current = "connecting" /\ subscribed = FALSE
    /\ strayConnecting = 0 /\ strayOpen = 0 /\ closing = 0 /\ aborting = 0
    /\ syncing = FALSE /\ reconnectAttempts = 0 /\ retrying = 0 /\ timers = 0
    /\ locked = FALSE /\ recheck = FALSE /\ checking = FALSE
    /\ gaveUp = FALSE /\ trouble = 0

\* An aborted handshake emits its events from process.nextTick, ahead of
\* every timer and every other socket.
Calm == aborting = 0

Trouble == trouble < MaxTrouble /\ trouble' = trouble + 1

-----------------------------------------------------------------------------
(* What the handlers are made of.                                            *)

One(condition) == IF condition THEN 1 ELSE 0

\* Mutant: disconnect() also removes the listeners of an open socket.
SilentDisconnect(c, a) ==
    /\ closing' = closing + c
    /\ aborting' = aborting + a + One(current = "connecting")
    /\ subscribed' = FALSE

\* disconnect() of the current connection, with c and a more sockets closing
\* and aborting on their own.  close() on a connecting socket aborts the
\* handshake; on a socket already gone it emits nothing.
Disconnect(c, a) ==
    /\ closing' = closing + c + One(current = "open")
    /\ aborting' = aborting + a + One(current = "connecting")
    /\ subscribed' = FALSE

\* handleError's disconnect() leaves the map entry behind.
DropCurrent(c, a) ==
    /\ current' = IF current = "none" THEN "none" ELSE "dropped"
    /\ Disconnect(c, a)

\* handleReconnect, r calls being in progress: one more attempt, or give up.
HandleReconnect(r) ==
    \/ /\ reconnectAttempts < MaxReconnectAttempts
       /\ reconnectAttempts' = reconnectAttempts + 1 /\ retrying' = r + 1
       /\ UNCHANGED gaveUp
    \/ /\ reconnectAttempts >= MaxReconnectAttempts
       /\ reconnectAttempts' = 0 /\ retrying' = r
       /\ gaveUp' = TRUE

\* connectToNetwork puts a new connection in the map.
Connect == current' = "connecting" /\ gaveUp' = FALSE

-----------------------------------------------------------------------------
(* The current socket.                                                       *)

\* sendSubscriptions goes to whatever connection is current.
SendSubscriptions(c) == subscribed' = (subscribed \/ c = "open")

\* handleOpen, with c the current connection: reset the attempts, await
\* startSync, send the subscriptions.  startSync returns at once while
\* another call of it is syncing.
HandleOpen(c) ==
    /\ reconnectAttempts' = 0 /\ syncing' = TRUE
    /\ IF syncing THEN SendSubscriptions(c) ELSE UNCHANGED subscribed

\* 'open'.
Opens ==
    /\ Calm
    /\ current = "connecting"
    /\ current' = "open"
    /\ HandleOpen("open")
    /\ UNCHANGED <<strays, closing, aborting, retrying, timers, locked, monitor, gaveUp, trouble>>

\* Mutant: an error of startSync ends handleOpen.
SyncEndsHandleOpen ==
    /\ Calm
    /\ syncing /\ syncing' = FALSE
    /\ UNCHANGED subscribed
    /\ UNCHANGED <<current, strays, closing, aborting, chain, locked, monitor, gaveUp, trouble>>

\* startSync returns to the handleOpen that awaits it.
Synced ==
    /\ Calm
    /\ syncing /\ syncing' = FALSE
    /\ SendSubscriptions(current)
    /\ UNCHANGED <<current, strays, closing, aborting, chain, locked, monitor, gaveUp, trouble>>

\* The handshake fails: 'error', then 'close'.
ConnectFails ==
    /\ Calm
    /\ current = "connecting" /\ Trouble
    /\ current' = "dropped"
    /\ HandleReconnect(retrying)
    /\ UNCHANGED <<subscribed, strays, closing, aborting, syncing, timers, locked, monitor>>

\* The node closes the connection.
PeerCloses ==
    /\ Calm
    /\ current = "open" /\ Trouble
    /\ current' = "closed" /\ subscribed' = FALSE
    /\ HandleReconnect(retrying)
    /\ UNCHANGED <<strays, closing, aborting, syncing, timers, locked, monitor>>

\* The socket fails: 'error' now, 'close' later.
SocketFails ==
    /\ Calm
    /\ current = "open" /\ Trouble
    /\ DropCurrent(0, 0)
    /\ UNCHANGED <<strays, syncing, chain, locked, monitor, gaveUp>>

-----------------------------------------------------------------------------
(* Sockets that are no longer current.  Their events act on the current one. *)

StrayOpens ==
    /\ Calm
    /\ strayConnecting > 0 /\ strayConnecting' = strayConnecting - 1
    /\ strayOpen' = strayOpen + 1
    /\ HandleOpen(current)
    /\ UNCHANGED <<current, closing, aborting, retrying, timers, locked, monitor, gaveUp, trouble>>

StrayConnectFails ==
    /\ Calm
    /\ strayConnecting > 0 /\ strayConnecting' = strayConnecting - 1 /\ Trouble
    /\ DropCurrent(0, 0)
    /\ HandleReconnect(retrying)
    /\ UNCHANGED <<strayOpen, syncing, timers, locked, monitor>>

StrayCloses ==
    /\ Calm
    /\ strayOpen > 0 /\ strayOpen' = strayOpen - 1 /\ Trouble
    /\ HandleReconnect(retrying)
    /\ UNCHANGED <<current, subscribed, strayConnecting, closing, aborting, syncing, timers, locked, monitor>>

StrayFails ==
    /\ Calm
    /\ strayOpen > 0 /\ strayOpen' = strayOpen - 1 /\ Trouble
    /\ DropCurrent(1, 0)
    /\ UNCHANGED <<strayConnecting, syncing, chain, locked, monitor, gaveUp>>

\* The late 'close' of a socket close() was called on.
CloseEvent ==
    /\ Calm
    /\ closing > 0 /\ closing' = closing - 1
    /\ HandleReconnect(retrying)
    /\ UNCHANGED <<current, subscribed, strays, aborting, syncing, timers, locked, monitor, trouble>>

\* 'error' and 'close' of an aborted handshake: the error disconnects the
\* connection that has taken its place.
AbortEvent ==
    /\ aborting > 0
    /\ DropCurrent(0, -1)
    /\ HandleReconnect(retrying)
    /\ UNCHANGED <<strays, syncing, timers, locked, monitor, trouble>>

-----------------------------------------------------------------------------
(* WebSocketReconnectionService.                                             *)

\* handleReconnection returns and the timer is set.
SetTimer ==
    /\ Calm
    /\ retrying > 0 /\ retrying' = retrying - 1
    /\ timers' = timers + 1
    /\ UNCHANGED <<sockets, syncing, reconnectAttempts, locked, monitor, gaveUp, trouble>>

\* handleReconnection throws: the next attempt starts at once.
RetryFails ==
    /\ Calm
    /\ retrying > 0 /\ Trouble
    /\ HandleReconnect(retrying - 1)
    /\ UNCHANGED <<sockets, syncing, timers, locked, monitor>>

\* The timer fires: reconnect() replaces the current connection, whatever
\* state it is in.
Reconnect ==
    /\ Calm
    /\ timers > 0 /\ timers' = timers - 1
    /\ IF current = "connecting" THEN Trouble ELSE UNCHANGED trouble
    /\ Connect /\ Disconnect(0, 0)
    /\ UNCHANGED <<strays, syncing, reconnectAttempts, retrying, locked, monitor>>

-----------------------------------------------------------------------------
(* reconnectNetwork and WebSocketHealthMonitor.                              *)

\* The first half of reconnectNetwork, a no-op while the lock is held.
ReconnectNetwork ==
    \/ /\ locked
       /\ UNCHANGED <<current, subscribed, closing, aborting, locked>>
    \/ /\ ~locked /\ locked' = TRUE
       /\ current' = "none" /\ Disconnect(0, 0)

\* Its timer: connectToNetwork overwrites the entry the map has by then.
FinishReconnectNetwork ==
    /\ Calm
    /\ locked /\ locked' = FALSE
    /\ Connect /\ subscribed' = FALSE
    /\ strayConnecting' = strayConnecting + One(current = "connecting")
    /\ strayOpen' = strayOpen + One(current = "open")
    /\ UNCHANGED <<closing, aborting, syncing, chain, monitor, trouble>>

\* Mutant: a connection whose socket is gone counts as being repaired.
FindsOnlyConnecting ==
    /\ Calm
    /\ current = "connecting" /\ ~recheck
    /\ recheck' = TRUE
    /\ UNCHANGED <<sockets, syncing, chain, locked, checking, gaveUp, trouble>>

\* checkConnection finds a connection that is not connected: look again.  It
\* finds none only while reconnectNetwork holds its lock, and does nothing.
FindsDisconnected ==
    /\ Calm
    /\ current \in {"connecting", "closed", "dropped"} /\ ~recheck
    /\ recheck' = TRUE
    /\ UNCHANGED <<sockets, syncing, chain, locked, checking, gaveUp, trouble>>

\* The second look, 1 s later.
Recheck ==
    /\ Calm
    /\ recheck /\ recheck' = FALSE
    /\ IF current = "connecting" THEN Trouble ELSE UNCHANGED trouble
    /\ IF current \in {"connecting", "closed", "dropped"} THEN ReconnectNetwork
       ELSE UNCHANGED <<current, subscribed, closing, aborting, locked>>
    /\ UNCHANGED <<strays, syncing, chain, checking, gaveUp>>

\* checkBlockActivity: no block message for MAX_INACTIVE_TIME.
FindsInactive ==
    /\ Calm
    /\ current = "open" /\ ~checking /\ Trouble
    /\ checking' = TRUE
    /\ UNCHANGED <<sockets, syncing, chain, locked, recheck, gaveUp>>

\* getCurrentHeight answers, or fails: reconnect unless no block is missing.
ActivityChecked ==
    /\ Calm
    /\ checking /\ checking' = FALSE
    /\ \/ ReconnectNetwork
       \/ UNCHANGED <<current, subscribed, closing, aborting, locked>>
    /\ UNCHANGED <<strays, syncing, chain, recheck, gaveUp, trouble>>

-----------------------------------------------------------------------------
ConnectionNext ==
    \/ Opens \/ Synced \/ ConnectFails \/ PeerCloses \/ SocketFails
    \/ StrayOpens \/ StrayConnectFails \/ StrayCloses \/ StrayFails
    \/ CloseEvent \/ AbortEvent
    \/ SetTimer \/ RetryFails \/ Reconnect
    \/ FinishReconnectNetwork
    \/ FindsDisconnected \/ Recheck
    \/ FindsInactive \/ ActivityChecked

ConnectionSpec == ConnectionInit /\ [][ConnectionNext]_connectionVars

\* The event loop dispatches timers, close events and settled promises; the
\* monitor's interval keeps coming; a handshake that is tried again and again
\* succeeds at last.  No failure is ever owed.
ConnectionFairness ==
    /\ SF_connectionVars(Opens)
    /\ WF_connectionVars(Synced) /\ WF_connectionVars(CloseEvent) /\ WF_connectionVars(AbortEvent)
    /\ WF_connectionVars(SetTimer) /\ WF_connectionVars(Reconnect)
    /\ WF_connectionVars(FinishReconnectNetwork)
    /\ WF_connectionVars(FindsDisconnected) /\ WF_connectionVars(Recheck)

FairConnectionSpec == ConnectionSpec /\ ConnectionFairness

-----------------------------------------------------------------------------
(* Properties.                                                               *)

\* The numbers of sockets, calls and timers.
Counts ==
    /\ strayConnecting \in Nat /\ strayOpen \in Nat
    /\ closing \in Nat /\ aborting \in Nat
    /\ reconnectAttempts \in 0..MaxReconnectAttempts /\ retrying \in Nat /\ timers \in Nat
    /\ trouble \in 0..MaxTrouble

\* The rest of the state.
Flags ==
    /\ current \in States /\ subscribed \in BOOLEAN /\ syncing \in BOOLEAN
    /\ locked \in BOOLEAN /\ recheck \in BOOLEAN /\ checking \in BOOLEAN
    /\ gaveUp \in BOOLEAN

\* The types of the variables.
ConnectionTypeOK == Counts /\ Flags

\* What will replace the current connection, or has given up doing so.
Repairing ==
    \/ locked \/ timers > 0 \/ retrying > 0
    \/ closing > 0 \/ aborting > 0
    \/ gaveUp

\* A dead connection is never forgotten: some chain, timer or close event is
\* on its way to replace it, unless the attempts ran out.  It has to survive
\* errors of sockets that are not current, and reconnects overlapping.
RepairPending == current \in {"none", "closed", "dropped"} => Repairing

\* An open connection without subscriptions has a handleOpen that will send
\* them, although handleOpen does not know which connection it opened and
\* startSync skips all calls but one.
WillSubscribe == current = "open" /\ ~subscribed => syncing

\* Neither a dead connection nor one without subscriptions is ever left alone
\* (WebSocketReconnectionService.ts:22, WebSocketOrchestratorService.ts:96).
ConnectionHolds == RepairPending /\ WillSubscribe

\* Once troubles are over the indexer is connected again and again, also
\* after the chains gave up: the health monitor takes over.
KeepsConnecting == []<>(current = "open")

\* "ensures they are working properly", WebSocketHealthMonitor.ts:12: once
\* troubles are over, the connection comes to rest.
ComesToRest == <>[](current = "open")
=============================================================================
