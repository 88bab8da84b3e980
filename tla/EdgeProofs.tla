----------------------------- MODULE EdgeProofs -----------------------------
(***************************************************************************)
(* Proofs about the modules at the edges of the program.  HealthTracker:   *)
(* type correctness and the coverage of heights, for every value of its    *)
(* constants.  WsConnection: RepairPending and WillSubscribe, for every    *)
(* attempt limit and any amount of trouble.  Each of these is inductive    *)
(* together with ConnectionTypeOK, because the tokens that carry a repair  *)
(* (locked, timers, retrying, closing, aborting) only ever turn into one   *)
(* another, into a new connection or into gaveUp.  HttpApi: HttpHolds, for *)
(* every handler, limit and number of requests, from what the rows of the  *)
(* handlers have in common and what a request that is being served has     *)
(* not met yet.                                                            *)
(***************************************************************************)
EXTENDS HealthTracker, WsConnection, HttpApi, TLAPS

-----------------------------------------------------------------------------
(* HealthTracker                                                             *)

(* A block whose events the node is about to publish exists: what TypeOK    *)
(* needs to be inductive.                                                   *)
Typed == TypeOK /\ (firing => tip \in Heights)

\* Taking the head of a queue of calls, or appending to it, leaves such a queue.
LEMMA QueueType ==
    ASSUME NEW q \in Seq(Calls)
    PROVE  /\ \A c \in Calls : Append(q, c) \in Seq(Calls)
           /\ q # <<>> => Head(q) \in Calls /\ Tail(q) \in Seq(Calls)
    OBVIOUS

\* The heights a closing socket can lose are heights of blocks.
LEMMA InFlightType == Typed => InFlight \subseteq Heights
    BY DEF Typed, TypeOK, InFlight

\* One more handleReconnection call, or none, leaves a queue of calls.
LEMMA ReconnectType ==
    ASSUME NEW q \in Seq(Calls), attempts \in 0..MaxAttempts, QueueReconnection(q)
    PROVE  attempts' \in 0..MaxAttempts /\ queue' \in Seq(Calls)
<1>1. ReconnectCall \in Calls
  BY ConstantsAssumption DEF ReconnectCall, Calls
<1>2. QED
  BY <1>1, QueueType, ConstantsAssumption DEF QueueReconnection

LEMMA InitTyped == Init => Typed
<1>1. <<>> \in Seq(Calls)
  OBVIOUS
<1>2. 1 \in 1..(MaxHeight + 1) /\ 0 \in 0..MaxHeight
  BY ConstantsAssumption
<1>3. 0 \in 0..MaxAttempts /\ 0 \in 0..MaxFaults /\ 0 \in 0..MaxRestarts
  BY ConstantsAssumption
<1>4. QED
  BY <1>1, <1>2, <1>3 DEF Init, Typed, TypeOK

LEMMA NextTyped == Typed /\ [Next]_vars => Typed'
<1> SUFFICES ASSUME Typed, [Next]_vars PROVE Typed'
  OBVIOUS
<1> USE ConstantsAssumption DEF Typed, TypeOK, Heights, Topics,
        nodeVars, linkVars, loadVars, lockVars, bounds
<1>q. /\ queue # <<>> => Head(queue) \in Calls /\ Tail(queue) \in Seq(Calls)
      /\ queue # <<>> => Head(queue).height \in 0..MaxHeight
  BY QueueType DEF Calls
<1>f. 1 \in 1..(MaxHeight + 1) /\ 0 \in 0..MaxHeight /\ <<>> \in Seq(Calls)
  OBVIOUS
<1>r. ASSUME QueueReconnection(queue) PROVE attempts' \in 0..MaxAttempts /\ queue' \in Seq(Calls)
  BY <1>r, ReconnectType
<1>i. InFlight \subseteq 1..MaxHeight
  BY InFlightType
<1>1. CASE NodeCommits
  BY <1>1 DEF NodeCommits
<1>2. CASE NodeFiresTx
  BY <1>2 DEF NodeFiresTx
<1>3. CASE SocketOpens
  BY <1>3 DEF SocketOpens
<1>4. ASSUME NEW t \in Topics, Subscribe(t) PROVE Typed'
  BY <1>4 DEF Subscribe
<1>5. CASE Drop
  BY <1>5, <1>i, <1>r DEF Drop, SocketCloses
<1>6. CASE MonitorReconnects
  BY <1>6, <1>i, <1>r DEF MonitorReconnects, SocketCloses
<1>late. CASE LateClose
  BY <1>late, <1>r DEF LateClose
<1>7. ASSUME NEW h \in Heights, StakingMessage(h) PROVE Typed'
  BY <1>7 DEF StakingMessage
<1>8. ASSUME NEW h \in Heights, NewBlockMessage(h) PROVE Typed'
  <2>1. BlockCall(h) \in Calls
    BY DEF BlockCall, Calls
  <2>2. QED
    BY <1>8, <2>1, QueueType DEF NewBlockMessage
<1>9. CASE BlockEnter
  <2>1. /\ last' \in 0..MaxHeight /\ target' \in 0..MaxHeight /\ next' \in 1..(MaxHeight + 1)
        /\ pc' \in {"free", "height", "gap", "store"} /\ queue' \in Seq(Calls)
    BY <1>9, <1>q, <1>f DEF BlockEnter, Holder, MoveTo, Release, Forget
  <2>2. QED
    BY <1>9, <2>1 DEF BlockEnter
<1>10. CASE GapBatch
  BY <1>10, <1>q DEF GapBatch, GapEnd
<1>11. CASE BlockAdvance
  BY <1>11, <1>q, <1>f DEF BlockAdvance, Holder, MoveTo, Release, Forget
<1>12. CASE ReconnectEnter
  BY <1>12 DEF ReconnectEnter
<1>13. CASE ReconnectHeight
  <2>1. PICK c \in 1..tip :
            /\ faults' \in {faults, faults + 1} /\ faults' <= MaxFaults
            /\ IF c > last /\ IsProduction
               THEN pc' = "gap" /\ next' = last + 1 /\ target' = c /\ UNCHANGED queue
               ELSE Release
    BY <1>13 DEF ReconnectHeight
  <2>2. queue # <<>>
    BY <1>13 DEF ReconnectHeight, Holder
  <2>3. c \in 0..MaxHeight
    BY <2>1
  <2>4. /\ target' \in 0..MaxHeight /\ next' \in 1..(MaxHeight + 1) /\ faults' \in 0..MaxFaults
        /\ pc' \in {"free", "height", "gap", "store"} /\ queue' \in Seq(Calls)
    <3>1. CASE c > last /\ IsProduction
      BY <2>1, <2>3, <3>1
    <3>2. CASE ~(c > last /\ IsProduction)
      <4>1. pc' = "free" /\ next' = 1 /\ target' = 0 /\ queue' = Tail(queue)
        BY <2>1, <3>2 DEF Release, Forget
      <4>2. QED
        BY <2>1, <2>2, <4>1, <1>q, <1>f
    <3>3. QED
      BY <3>1, <3>2
  <2>5. QED
    BY <1>13, <2>4 DEF ReconnectHeight
<1>14. CASE ReconnectAdvance
  BY <1>14 DEF ReconnectAdvance, MoveTo
<1>15. CASE StoreHeight
  BY <1>15, <1>q, <1>f DEF StoreHeight, Release, Forget
<1>16. CASE LoadGet
  BY <1>16 DEF LoadGet
<1>17. CASE LoadSet
  BY <1>17 DEF LoadSet
<1>18. CASE ReconnectFails
  <2>1. attempts' \in 0..MaxAttempts /\ queue' \in Seq(Calls)
    BY <1>18, <1>q, ReconnectType DEF ReconnectFails, Holder
  <2>2. QED
    BY <1>18, <1>f, <2>1 DEF ReconnectFails, Forget
<1>19. CASE Restart
  BY <1>19, <1>f, <1>i DEF Restart, Forget
<1>20. CASE UNCHANGED vars
  BY <1>20 DEF vars
<1>21. QED
  BY <1>1, <1>2, <1>3, <1>4, <1>5, <1>6, <1>late, <1>7, <1>8, <1>9, <1>10, <1>11, <1>12, <1>13,
     <1>14, <1>15, <1>16, <1>17, <1>18, <1>19, <1>20 DEF Next, Tracker

\* Every variable keeps its type in every reachable state.
THEOREM TypeCorrect == Spec => []TypeOK
<1>1. Typed => TypeOK
  BY DEF Typed
<1>2. QED
  BY <1>1, InitTyped, NextTyped, PTL DEF Spec

-----------------------------------------------------------------------------
(* Coverage.  It is not inductive: the heights still to be announced, the    *)
(* calls that wait for the mutex, the call that holds it and the value the   *)
(* unlocked load carries all become lastProcessedHeight later, so each of    *)
(* them has to stand for covered heights already.                            *)

CoveredTo(n) == \A h \in 1..n : Covered(h)

\* The heights a queued updateBlockHeight call announces are covered.
Announced(h) == \E i \in 1..Len(queue) : queue[i] = BlockCall(h)
QueueCovered == \A h : Announced(h) => Covered(h)

\* What the holder has passed, and what it is about to store, is covered.
HolderCovered ==
    /\ pc # "free" => queue # <<>>
    /\ pc = "gap" => CoveredTo(next - 1)
    /\ pc = "gap" /\ Head(queue).kind = "block" => target = Head(queue).height
    /\ pc = "store" => CoveredTo(target)

IInv ==
    /\ CoveredTo(last) /\ CoveredTo(cached) /\ CoveredTo(loadVal)
    /\ \A h \in blockMsgs : Covered(h)
    /\ QueueCovered
    /\ HolderCovered
    /\ "new_block" \in subs => "btc_staking" \in subs

\* No step uncovers a height: events on the socket are delivered or recorded
\* as lost, and nothing forgets what has passed.
LEMMA CoveredStays ==
    ASSUME Typed, [Next]_vars, NEW h, Covered(h)
    PROVE  Covered(h)'
<1> USE DEF Covered, InFlight, Typed, TypeOK, nodeVars, linkVars, loadVars, lockVars, bounds
<1>1. CASE NodeCommits
  BY <1>1 DEF NodeCommits
<1>2. CASE NodeFiresTx
  BY <1>2 DEF NodeFiresTx
<1>3. ASSUME NEW t \in Topics, Subscribe(t) PROVE Covered(h)'
  BY <1>3 DEF Subscribe
<1>4. CASE Drop \/ LateClose \/ MonitorReconnects
  BY <1>4 DEF Drop, LateClose, MonitorReconnects, SocketCloses
<1>5. ASSUME NEW g \in Heights, StakingMessage(g) PROVE Covered(h)'
  BY <1>5 DEF StakingMessage
<1>6. CASE GapBatch
  BY <1>6 DEF GapBatch
<1>7. CASE Restart
  BY <1>7 DEF Restart
<1>8. CASE SocketOpens
  BY <1>8 DEF SocketOpens
<1>9. ASSUME NEW g \in Heights, NewBlockMessage(g) PROVE Covered(h)'
  BY <1>9 DEF NewBlockMessage
<1>10. CASE BlockEnter \/ BlockAdvance \/ StoreHeight \/ LoadGet \/ LoadSet
  BY <1>10 DEF BlockEnter, BlockAdvance, StoreHeight, LoadGet, LoadSet
<1>11. CASE ReconnectEnter \/ ReconnectHeight \/ ReconnectAdvance \/ ReconnectFails
  BY <1>11 DEF ReconnectEnter, ReconnectHeight, ReconnectAdvance, ReconnectFails
<1>12. CASE UNCHANGED vars
  BY <1>12 DEF vars
<1>13. QED
  BY <1>1, <1>2, <1>3, <1>4, <1>5, <1>6, <1>7, <1>8, <1>9, <1>10, <1>11, <1>12 DEF Next, Tracker

\* What a queue announces after a call is appended and after the head leaves.
LEMMA AnnouncedStays ==
    ASSUME Typed, NEW h, Announced(h)'
    PROVE  /\ queue' = queue => Announced(h)
           /\ queue # <<>> /\ queue' = Tail(queue) => Announced(h)
           /\ \A c \in Calls : queue' = Append(queue, c) => Announced(h) \/ c = BlockCall(h)
           /\ queue' # <<>>
<1> USE DEF Typed, TypeOK
<1>1. PICK i \in 1..Len(queue') : queue'[i] = BlockCall(h)
  BY DEF Announced, BlockCall
<1>2. CASE queue' = queue
  BY <1>1, <1>2 DEF Announced
<1>3. CASE queue # <<>> /\ queue' = Tail(queue)
  <2>1. i + 1 \in 1..Len(queue) /\ queue[i + 1] = queue'[i]
    BY <1>3
  <2>2. QED
    BY <1>1, <2>1 DEF Announced
<1>4. ASSUME NEW c \in Calls, queue' = Append(queue, c) PROVE Announced(h) \/ c = BlockCall(h)
  <2>1. CASE i \in 1..Len(queue)
    <3>1. queue'[i] = queue[i]
      BY <1>4, <2>1
    <3>2. QED
      BY <1>1, <2>1, <3>1 DEF Announced
  <2>2. CASE i = Len(queue) + 1
    <3>1. queue'[i] = c
      BY <1>4, <2>2
    <3>2. QED
      BY <1>1, <3>1
  <2>3. Len(queue') = Len(queue) + 1
    BY <1>4
  <2>4. QED
    BY <1>1, <2>1, <2>2, <2>3
<1>5. queue' # <<>>
  BY <1>1
<1>6. QED
  BY <1>2, <1>3, <1>4, <1>5

\* handleReconnect never announces a height.
LEMMA ReconnectQuiet ==
    ASSUME Typed, NEW h, Announced(h)',
           QueueReconnection(queue) \/ (queue # <<>> /\ QueueReconnection(Tail(queue)))
    PROVE  Announced(h)
<1> USE DEF Typed, TypeOK
<1>1. ReconnectCall \in Calls /\ ReconnectCall # BlockCall(h)
  BY ConstantsAssumption DEF ReconnectCall, BlockCall, Calls
<1>2. CASE QueueReconnection(queue)
  BY <1>1, <1>2, AnnouncedStays DEF QueueReconnection
<1>3. CASE queue # <<>> /\ QueueReconnection(Tail(queue))
  <2>1. PICK i \in 1..Len(queue') : queue'[i] = BlockCall(h)
    BY DEF Announced, BlockCall
  <2>2. queue' = Tail(queue) \/ queue' = Append(Tail(queue), ReconnectCall)
    BY <1>3 DEF QueueReconnection
  <2>type. Tail(queue) \in Seq(Calls)
    BY <1>3, QueueType
  <2>tail. i \in 1..Len(Tail(queue)) /\ Tail(queue)[i] = queue'[i]
    <3>1. CASE queue' = Tail(queue)
      BY <2>1, <3>1
    <3>2. CASE queue' = Append(Tail(queue), ReconnectCall)
      BY ONLY <1>1, <2>type, <2>1, <3>2
    <3>3. QED
      BY <2>2, <3>1, <3>2
  <2>3. i + 1 \in 1..Len(queue) /\ queue[i + 1] = queue'[i]
    BY <1>3, <2>tail
  <2>4. QED
    BY <2>1, <2>3 DEF Announced
<1>4. QED
  BY <1>2, <1>3

LEMMA InitIInv == Init => IInv
    BY DEF Init, IInv, CoveredTo, QueueCovered, Announced, HolderCovered

\* One step of the code keeps the announced heights covered.
LEMMA QueueStep ==
    ASSUME Typed, IInv, [Next]_vars
    PROVE  QueueCovered'
<1> SUFFICES ASSUME NEW h, Announced(h)' PROVE Covered(h)'
  BY DEF QueueCovered
<1> SUFFICES Announced(h) \/ Covered(h)
  BY CoveredStays DEF IInv, QueueCovered
<1> USE AnnouncedStays DEF lockVars
<1>1. ASSUME NEW g \in Heights, NewBlockMessage(g) PROVE Announced(h) \/ Covered(h)
  <2>1. BlockCall(g) \in Calls /\ Covered(g)
    BY <1>1 DEF BlockCall, Calls, Heights, NewBlockMessage, IInv
  <2>2. BlockCall(g) = BlockCall(h) => g = h
    BY DEF BlockCall
  <2>3. QED
    BY <1>1, <2>1, <2>2 DEF NewBlockMessage
<1>2. CASE Drop \/ LateClose \/ MonitorReconnects
  BY <1>2, ReconnectQuiet DEF Drop, LateClose, MonitorReconnects, SocketCloses
<1>3. CASE ReconnectFails
  BY <1>3, ReconnectQuiet DEF ReconnectFails, Holder
<1>4. CASE Restart
  BY <1>4 DEF Restart
<1>5. CASE BlockEnter \/ BlockAdvance \/ ReconnectHeight \/ StoreHeight
  BY <1>5 DEF BlockEnter, BlockAdvance, ReconnectHeight, StoreHeight, Holder, Release
<1>6. CASE GapBatch \/ ReconnectEnter \/ ReconnectAdvance \/ LoadGet \/ LoadSet
  BY <1>6 DEF GapBatch, ReconnectEnter, ReconnectAdvance, LoadGet, LoadSet
<1>7. CASE NodeCommits \/ NodeFiresTx \/ SocketOpens
  BY <1>7 DEF NodeCommits, NodeFiresTx, SocketOpens
<1>8. ASSUME NEW t \in Topics, Subscribe(t) PROVE Announced(h) \/ Covered(h)
  BY <1>8 DEF Subscribe
<1>9. ASSUME NEW g \in Heights, StakingMessage(g) PROVE Announced(h) \/ Covered(h)
  BY <1>9 DEF StakingMessage
<1>10. CASE UNCHANGED vars
  BY <1>10 DEF vars
<1>11. QED
  BY <1>1, <1>2, <1>3, <1>4, <1>5, <1>6, <1>7, <1>8, <1>9, <1>10 DEF Next, Tracker

\* Every step keeps the rest of the strengthened invariant.  In production
\* only: elsewhere updateBlockHeight jumps over the gap.
LEMMA IInvStep ==
    ASSUME Typed, IInv, [Next]_vars, IsProduction
    PROVE  IInv'
<1>c. \A h : Covered(h) => Covered(h)'
  BY CoveredStays
<1>q. QueueCovered'
  BY QueueStep
<1> USE <1>c, <1>q, ConstantsAssumption
        DEF IInv, CoveredTo, HolderCovered, Typed, TypeOK, Heights,
            nodeVars, linkVars, loadVars, lockVars, bounds
<1>h. \A h \in Nat : Holder("block") /\ Head(queue).height = h => Covered(h)
  <2> SUFFICES ASSUME Holder("block") PROVE Covered(Head(queue).height)
    OBVIOUS
  <2>1. queue[1] \in Calls /\ queue[1] = Head(queue) /\ 1 \in 1..Len(queue)
    BY DEF Holder
  <2>2. queue[1] = BlockCall(Head(queue).height)
    BY <2>1 DEF Holder, BlockCall, Calls
  <2>3. QED
    BY <2>1, <2>2 DEF QueueCovered, Announced
<1>1. CASE NodeCommits
  <2>1. "new_block" \in subs => tip' \in InFlight'
    BY <1>1 DEF NodeCommits, InFlight
  <2>2. ASSUME NEW g \in blockMsgs' PROVE Covered(g)'
    <3>1. g \in blockMsgs \/ ("new_block" \in subs /\ g = tip')
      BY <1>1, <2>2 DEF NodeCommits
    <3>2. CASE g \in blockMsgs
      BY <3>2
    <3>3. CASE "new_block" \in subs /\ g = tip'
      BY <3>3, <2>1 DEF Covered
    <3>4. QED
      BY <3>1, <3>2, <3>3
  <2>3. QED
    BY <1>1, <2>2 DEF NodeCommits
<1>2. CASE NodeFiresTx \/ SocketOpens
  BY <1>2 DEF NodeFiresTx, SocketOpens
<1>3. ASSUME NEW t \in Topics, Subscribe(t) PROVE IInv'
  BY <1>3 DEF Subscribe, MaySubscribe
<1>4. CASE Drop \/ LateClose \/ MonitorReconnects
  <2>1. ReconnectCall \in Calls
    BY DEF ReconnectCall, Calls
  <2>3. queue' = queue \/ queue' = Append(queue, ReconnectCall)
    BY <1>4 DEF Drop, LateClose, MonitorReconnects, SocketCloses, QueueReconnection
  <2>4. queue # <<>> => queue' # <<>> /\ Head(queue') = Head(queue)
    BY <2>1, <2>3
  <2>2. QED
    BY <1>4, <2>4 DEF Drop, LateClose, MonitorReconnects, SocketCloses
<1>5. ASSUME NEW g \in Heights, StakingMessage(g) PROVE IInv'
  BY <1>5 DEF StakingMessage
<1>6. ASSUME NEW g \in Heights, NewBlockMessage(g) PROVE IInv'
  <2>1. queue' # <<>> /\ (queue # <<>> => Head(queue') = Head(queue))
    BY <1>6 DEF NewBlockMessage, BlockCall, Calls
  <2>2. QED
    BY <1>6, <2>1 DEF NewBlockMessage
<1>7. CASE BlockEnter
  <2> DEFINE h == Head(queue).height
  <2>0. Holder("block") /\ queue # <<>> /\ Head(queue).kind = "block"
    BY <1>7 DEF BlockEnter, Holder
  <2>6. Head(queue) \in Calls
    BY <2>0, QueueType
  <2>7. h \in Nat
    BY <2>6 DEF Calls
  <2>8. \E g \in Nat : g = h /\ Covered(g)
    BY <2>0, <2>7, <1>h
  <2>1. h \in Nat /\ Covered(h)
    BY <2>8
  <2> HIDE DEF h
  <2>2. CASE h > last + 1
    BY <1>7, <2>0, <2>1, <2>2 DEF BlockEnter, h
  <2>3. CASE ~(h > last + 1) /\ h > last
    <3>1. MoveTo(h) /\ UNCHANGED <<next, queue, cached, loadVal, blockMsgs, subs>>
      BY <1>7, <2>1, <2>3 DEF BlockEnter, h
    <3>2. \A g \in 1..h : Covered(g)
      BY <2>1, <2>3
    <3>3. QED
      BY <2>0, <3>1, <3>2 DEF MoveTo
  <2>4. CASE h <= last
    BY <1>7, <2>1, <2>4 DEF BlockEnter, Release, Forget, h
  <2>5. QED
    BY <2>1, <2>2, <2>3, <2>4
<1>8. CASE GapBatch
  BY <1>8 DEF GapBatch, GapEnd, Covered
<1>9. CASE BlockAdvance
  BY <1>9, <1>h DEF BlockAdvance, GapEnd, MoveTo, Release, Forget, Holder
<1>10. CASE ReconnectEnter \/ ReconnectFails
  BY <1>10 DEF ReconnectEnter, ReconnectFails, Holder, Forget
<1>17. CASE ReconnectHeight
  BY <1>17 DEF ReconnectHeight, Holder, Release, Forget
<1>11. CASE ReconnectAdvance
  BY <1>11 DEF ReconnectAdvance, GapEnd, MoveTo, Holder
<1>12. CASE StoreHeight
  BY <1>12 DEF StoreHeight, Release, Forget
<1>13. CASE LoadGet
  BY <1>13 DEF LoadGet
<1>18. CASE LoadSet
  BY <1>18 DEF LoadSet
<1>14. CASE Restart
  BY <1>14 DEF Restart, Forget
<1>15. CASE UNCHANGED vars
  BY <1>15 DEF vars
<1>16. QED
  BY <1>1, <1>2, <1>3, <1>4, <1>5, <1>6, <1>7, <1>8, <1>9, <1>10, <1>11, <1>12, <1>13,
     <1>14, <1>15, <1>17, <1>18 DEF Next, Tracker

\* In production, lastProcessedHeight never passes over a height silently.
THEOREM CoverageHolds == Spec => []Coverage
<1>1. CASE IsProduction
  <2>1. Typed /\ IInv /\ [Next]_vars => IInv'
    BY <1>1, IInvStep
  <2>2. IInv => Coverage
    BY DEF IInv, CoveredTo, Coverage
  <2>3. QED
    BY <2>1, <2>2, InitIInv, InitTyped, NextTyped, PTL DEF Spec
<1>2. CASE ~IsProduction
  <2>1. Coverage
    BY <1>2 DEF Coverage
  <2>2. QED
    BY <2>1, PTL
<1>3. QED
  BY <1>1, <1>2

\* Nor does the height in Redis: a restart resumes without passing over one.
THEOREM ResumeCoverageHolds == Spec => []ResumeCoverage
<1>1. CASE IsProduction
  <2>1. Typed /\ IInv /\ [Next]_vars => IInv'
    BY <1>1, IInvStep
  <2>2. IInv => ResumeCoverage
    BY DEF IInv, CoveredTo, ResumeCoverage
  <2>3. QED
    BY <2>1, <2>2, InitIInv, InitTyped, NextTyped, PTL DEF Spec
<1>2. CASE ~IsProduction
  <2>1. ResumeCoverage
    BY <1>2 DEF ResumeCoverage
  <2>2. QED
    BY <2>1, PTL
<1>3. QED
  BY <1>1, <1>2

\* Handled, given up or lost heights stay so.
LEMMA PassedStays ==
    ASSUME [Next]_vars
    PROVE  passed \subseteq passed'
<1> USE DEF nodeVars, linkVars, loadVars, lockVars, bounds
<1>1. CASE NodeCommits \/ NodeFiresTx \/ SocketOpens \/ \E t \in Topics : Subscribe(t)
  BY <1>1 DEF NodeCommits, NodeFiresTx, SocketOpens, Subscribe
<1>2. CASE Drop \/ LateClose \/ MonitorReconnects \/ Restart
  BY <1>2 DEF Drop, LateClose, MonitorReconnects, SocketCloses, Restart
<1>3. CASE \E h \in Heights : StakingMessage(h) \/ NewBlockMessage(h)
  BY <1>3 DEF StakingMessage, NewBlockMessage
<1>4. CASE Tracker \/ ReconnectFails \/ UNCHANGED vars
  BY <1>4 DEF Tracker, BlockEnter, GapBatch, BlockAdvance, ReconnectEnter,
              ReconnectHeight, ReconnectAdvance, ReconnectFails, StoreHeight,
              LoadGet, LoadSet, vars
<1>5. QED
  BY <1>1, <1>2, <1>3, <1>4 DEF Next

\* In production the tracker implements the ledger of a resume point, the
\* height kept in Redis.
THEOREM KeepsLedgerHolds == IsProduction => (Spec => KeepsLedger)
<1> SUFFICES ASSUME IsProduction PROVE Spec => KeepsLedger
  OBVIOUS
<1>1. Typed /\ IInv /\ [Next]_vars => IInv'
  BY IInvStep
<1>2. Init => Ledger!Init
  BY DEF Init, Ledger!Init, InFlight
<1>3. Typed /\ IInv /\ Typed' /\ IInv' /\ [Next]_vars
        => [Ledger!Work \/ Ledger!Resume]_<<cached, passed, InFlight>>
  <2> SUFFICES ASSUME Typed, Typed', IInv', [Next]_vars
               PROVE  Ledger!Work \/ Ledger!Resume
    OBVIOUS
  <2>1. Ledger!Kept
    <3>1. \A h \in InFlight : Covered(h)
      BY DEF Covered
    <3>2. \A h \in InFlight : h \in passed' \cup InFlight'
      BY <3>1, CoveredStays DEF Covered
    <3>3. QED
      BY <3>2, PassedStays DEF Ledger!Kept
  <2>2. CASE cached' = cached
    BY <2>1, <2>2 DEF Ledger!Work
  <2>3. CASE cached' # cached
    <3>1. cached' \in Nat
      BY ConstantsAssumption DEF Typed, TypeOK
    <3>2. \A h \in 1..cached' : h \in passed' \cup InFlight'
      BY DEF IInv, CoveredTo, Covered
    <3>3. QED
      BY <2>1, <2>3, <3>1, <3>2 DEF Ledger!Resume
  <2>4. QED
    BY <2>2, <2>3
<1>4. QED
  BY <1>1, <1>2, <1>3, InitIInv, InitTyped, NextTyped, PTL
     DEF Spec, KeepsLedger, Ledger!Spec

-----------------------------------------------------------------------------
(* WsConnection                                                              *)

\* The counters stay natural numbers within their bounds: whatever takes one
\* from a counter has checked that there is one.
LEMMA CountsStep == Counts /\ [ConnectionNext]_connectionVars => Counts'
  <1> USE ConnectionAssumption
      DEF ConnectionAssumption, Counts, strays, sockets, chain, monitor, HandleReconnect, Trouble, DropCurrent, Disconnect,
           One, HandleOpen, SendSubscriptions, Connect, ReconnectNetwork
  <1> SUFFICES ASSUME Counts, ConnectionNext PROVE Counts'
    BY DEF connectionVars
  <1>1. CASE Opens
    BY <1>1 DEF Opens
  <1>2. CASE Synced
    BY <1>2 DEF Synced
  <1>3. CASE ConnectFails
    BY <1>3 DEF ConnectFails
  <1>4. CASE PeerCloses
    BY <1>4 DEF PeerCloses
  <1>5. CASE SocketFails
    BY <1>5 DEF SocketFails
  <1>6. CASE StrayOpens
    BY <1>6 DEF StrayOpens
  <1>7. CASE StrayConnectFails
    BY <1>7 DEF StrayConnectFails
  <1>8. CASE StrayCloses
    BY <1>8 DEF StrayCloses
  <1>9. CASE StrayFails
    BY <1>9 DEF StrayFails
  <1>10. CASE CloseEvent
    BY <1>10 DEF CloseEvent
  <1>11. CASE AbortEvent
    BY <1>11 DEF AbortEvent
  <1>12. CASE SetTimer
    BY <1>12 DEF SetTimer
  <1>13. CASE RetryFails
    BY <1>13 DEF RetryFails
  <1>14. CASE Reconnect
    BY <1>14 DEF Reconnect
  <1>15. CASE FinishReconnectNetwork
    BY <1>15 DEF FinishReconnectNetwork
  <1>16. CASE FindsDisconnected
    BY <1>16 DEF FindsDisconnected
  <1>17. CASE Recheck
    BY <1>17 DEF Recheck
  <1>18. CASE FindsInactive
    BY <1>18 DEF FindsInactive
  <1>19. CASE ActivityChecked
    BY <1>19 DEF ActivityChecked
  <1> QED
    BY <1>1, <1>2, <1>3, <1>4, <1>5, <1>6, <1>7, <1>8, <1>9, <1>10, <1>11, <1>12, <1>13,
       <1>14, <1>15, <1>16, <1>17, <1>18, <1>19 DEF ConnectionNext

\* The flags and the state of the current connection keep their types.
LEMMA FlagsStep == Flags /\ [ConnectionNext]_connectionVars => Flags'
  <1> USE DEF Flags, States, strays, sockets, chain, monitor, HandleReconnect, Trouble, DropCurrent, Disconnect,
           One, HandleOpen, SendSubscriptions, Connect, ReconnectNetwork
  <1> SUFFICES ASSUME Flags, ConnectionNext PROVE Flags'
    BY DEF connectionVars
  <1>1. CASE Opens
    BY <1>1 DEF Opens
  <1>2. CASE Synced
    BY <1>2 DEF Synced
  <1>3. CASE ConnectFails
    BY <1>3 DEF ConnectFails
  <1>4. CASE PeerCloses
    BY <1>4 DEF PeerCloses
  <1>5. CASE SocketFails
    BY <1>5 DEF SocketFails
  <1>6. CASE StrayOpens
    BY <1>6 DEF StrayOpens
  <1>7. CASE StrayConnectFails
    BY <1>7 DEF StrayConnectFails
  <1>8. CASE StrayCloses
    BY <1>8 DEF StrayCloses
  <1>9. CASE StrayFails
    BY <1>9 DEF StrayFails
  <1>10. CASE CloseEvent
    BY <1>10 DEF CloseEvent
  <1>11. CASE AbortEvent
    BY <1>11 DEF AbortEvent
  <1>12. CASE SetTimer
    BY <1>12 DEF SetTimer
  <1>13. CASE RetryFails
    BY <1>13 DEF RetryFails
  <1>14. CASE Reconnect
    BY <1>14 DEF Reconnect
  <1>15. CASE FinishReconnectNetwork
    BY <1>15 DEF FinishReconnectNetwork
  <1>16. CASE FindsDisconnected
    BY <1>16 DEF FindsDisconnected
  <1>17. CASE Recheck
    BY <1>17 DEF Recheck
  <1>18. CASE FindsInactive
    BY <1>18 DEF FindsInactive
  <1>19. CASE ActivityChecked
    BY <1>19 DEF ActivityChecked
  <1> QED
    BY <1>1, <1>2, <1>3, <1>4, <1>5, <1>6, <1>7, <1>8, <1>9, <1>10, <1>11, <1>12, <1>13,
       <1>14, <1>15, <1>16, <1>17, <1>18, <1>19 DEF ConnectionNext

\* Every variable of the connection keeps its type, whatever the limits.
THEOREM ConnectionTypeCorrect == ConnectionSpec => []ConnectionTypeOK
  <1>1. ConnectionInit => Counts
    <2>1. 0 \in 0..MaxReconnectAttempts /\ 0 \in 0..MaxTrouble
      BY ConnectionAssumption DEF ConnectionAssumption
    <2> QED BY <2>1 DEF ConnectionInit, Counts
  <1>2. ConnectionInit => Flags
    BY DEF ConnectionInit, Flags, States
  <1>3. ConnectionTypeOK <=> Counts /\ Flags
    BY DEF ConnectionTypeOK
  <1> QED BY <1>1, <1>2, <1>3, CountsStep, FlagsStep, PTL DEF ConnectionSpec

\* disconnect() of a live connection leaves an event to come.
LEMMA DisconnectOwes ==
    Counts /\ Disconnect(0, 0) => /\ closing' >= closing /\ aborting' >= aborting
                                  /\ current = "open" => closing' > 0
                                  /\ current = "connecting" => aborting' > 0
  BY DEF Counts, Disconnect, One

\* One step cannot leave a dead connection with nobody to replace it.
LEMMA RepairStep == Counts /\ Counts' /\ Flags /\ RepairPending /\ [ConnectionNext]_connectionVars => RepairPending'
  <1> SUFFICES ASSUME Counts, Counts', Flags, RepairPending, [ConnectionNext]_connectionVars PROVE RepairPending'
    OBVIOUS
  <1> USE DEF RepairPending, Repairing
  <1>1. CASE Opens \/ Reconnect \/ FinishReconnectNetwork
    BY <1>1 DEF Opens, Reconnect, FinishReconnectNetwork, Connect
  <1>2. CASE ConnectFails \/ PeerCloses \/ StrayConnectFails \/ StrayCloses \/ CloseEvent \/ AbortEvent
    <2>1. HandleReconnect(retrying)
      BY <1>2 DEF ConnectFails, PeerCloses, StrayConnectFails, StrayCloses, CloseEvent, AbortEvent
    <2>2. retrying' > 0 \/ gaveUp'
      BY <2>1 DEF HandleReconnect, Counts
    <2> QED BY <2>2
  <1>3. CASE RetryFails
    <2>1. HandleReconnect(retrying - 1) /\ retrying > 0
      BY <1>3 DEF RetryFails
    <2>2. retrying' > 0 \/ gaveUp'
      BY <2>1 DEF HandleReconnect, Counts
    <2> QED BY <2>2
  <1>4. CASE SocketFails
    <2>1. current = "open" /\ Disconnect(0, 0)
      BY <1>4 DEF SocketFails, DropCurrent
    <2>2. closing' > 0
      BY <2>1, DisconnectOwes
    <2> QED BY <2>2
  <1>5. CASE StrayFails
    <2>1. closing' > 0
      BY <1>5 DEF StrayFails, DropCurrent, Disconnect, One, Counts
    <2> QED BY <2>1
  <1>6. CASE SetTimer
    <2>1. timers' > 0
      BY <1>6 DEF SetTimer, Counts
    <2> QED BY <2>1
  <1>7. CASE Recheck \/ ActivityChecked
    <2>1. ReconnectNetwork \/ UNCHANGED <<current, closing, aborting, locked>>
      BY <1>7 DEF Recheck, ActivityChecked
    <2>2. UNCHANGED <<timers, retrying, gaveUp>>
      BY <1>7 DEF Recheck, ActivityChecked, chain
    <2>3. CASE UNCHANGED <<current, closing, aborting, locked>>
      BY <2>2, <2>3
    <2>4. CASE ReconnectNetwork
      BY <2>4 DEF ReconnectNetwork
    <2> QED BY <2>1, <2>3, <2>4
  <1>8. CASE Synced \/ StrayOpens \/ FindsDisconnected \/ FindsInactive \/ UNCHANGED connectionVars
    <2>1. UNCHANGED <<current, closing, aborting, timers, retrying, locked, gaveUp>>
      BY <1>8 DEF Synced, StrayOpens, HandleOpen, FindsDisconnected, FindsInactive, connectionVars, sockets, strays, chain
    <2> QED BY <2>1
  <1> QED
    BY <1>1, <1>2, <1>3, <1>4, <1>5, <1>6, <1>7, <1>8 DEF ConnectionNext

\* A dead connection always has a repair on its way or the attempts ran out:
\* overlapping reconnects, late close events and errors of other sockets
\* never cancel out.
THEOREM RepairPendingHolds == ConnectionSpec => []RepairPending
  <1>1. ConnectionInit => RepairPending
    BY DEF ConnectionInit, RepairPending, Repairing
  <1> QED BY <1>1, RepairStep, ConnectionTypeCorrect, PTL DEF ConnectionSpec, ConnectionTypeOK

\* An open connection always gets its subscriptions, although handleOpen
\* does not know which connection opened and only one startSync really runs.
THEOREM WillSubscribeHolds == ConnectionSpec => []WillSubscribe
  <1>1. ConnectionInit => WillSubscribe
    BY DEF ConnectionInit, WillSubscribe
  <1>2. ConnectionTypeOK /\ WillSubscribe /\ [ConnectionNext]_connectionVars => WillSubscribe'
    <2> SUFFICES ASSUME ConnectionTypeOK, WillSubscribe, [ConnectionNext]_connectionVars PROVE WillSubscribe'
      OBVIOUS
    <2> USE DEF WillSubscribe
    <2>1. CASE Opens \/ Synced \/ StrayOpens
      BY <2>1 DEF Opens, Synced, StrayOpens, HandleOpen, SendSubscriptions, ConnectionTypeOK
    <2>2. CASE ConnectFails \/ PeerCloses \/ Reconnect \/ FinishReconnectNetwork
      BY <2>2 DEF ConnectFails, PeerCloses, Reconnect, FinishReconnectNetwork, Connect
    <2>3. CASE SocketFails \/ StrayConnectFails \/ StrayFails \/ AbortEvent
      BY <2>3 DEF SocketFails, StrayConnectFails, StrayFails, AbortEvent, DropCurrent
    <2>4. CASE StrayCloses \/ CloseEvent \/ SetTimer \/ RetryFails \/ FindsDisconnected \/ FindsInactive
      BY <2>4 DEF StrayCloses, CloseEvent, SetTimer, RetryFails, FindsDisconnected, FindsInactive, sockets
    <2>5. CASE Recheck \/ ActivityChecked
      BY <2>5 DEF Recheck, ActivityChecked, ReconnectNetwork
    <2>6. CASE UNCHANGED connectionVars
      BY <2>6 DEF connectionVars, sockets
    <2> QED BY <2>1, <2>2, <2>3, <2>4, <2>5, <2>6 DEF ConnectionNext
  <1> QED BY <1>1, <1>2, ConnectionTypeCorrect, PTL DEF ConnectionSpec

\* Neither a dead connection nor one without subscriptions is ever left alone.
THEOREM ConnectionHoldsAlways == ConnectionSpec => []ConnectionHolds
  BY RepairPendingHolds, WillSubscribeHolds, PTL DEF ConnectionHolds

-----------------------------------------------------------------------------
(* HttpApi                                                                   *)

\* What the rows of the table have in common: where each outcome of a read may end.
Outcomes(v) == {o \in [saw : {"value", "nothing", "unfit", "error"}, says : {0, 200, 400, 404, 500}] :
    /\ o.saw = "error" => o.says \in (IF v THEN {400, 404, 500} ELSE {500})
    /\ o.says = 500 => o.saw = "error"
    /\ o.says \in {400, 404} => o.saw \in {"nothing", "unfit"} \/ v}
HandlerOK(op, v) ==
    /\ op.reads \in Seq(SUBSET Outcomes(v)) /\ op.ends \in {200, 202}
    /\ op.bad \in {0, 400, 500} \/ (v /\ op.bad = 404)
    /\ op.before \in Nat /\ op.keeps \in BOOLEAN
    /\ op.names \in {"query", "bsn"} => op.bad = 400 /\ op.before = 0
    /\ op.keeps => op.names = "query"

LEMMA ReadOutcomes ==
    \A v \in BOOLEAN : MayFail \in SUBSET Outcomes(v) /\ LackOrFail \in SUBSET Outcomes(v)
  BY DEF MayFail, LackOrFail, Gives, Lacks, Throws, Proceeds, Outcomes

LEMMA RowOK ==
    ASSUME NEW v \in BOOLEAN, NEW names, NEW a \in SUBSET Outcomes(v), NEW b \in SUBSET Outcomes(v),
           NEW c \in SUBSET Outcomes(v), NEW d \in SUBSET Outcomes(v),
           NEW reads \in {<<>>, <<a>>, <<a, b>>, <<a, b, c>>, <<a, b, c, d>>}
    PROVE  /\ HandlerOK(Checks(reads, names), v) /\ HandlerOK(Queues(reads, names), v)
           /\ names \notin {"query", "bsn"} => HandlerOK(Accepts(reads, names), v)
  <1>1. PICK S : S = SUBSET Outcomes(v)
    OBVIOUS
  <1>2. /\ <<>> \in Seq(S) /\ <<a>> \in Seq(S) /\ <<a, b>> \in Seq(S)
        /\ <<a, b, c>> \in Seq(S) /\ <<a, b, c, d>> \in Seq(S)
    BY <1>1
  <1>3. reads \in Seq(SUBSET Outcomes(v))
    BY <1>1, <1>2
  <1> QED BY <1>3 DEF HandlerOK, Checks, Queues, Accepts, Handler, Proceeds

LEMMA PlainRows ==
    \A names : \A reads \in {
          <<>>, <<MayFail>>, <<LackOrFail>>, <<MayFail, MayFail>>, <<LackOrFail, MayFail>>, <<MayFail, LackOrFail>>,
          <<MayFail, MayFail, MayFail>>, <<LackOrFail, MayFail, MayFail>>, <<MayFail, MayFail, LackOrFail>>,
          <<MayFail, MayFail, MayFail, MayFail>>} :
        /\ HandlerOK(Checks(reads, names), FALSE) /\ HandlerOK(Queues(reads, names), FALSE)
        /\ names \notin {"query", "bsn"} => HandlerOK(Accepts(reads, names), FALSE)
  BY ReadOutcomes, RowOK

LEMMA ZoneOK == \A op \in ZoneHandlers : HandlerOK(op, FALSE)
  BY PlainRows DEF ZoneHandlers, GetZoneParams, GetFinalizedBSNs, GetFinalizedBSN, GetFinalizationStatus,
    GetLatestFinalized, GetZoneEpoch, GetBSNProviders, GetBSNWithProviders, GetBlockSignatures, GetVoterStats,
    GetAllVoterStats, GetConsumers, GetConsumerStats, GetConsumer, GetConsumerStatus

\* Those whose reads end in ways of their own.
LEMMA SpecialRows ==
    /\ \A op \in {GetContractsOf, GetSchema, GetCodeSource, GetContractSource, VerifyUpload, VerifyGitHub,
                   GetLatestTxs, GetCheckpoints, GetProposalVotes, ShowProvider, GroupStakers} : HandlerOK(op, FALSE)
    /\ \A op \in Veiled : HandlerOK(op, TRUE)
  <1>1. PICK S : S = SUBSET Outcomes(FALSE)
    OBVIOUS
  <1>2. PICK V : V = SUBSET Outcomes(TRUE)
    OBVIOUS
  <1>3. {MayFail, LackOrFail, MayFail \cup {Lacks(200)}, LackOrFail \cup {Unfit(400), Unfit(200)},
         MayFail \cup {Gives(200), Lacks(400), Unfit(400)}, LackOrFail \cup {Unfit(404)},
         LackOrFail \cup {Unfit(400)}, {Lacks(404), Throws(500)}} \subseteq S
    BY <1>1 DEF MayFail, LackOrFail, Gives, Lacks, Throws, Unfit, Proceeds, Outcomes
  <1>4. {{Gives(200), Lacks(Proceeds), Throws(404), Throws(500)}, {Gives(404), Throws(404)},
         {Gives(Proceeds), Throws(400)}, {Gives(Proceeds), Throws(404)}, MayFail \cup {Throws(400)},
         MayFail \cup {Throws(404)}, LackOrFail \cup {Throws(404)}} \subseteq V
    BY <1>2 DEF MayFail, LackOrFail, Gives, Lacks, Throws, Proceeds, Outcomes
  <1>5. /\ <<MayFail>> \in Seq(S) /\ <<MayFail, MayFail, LackOrFail>> \in Seq(S)
        /\ <<MayFail \cup {Lacks(200)}, MayFail, MayFail>> \in Seq(S)
        /\ <<LackOrFail, LackOrFail \cup {Unfit(400), Unfit(200)},
             MayFail \cup {Gives(200), Lacks(400), Unfit(400)}, MayFail>> \in Seq(S)
        /\ <<LackOrFail \cup {Unfit(404)}, LackOrFail>> \in Seq(S) /\ <<{Lacks(404), Throws(500)}>> \in Seq(S)
        /\ <<LackOrFail \cup {Unfit(400)}, MayFail>> \in Seq(S) /\ <<MayFail \cup {Lacks(200)}, MayFail>> \in Seq(S)
    BY <1>3
  <1>6. /\ <<{Gives(200), Lacks(Proceeds), Throws(404), Throws(500)}, {Gives(404), Throws(404)}>> \in Seq(V)
        /\ <<{Gives(Proceeds), Throws(400)}>> \in Seq(V) /\ <<MayFail \cup {Throws(400)}>> \in Seq(V)
        /\ <<MayFail \cup {Throws(404)}>> \in Seq(V) /\ <<LackOrFail \cup {Throws(404)}>> \in Seq(V)
        /\ <<{Gives(Proceeds), Throws(404)}>> \in Seq(V)
    BY <1>4
  <1>7. /\ HandlerOK(GetLatestTxs, FALSE) /\ HandlerOK(GetCheckpoints, FALSE) /\ HandlerOK(ShowProvider, FALSE)
        /\ HandlerOK(GroupStakers, FALSE)
    BY <1>1, <1>5 DEF GetLatestTxs, GetCheckpoints, ShowProvider, GroupStakers, Handler, HandlerOK
  <1>8. \A op \in {GetContractsOf, GetSchema, GetCodeSource, GetContractSource, VerifyUpload, VerifyGitHub,
                   GetProposalVotes} : HandlerOK(op, FALSE)
    <2>1. HandlerOK(GetContractsOf, FALSE)
      BY <1>1, <1>5 DEF GetContractsOf, Checks, Queues, Accepts, Proceeds, Handler, HandlerOK
    <2>2. HandlerOK(GetSchema, FALSE)
      BY <1>1, <1>5 DEF GetSchema, Checks, Queues, Accepts, Proceeds, Handler, HandlerOK
    <2>3. HandlerOK(GetCodeSource, FALSE)
      BY <1>1, <1>5 DEF GetCodeSource, Checks, Queues, Accepts, Proceeds, Handler, HandlerOK
    <2>4. HandlerOK(GetContractSource, FALSE)
      BY <1>1, <1>5 DEF GetContractSource, Checks, Queues, Accepts, Proceeds, Handler, HandlerOK
    <2>5. HandlerOK(VerifyUpload, FALSE)
      BY <1>1, <1>5 DEF VerifyUpload, Checks, Queues, Accepts, Proceeds, Handler, HandlerOK
    <2>6. HandlerOK(VerifyGitHub, FALSE)
      BY <1>1, <1>5 DEF VerifyGitHub, Checks, Queues, Accepts, Proceeds, Handler, HandlerOK
    <2>7. HandlerOK(GetProposalVotes, FALSE)
      BY <1>1, <1>5 DEF GetProposalVotes, Checks, Queues, Accepts, Proceeds, Handler, HandlerOK
    <2> QED BY <2>1, <2>2, <2>3, <2>4, <2>5, <2>6, <2>7
  <1>9. \A op \in Veiled : HandlerOK(op, TRUE)
    <2>1. HandlerOK(GetBlock, TRUE)
      BY <1>2, <1>6 DEF GetBlock, Checks, Accepts, Proceeds, Handler, HandlerOK
    <2>2. HandlerOK(QueryContract, TRUE)
      BY <1>2, <1>6 DEF QueryContract, Checks, Accepts, Proceeds, Handler, HandlerOK
    <2>3. HandlerOK(QueryRaw, TRUE)
      BY <1>2, <1>6 DEF QueryRaw, Checks, Accepts, Proceeds, Handler, HandlerOK
    <2>4. HandlerOK(GetContractState, TRUE)
      BY <1>2, <1>6 DEF GetContractState, Checks, Accepts, Proceeds, Handler, HandlerOK
    <2>5. HandlerOK(GetContractHistory, TRUE)
      BY <1>2, <1>6 DEF GetContractHistory, Checks, Accepts, Proceeds, Handler, HandlerOK
    <2>6. HandlerOK(GetAllParams, TRUE)
      BY <1>2, <1>6 DEF GetAllParams, Checks, Accepts, Proceeds, Handler, HandlerOK
    <2>7. HandlerOK(GetModuleParams, TRUE)
      BY <1>2, <1>6 DEF GetModuleParams, Checks, Accepts, Proceeds, Handler, HandlerOK
    <2>8. HandlerOK(ShowStaker, TRUE)
      BY <1>2, <1>6 DEF ShowStaker, Checks, Accepts, Proceeds, Handler, HandlerOK
    <2> QED BY <2>1, <2>2, <2>3, <2>4, <2>5, <2>6, <2>7, <2>8 DEF Veiled
  <1> QED BY <1>7, <1>8, <1>9

LEMMA BlockRowsOK == \A op \in BlockHandlers : HandlerOK(op, FALSE)
  BY PlainRows, SpecialRows DEF BlockHandlers, GetNetworks, StartSync, GetTx, GetTxsOfBlock, GetLatestBlock,
    GetLatestBlocks, GetBlockByHash, GetTransactions, GetBTCTransactions

LEMMA WasmRowsOK == \A op \in WasmHandlers : HandlerOK(op, FALSE)
  BY PlainRows, SpecialRows DEF WasmHandlers, GetContracts, GetContract, GetMethods, GetSuggestions, GetCodes,
    GetCode, GetContractsOfCode, GetWasmState, GetContractTxs, GetCodeTxs, GetFile, GetVerification,
    GetVerifications

LEMMA ChainRowsOK == \A op \in ChainHandlers : HandlerOK(op, FALSE)
  BY PlainRows, SpecialRows DEF ChainHandlers, GetCheckpoint, GetCheckpointVotes, GetEpochVotes,
    GetCheckpointStats, GetMembers, GetMemberStats, GetTxSignatures, GetRecentTxs, GetProposals, GetProposal,
    GetProposalStats, GetGovernanceParams

LEMMA LegacyRowsOK == \A op \in LegacyHandlers : HandlerOK(op, FALSE)
  BY PlainRows, SpecialRows DEF LegacyHandlers, ListProviders, ListStakers, ShowStats, ShowPhase, ListPoints,
    ShowPoints, ShowBatch, ShowVotes

LEMMA ProviderRowsOK == \A op \in ProviderHandlers : HandlerOK(op, FALSE)
  BY PlainRows, SpecialRows DEF ProviderHandlers, GetValidator, GetValidators, GetSignatures, GetSignaturesOf,
    GetMissedBlocks, GetSignaturesByValoper, GetProviderDelegations, GetFinalityEpoch, GetProviderEpoch,
    GetProviders, GetInactive, GetProvider, GetPower, GetVotes, GetStakersOf, GetAllStakers, GetRewards,
    GetRewardsByKey, GetRewardsSummary

LEMMA ListRowsOK == \A op \in ListHandlers : HandlerOK(op, FALSE)
  BY PlainRows, SpecialRows DEF ListHandlers, GetDelegations, GetDelegation, GetDelegationsOf, GetStakers,
    GetStaker, GetStakerParts, GetChannel, GetChannels, GetChannelStats, GetChannelActivity, GetClient,
    GetClients, GetClientStats, GetConnection, GetConnections, GetConnectionStats, GetPackets, GetPacketStats,
    GetTransfers, GetTransferStats, GetTotals, GetRelayers

LEMMA HandlersOK == \A op \in Handlers : HandlerOK(op, FALSE) \/ (op \in Veiled /\ HandlerOK(op, TRUE))
  BY ZoneOK, BlockRowsOK, WasmRowsOK, ChainRowsOK, ProviderRowsOK, ListRowsOK, LegacyRowsOK,
    SpecialRows DEF Handlers

-----------------------------------------------------------------------------
\* A request that is with its handler has met no error and was refused nothing; what is
\* kept was read after its request came.
RequestOK(r, now) ==
    /\ r.at # 0 => /\ r.at <= Len(r.op.reads) /\ r.says = 0 /\ ~r.hit /\ "error" \notin r.saw /\ r.since <= now
                   /\ ~Misnamed(r.op, r.ask) /\ (Misfit(r.op, r.ask) => r.at <= r.op.before)
    /\ ToldTruly(r) /\ RefusedUnread(r) /\ AboutChosen(r) /\ KeptYoung(r)
HttpInv ==
    /\ HttpTypeOK /\ \A q \in Slots : RequestOK(serving[q], ticks)
    /\ \A n \in HttpNetworks : kept[n].since <= kept[n].asOf /\ kept[n].asOf <= ticks

LEMMA PassedAs ==
    ASSUME NEW r \in ServingType, NEW i
    PROVE  [r EXCEPT !.at = i] = Serving(r.op, r.ask, i, r.saw, r.says, r.since, r.asOf, r.hit)
  BY DEF ServingType, Serving

\* A handler that takes the query as it is has one in small letters, or is one of those excepted.
Taken(op, ask) ==
    /\ op.names = "query" => ask.query \in HttpNetworks
    /\ op.names = "bsn" => ask.query \in HttpNetworks \cup {"none"}
LEMMA AboutQuery == \A op, ask : Taken(op, ask) =>
    \/ About(op, ask) \in {"any", Chosen(ask)} \/ op.names = "own"
    \/ op.names = "bsn" /\ ask.query = "none"
    \/ op.names \in {"covenant", "state"} /\ ask.query \notin HttpNetworks
  <1> SUFFICES ASSUME NEW op, NEW ask, Taken(op, ask)
               PROVE  \/ About(op, ask) \in {"any", Chosen(ask)} \/ op.names = "own"
                      \/ op.names = "bsn" /\ ask.query = "none"
                      \/ op.names \in {"covenant", "state"} /\ ask.query \notin HttpNetworks
    OBVIOUS
  <1>1. ask.query \in HttpNetworks => Chosen(ask) = ask.query
    BY DEF Chosen, Lowered, HttpNetworks
  <1> QED BY <1>1 DEF About, Taken, HttpNetworks

LEMMA ReachesOK ==
    ASSUME NEW r \in ServingType, NEW i \in Nat \ {0}, NEW now, r.since <= now, r.says = 0, ~r.hit,
           "error" \notin r.saw, ~Misnamed(r.op, r.ask), Misfit(r.op, r.ask) => i <= r.op.before + 1,
           Misfit(r.op, r.ask) /\ r.op.before = 0 => r.saw = {}
    PROVE  Reaches(r, i) \in ServingType /\ RequestOK(Reaches(r, i), now)
  <1>1. /\ r.op.ends \in {200, 202} /\ r.op.before \in Nat
        /\ r.op.bad \in {0, 400, 500} \/ (r.op \in Veiled /\ r.op.bad = 404)
        /\ r.op.names \in {"query", "bsn"} => r.op.bad = 400 /\ r.op.before = 0
    BY HandlersOK DEF ServingType, HandlerOK
  <1>2. ~Misfit(r.op, r.ask) => Taken(r.op, r.ask)
    BY <1>1 DEF Misfit, Taken
  <1>3. CASE i = r.op.before + 1 /\ Misfit(r.op, r.ask)
    <2>1. Reaches(r, i) = Serving(r.op, r.ask, 0, r.saw, r.op.bad, r.since, r.asOf, r.hit)
      BY <1>3 DEF Reaches, ToldAs
    <2>2. r.op.bad \in {400, 404, 500}
      BY <1>1, <1>3 DEF Misfit
    <2> QED BY <1>1, <1>3, <2>1, <2>2 DEF Serving, ServingType, RequestOK, ToldTruly, RefusedUnread,
      AboutChosen, KeptYoung
  <1>4. CASE ~(i = r.op.before + 1 /\ Misfit(r.op, r.ask)) /\ i > Len(r.op.reads)
    <2>1. Reaches(r, i) = Serving(r.op, r.ask, 0, r.saw, r.op.ends, r.since, r.asOf, r.hit)
      BY <1>4 DEF Reaches, ToldAs
    <2>2. Taken(r.op, r.ask)
      <3>1. r.op.names \notin {"query", "bsn"} => Taken(r.op, r.ask)
        BY DEF Taken
      <3> QED BY <1>1, <1>2, <1>4, <3>1
    <2>3. AboutChosen(Reaches(r, i))
      BY <2>1, <2>2, AboutQuery DEF Serving, AboutChosen
    <2> QED
      BY <1>1, <1>4, <2>1, <2>3 DEF Serving, ServingType, RequestOK, ToldTruly, RefusedUnread, KeptYoung
  <1>5. CASE ~(i = r.op.before + 1 /\ Misfit(r.op, r.ask)) /\ ~(i > Len(r.op.reads))
    <2>1. Reaches(r, i) = Serving(r.op, r.ask, i, r.saw, r.says, r.since, r.asOf, r.hit)
      BY <1>5, PassedAs DEF Reaches
    <2> QED BY <1>1, <1>5, <2>1 DEF Serving, ServingType, RequestOK, ToldTruly, RefusedUnread, AboutChosen,
      KeptYoung
  <1> QED BY <1>3, <1>4, <1>5

LEMMA HttpStarts == HttpInit => HttpInv
  <1> SUFFICES ASSUME HttpInit PROVE HttpInv
    OBVIOUS
  <1>1. GetNetworks \in Handlers
    BY DEF Handlers, BlockHandlers
  <1>2. [query |-> "none", header |-> "none", fit |-> TRUE] \in Queries
    BY DEF Queries, Spelled, HttpNetworks
  <1>3. NotServing \in ServingType /\ NotServing.at = 0 /\ NotServing.says = 0 /\ ~NotServing.hit
    BY <1>1, <1>2 DEF NotServing, Serving, ServingType
  <1> QED
    BY <1>3, HttpAssumption DEF HttpInit, HttpInv, HttpTypeOK, NotKept, RequestOK, ToldTruly, RefusedUnread,
      AboutChosen, KeptYoung

LEMMA HttpForgetsOK == HttpInv /\ HttpForgets => HttpInv'
  <1> SUFFICES ASSUME HttpInv, HttpForgets PROVE HttpInv'
    OBVIOUS
  <1>1. GetNetworks \in Handlers
    BY DEF Handlers, BlockHandlers
  <1>2. [query |-> "none", header |-> "none", fit |-> TRUE] \in Queries
    BY DEF Queries, Spelled, HttpNetworks
  <1>3. NotServing \in ServingType /\ NotServing.at = 0 /\ NotServing.says = 0 /\ ~NotServing.hit
    BY <1>1, <1>2 DEF NotServing, Serving, ServingType
  <1> QED
    BY <1>3, HttpAssumption DEF HttpForgets, HttpInv, HttpTypeOK, NotKept, RequestOK, ToldTruly, RefusedUnread,
      AboutChosen, KeptYoung

LEMMA HttpTickOK == HttpInv /\ HttpTick => HttpInv'
  <1> SUFFICES ASSUME HttpInv, HttpTick PROVE HttpInv'
    OBVIOUS
  <1>1. HttpTypeOK' /\ ticks' = ticks + 1 /\ ticks \in Nat /\ serving' = serving /\ kept' = kept
    BY DEF HttpInv, HttpTypeOK, HttpTick
  <1>2. \A q \in Slots : serving[q].since \in Nat
    BY DEF HttpInv, HttpTypeOK, ServingType
  <1>3. \A n \in HttpNetworks : kept[n].asOf \in Nat
    BY DEF HttpInv, HttpTypeOK
  <1> QED BY <1>1, <1>2, <1>3 DEF HttpInv, RequestOK

LEMMA CountedOK == HttpTypeOK /\ Counted => hits' \in 0..(MaxHits + 1) /\ window' \in Nat
  BY HttpAssumption DEF HttpTypeOK, Counted, HitsNow

LEMMA RequestComesOK == \A q \in Slots : HttpInv /\ RequestComes(q) => HttpInv'
  <1> SUFFICES ASSUME NEW q \in Slots, HttpInv, RequestComes(q) PROVE HttpInv'
    OBVIOUS
  <1>1. PICK op \in httpScene.ops, ask \in httpScene.asks :
          serving' = [serving EXCEPT ![q] =
            CASE HitsNow > MaxHits -> ToldAs(Serving(op, ask, 0, {}, 0, ticks, ticks, FALSE), 429)
              [] ~(HitsNow > MaxHits) /\ Misnamed(op, ask) -> ToldAs(Serving(op, ask, 0, {}, 0, ticks, ticks, FALSE), 400)
              [] ~(HitsNow > MaxHits) /\ ~Misnamed(op, ask) /\ StillKept(op, ask) ->
                    Serving(op, ask, 0, {}, 200, ticks, kept[ask.query].asOf, TRUE)
              [] OTHER -> Reaches(Serving(op, ask, 0, {}, 0, ticks, ticks, FALSE), 1)]
    BY DEF RequestComes
  <1>2. op \in Handlers /\ ask \in Queries /\ ticks \in Nat /\ serving \in [Slots -> ServingType]
    BY HttpAssumption DEF HttpInv, HttpTypeOK
  <1>3. PICK r : r = Serving(op, ask, 0, {}, 0, ticks, ticks, FALSE)
    OBVIOUS
  <1>4. /\ r \in ServingType /\ r.op = op /\ r.ask = ask /\ r.since = ticks /\ r.says = 0 /\ r.hit = FALSE
        /\ r.saw = {} /\ r.asOf = ticks
    BY <1>2, <1>3 DEF Serving, ServingType
  <1>5. PICK s : serving' = [serving EXCEPT ![q] = s] /\
            s = CASE HitsNow > MaxHits -> ToldAs(r, 429)
                  [] ~(HitsNow > MaxHits) /\ Misnamed(op, ask) -> ToldAs(r, 400)
                  [] ~(HitsNow > MaxHits) /\ ~Misnamed(op, ask) /\ StillKept(op, ask) ->
                        Serving(op, ask, 0, {}, 200, ticks, kept[ask.query].asOf, TRUE)
                  [] OTHER -> Reaches(r, 1)
    BY <1>1, <1>3
  <1>6. s \in ServingType /\ RequestOK(s, ticks)
    <2>1. CASE HitsNow > MaxHits
      <3>0. s = ToldAs(r, 429)
        BY <1>5, <2>1
      <3>1. s = Serving(op, ask, 0, {}, 429, ticks, ticks, FALSE)
        BY <1>4, <3>0 DEF ToldAs
      <3> QED BY <1>2, <3>1 DEF Serving, ServingType, RequestOK, ToldTruly, RefusedUnread, AboutChosen, KeptYoung
    <2>2. CASE ~(HitsNow > MaxHits) /\ Misnamed(op, ask)
      <3>0. s = ToldAs(r, 400)
        BY <1>5, <2>2
      <3>1. s = Serving(op, ask, 0, {}, 400, ticks, ticks, FALSE)
        BY <1>4, <3>0 DEF ToldAs
      <3> QED BY <1>2, <2>2, <3>1 DEF Serving, ServingType, RequestOK, ToldTruly, RefusedUnread, AboutChosen,
        KeptYoung
    <2>3. CASE ~(HitsNow > MaxHits) /\ ~Misnamed(op, ask) /\ StillKept(op, ask)
      <3>1. s = Serving(op, ask, 0, {}, 200, ticks, kept[ask.query].asOf, TRUE)
        BY <1>5, <2>3
      <3>2. op.keeps /\ ask.query \in HttpNetworks /\ ticks - kept[ask.query].since < KeepsFor
        BY <2>3 DEF StillKept
      <3>3. Taken(op, ask)
        BY <1>2, <3>2, HandlersOK DEF HandlerOK, Taken
      <3>4. /\ kept[ask.query].asOf \in Nat /\ kept[ask.query].since \in Nat
            /\ kept[ask.query].since <= kept[ask.query].asOf /\ kept[ask.query].asOf <= ticks
        BY <3>2 DEF HttpInv, HttpTypeOK
      <3>5. ticks - kept[ask.query].asOf < KeepsFor
        BY <1>2, <3>2, <3>4, HttpAssumption
      <3> QED
        BY <1>2, <3>1, <3>3, <3>4, <3>5, AboutQuery DEF Serving, ServingType, RequestOK, ToldTruly,
          RefusedUnread, AboutChosen, KeptYoung
    <2>4. CASE ~(HitsNow > MaxHits) /\ ~Misnamed(op, ask) /\ ~StillKept(op, ask)
      <3>1. s = Reaches(r, 1)
        BY <1>5, <2>4
      <3>2. r.op.before \in Nat
        BY <1>2, <1>4, HandlersOK DEF HandlerOK
      <3> QED BY <1>2, <1>4, <2>4, <3>1, <3>2, ReachesOK
    <2> QED BY <2>1, <2>2, <2>3, <2>4
  <1>7. /\ HttpTypeOK' /\ ticks' = ticks /\ kept' = kept
    <2>1. Counted /\ came' = came + 1 /\ kept' = kept
      BY DEF RequestComes
    <2>2. hits' \in 0..(MaxHits + 1) /\ window' \in Nat /\ httpScene' = httpScene /\ ticks' = ticks
      BY <2>1, CountedOK DEF HttpInv, Counted
    <2>3. serving' \in [Slots -> ServingType]
      BY <1>2, <1>5, <1>6
    <2> QED BY <2>1, <2>2, <2>3 DEF HttpInv, HttpTypeOK
  <1>8. \A p \in Slots : serving'[p] = IF p = q THEN s ELSE serving[p]
    BY <1>2, <1>5
  <1> QED BY <1>6, <1>7, <1>8 DEF HttpInv

LEMMA ReadEndsOK == \A q \in Slots : HttpInv /\ ReadEnds(q) => HttpInv'
  <1> SUFFICES ASSUME NEW q \in Slots, HttpInv, ReadEnds(q) PROVE HttpInv'
    OBVIOUS
  <1>1. PICK c : c = serving[q]
    OBVIOUS
  <1>2. c \in ServingType /\ ticks \in Nat /\ serving \in [Slots -> ServingType] /\ RequestOK(c, ticks) /\ c.at # 0
    BY <1>1 DEF HttpInv, HttpTypeOK, ReadEnds
  <1>3. c.op \in Handlers /\ c.at \in 1..Len(c.op.reads)
    BY <1>2 DEF RequestOK, ServingType
  <1>4. PICK v \in BOOLEAN : HandlerOK(c.op, v) /\ (v => c.op \in Veiled)
    BY <1>3, HandlersOK
  <1>5. c.op.reads[c.at] \subseteq Outcomes(v)
    BY <1>3, <1>4 DEF HandlerOK
  <1>o. PICK o \in c.op.reads[c.at] :
          LET d == Serving(c.op, c.ask, c.at, c.saw \cup {o.saw}, c.says, c.since, ticks, c.hit)
              ends == IF o.says = Proceeds THEN Reaches(d, d.at + 1) ELSE ToldAs(d, o.says)
          IN /\ serving' = [serving EXCEPT ![q] = ends]
             /\ kept' = IF d.op.keeps /\ ends.says = 200
                          THEN [kept EXCEPT ![d.ask.query] = [since |-> d.since, asOf |-> ticks, there |-> TRUE]]
                          ELSE kept
    BY <1>1 DEF ReadEnds
  <1>r. PICK r : r = Serving(c.op, c.ask, c.at, c.saw \cup {o.saw}, c.says, c.since, ticks, c.hit)
    OBVIOUS
  <1>s. PICK s : s = IF o.says = Proceeds THEN Reaches(r, r.at + 1) ELSE ToldAs(r, o.says)
    OBVIOUS
  <1>6. /\ o \in c.op.reads[c.at] /\ serving' = [serving EXCEPT ![q] = s]
        /\ kept' = IF r.op.keeps /\ s.says = 200
                     THEN [kept EXCEPT ![r.ask.query] = [since |-> r.since, asOf |-> ticks, there |-> TRUE]]
                     ELSE kept
    BY <1>o, <1>r, <1>s
  <1>7. o \in Outcomes(v)
    BY <1>5, <1>6
  <1>8. /\ r \in ServingType /\ r.op = c.op /\ r.ask = c.ask /\ r.since = c.since /\ r.says = c.says /\ r.at = c.at
        /\ r.hit = c.hit /\ r.saw = c.saw \cup {o.saw} /\ r.asOf = ticks
    BY <1>2, <1>r, <1>7 DEF ServingType, Serving, Outcomes
  <1>9. s \in ServingType /\ RequestOK(s, ticks)
    <2>1. c.says = 0 /\ ~c.hit /\ "error" \notin c.saw /\ c.since <= ticks /\ ~Misnamed(c.op, c.ask)
      BY <1>2 DEF RequestOK
    <2>2. (Misfit(c.op, c.ask) => c.at <= c.op.before) /\ c.at \in Nat \ {0} /\ c.op.before \in Nat
      BY <1>2, <1>3, <1>4 DEF RequestOK, HandlerOK
    <2>3. CASE o.says = Proceeds
      <3>1. o.saw # "error"
        BY <1>7, <2>3 DEF Outcomes, Proceeds
      <3>2. "error" \notin r.saw
        BY <1>8, <2>1, <3>1
      <3>3. (Misfit(r.op, r.ask) => c.at + 1 <= c.op.before + 1) /\ ~(Misfit(r.op, r.ask) /\ c.op.before = 0)
        BY <1>8, <2>2
      <3>4. s = Reaches(r, c.at + 1) /\ c.at + 1 \in Nat \ {0}
        BY <1>s, <1>8, <2>2, <2>3
      <3> QED BY <1>8, <2>1, <2>2, <3>2, <3>3, <3>4, ReachesOK
    <2>4. CASE o.says # Proceeds
      <3>1. s = Serving(c.op, c.ask, 0, c.saw \cup {o.saw}, o.says, c.since, ticks, c.hit)
        BY <1>s, <1>8, <2>4 DEF ToldAs
      <3>2. /\ o.says \in {200, 400, 404, 500} /\ o.saw \in {"value", "nothing", "unfit", "error"}
            /\ (o.saw = "error" => o.says # 200) /\ (o.says = 500 => o.saw = "error")
            /\ (o.says \in {400, 404} => o.saw \in {"nothing", "unfit"} \/ c.op \in Veiled)
        BY <1>4, <1>7, <2>4 DEF Outcomes, Proceeds
      <3>3. ~(Misfit(c.op, c.ask) /\ c.op.before = 0) /\ Taken(c.op, c.ask)
        BY <1>4, <2>2 DEF HandlerOK, Misfit, Taken
      <3>4. s \in ServingType
        BY <1>2, <3>1, <3>2 DEF Serving, ServingType
      <3>5. ToldTruly(s)
        BY <2>1, <3>1, <3>2 DEF Serving, ToldTruly
      <3>6. RefusedUnread(s) /\ AboutChosen(s) /\ KeptYoung(s) /\ s.at = 0
        BY <2>1, <3>1, <3>2, <3>3, AboutQuery DEF Serving, RefusedUnread, AboutChosen, KeptYoung
      <3> QED BY <3>4, <3>5, <3>6 DEF RequestOK
    <2> QED BY <2>3, <2>4
  <1>10. /\ kept' \in [HttpNetworks -> [since : Nat, asOf : Nat, there : BOOLEAN]]
         /\ \A n \in HttpNetworks : kept'[n].since <= kept'[n].asOf /\ kept'[n].asOf <= ticks
    <2>1. kept \in [HttpNetworks -> [since : Nat, asOf : Nat, there : BOOLEAN]] /\ c.since \in Nat /\ c.since <= ticks
      BY <1>2 DEF HttpInv, HttpTypeOK, ServingType, RequestOK
    <2>2. \A n \in HttpNetworks : kept[n].since <= kept[n].asOf /\ kept[n].asOf <= ticks
      BY DEF HttpInv
    <2>3. CASE kept' = kept
      BY <2>1, <2>2, <2>3
    <2>4. CASE kept' = [kept EXCEPT ![r.ask.query] = [since |-> r.since, asOf |-> ticks, there |-> TRUE]]
      <3>1. PICK k, w : w = [since |-> r.since, asOf |-> ticks, there |-> TRUE] /\ kept' = [kept EXCEPT ![k] = w]
        BY <2>4
      <3>2. w \in [since : Nat, asOf : Nat, there : BOOLEAN] /\ w.since <= w.asOf /\ w.asOf <= ticks
        BY <1>2, <1>8, <2>1, <3>1
      <3>3. \A n \in HttpNetworks : kept'[n] = IF n = k THEN w ELSE kept[n]
        BY <2>1, <3>1
      <3> QED BY <2>1, <2>2, <3>1, <3>2, <3>3
    <2> QED BY <1>6, <2>3, <2>4
  <1>11. HttpTypeOK' /\ ticks' = ticks
    BY <1>2, <1>6, <1>9, <1>10 DEF HttpInv, HttpTypeOK, ReadEnds
  <1>12. \A p \in Slots : serving'[p] = IF p = q THEN s ELSE serving[p]
    BY <1>2, <1>6
  <1> QED BY <1>9, <1>10, <1>11, <1>12 DEF HttpInv

LEMMA HttpStays == HttpInv /\ UNCHANGED httpVars => HttpInv'
  BY DEF HttpInv, HttpTypeOK, httpVars, RequestOK

LEMMA HttpInvAlways == HttpSpec => []HttpInv
  <1>1. HttpInv /\ [HttpNext \/ HttpForgets]_httpVars => HttpInv'
    BY RequestComesOK, ReadEndsOK, HttpTickOK, HttpForgetsOK, HttpStays DEF HttpNext
  <1> QED BY HttpStarts, <1>1, PTL DEF HttpSpec

\* Every answer of the HTTP interface is told truly, is about the network that the selector
\* chose, is given unread when it is refused and is young when it was kept, for every scene.
THEOREM HttpHoldsAlways == HttpSpec => []HttpHolds
  <1>1. HttpInv => HttpHolds
    BY DEF HttpInv, HttpHolds, RequestOK
  <1> QED BY HttpInvAlways, <1>1, PTL
=============================================================================
