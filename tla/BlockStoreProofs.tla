-------------------------- MODULE BlockStoreProofs --------------------------
(* Type correctness, the lock, and the resume point of BlockStore, for      *)
(* every height of the chain, set of calls, and bound.                      *)
EXTENDS BlockStore, TLAPS, WellFoundedInduction

\* A set of heights that is not empty has a highest one, and Max is it: the
\* distances from n have a least element.
LEMMA MaxOf ==
    ASSUME NEW n \in Nat, NEW S \in SUBSET (1..n), S # {}
    PROVE  Max(S) \in S /\ \A h \in S : h <= Max(S)
<1> DEFINE T == {n - h : h \in S}
<1>1. T \subseteq Nat /\ T # {}
  <2>1. \A h \in S : n - h \in Nat
    OBVIOUS
  <2>2. PICK h \in S : TRUE
    OBVIOUS
  <2>3. n - h \in T
    OBVIOUS
  <2>4. QED
    BY <2>1, <2>3
<1>2. PICK x \in T : \A y \in T : ~(<<y, x>> \in OpToRel(<, Nat))
  BY <1>1, NatLessThanWellFounded, WFMin
<1>3. ASSUME NEW y \in T PROVE x <= y
  <2>1. x \in Nat /\ y \in Nat
    BY <1>1
  <2>2. y < x => <<y, x>> \in OpToRel(<, Nat)
    BY <2>1, Zenon DEF OpToRel
  <2>3. ~(y < x)
    BY <1>2, <2>2
  <2>4. QED
    BY <2>1, <2>3
<1>4. PICK m \in S : x = n - m
  OBVIOUS
<1>5. \A h \in S : n - m <= n - h
  BY <1>3, <1>4
<1>6. ASSUME NEW h \in S PROVE m >= h
  <2>1. m \in Nat /\ h \in Nat
    OBVIOUS
  <2>2. n - m <= n - h
    BY <1>5
  <2>3. QED
    BY <2>1, <2>2
<1>7. QED
  <2>1. \E k \in S : \A h \in S : k >= h
    BY <1>6
  <2>2. Max(S) \in S /\ \A h \in S : Max(S) >= h
    BY <2>1, Zenon DEF Max
  <2>3. \A k, h \in S : k >= h => h <= k
    OBVIOUS
  <2>4. QED
    BY <2>2, <2>3, Zenon

\* Max of two integers is one of them, and below neither.
LEMMA MaxOfTwo ==
    ASSUME NEW a \in Int, NEW b \in Int
    PROVE  Max({a, b}) \in {a, b} /\ Max({a, b}) >= a /\ Max({a, b}) >= b
<1>1. \E x \in {a, b} : \A y \in {a, b} : x >= y
  <2>1. CASE a >= b
    BY <2>1
  <2>2. CASE ~(a >= b)
    BY <2>2
  <2>3. QED
    BY <2>1, <2>2
<1>2. Max({a, b}) \in {a, b} /\ \A y \in {a, b} : Max({a, b}) >= y
  BY <1>1, Zenon DEF Max
<1>3. QED
  BY <1>2

-----------------------------------------------------------------------------
(* Types and the lock.                                                      *)

Steps == {"idle", "latest", "height", "window", "block"}
CallType == [pc : Steps, from : Nat, at : Nat, to : 0..MaxHeight, locked : BOOLEAN]

\* What a call holds at each of its steps: heights of blocks only, and the
\* lock from "height" to the end of a loop that began there.
Sound(r) ==
    /\ r \in CallType
    /\ r.pc = "height" => r.from >= 1 /\ r.locked
    /\ r.pc = "block" => r.at >= 1 /\ r.to <= tip
    /\ r.locked => r.pc \in {"height", "block"}

Typed ==
    /\ tip \in 0..MaxHeight /\ mode \in {"down", "up", "live"}
    /\ blocks \subseteq 1..tip /\ live \subseteq 1..tip
    /\ sync = [c \in Calls |-> sync[c]] /\ \A c \in Calls : Sound(sync[c])
    /\ isSyncing \in BOOLEAN
    /\ lost \subseteq 1..tip /\ unheard \subseteq 1..tip
    /\ faults \in 0..MaxFaults /\ restarts \in 0..MaxRestarts

\* The state of one call is replaced, the lock follows it, and no other
\* variable of Typed or LockHasHolder changes.
Replaces(c, r) == sync' = [sync EXCEPT ![c] = r]

LEMMA ReplaceKeeps ==
    ASSUME NEW c \in Calls, NEW r, Typed, LockHasHolder, Replaces(c, r),
           Sound(r), tip' = tip,
           \/ r.locked = sync[c].locked /\ isSyncing' = isSyncing
           \/ r.locked /\ ~isSyncing /\ isSyncing' = TRUE
           \/ ~r.locked /\ sync[c].locked /\ isSyncing' = FALSE
    PROVE  /\ sync' = [d \in Calls |-> sync'[d]]
           /\ \A d \in Calls : Sound(sync[d])'
           /\ LockHasHolder' /\ isSyncing' \in BOOLEAN
<1>1. sync = [d \in Calls |-> sync[d]]
  BY DEF Typed
<1>2. sync' = [d \in Calls |-> IF d = c THEN r ELSE sync[d]]
  BY <1>1 DEF Replaces
<1>3. sync'[c] = r /\ \A d \in Calls \ {c} : sync'[d] = sync[d]
  BY <1>2
<1>4. sync' = [d \in Calls |-> sync'[d]]
  BY <1>2
<1>5. ASSUME NEW d \in Calls PROVE Sound(sync[d])'
  BY <1>3 DEF Sound, Typed
<1>6. /\ \A d \in Calls : sync[d].locked \in BOOLEAN
      /\ r.locked \in BOOLEAN /\ isSyncing \in BOOLEAN
  BY DEF Typed, Sound, CallType
<1>7. isSyncing' \in BOOLEAN
  BY <1>6
<1>8. LockHasHolder'
  <2>1. CASE r.locked = sync[c].locked /\ isSyncing' = isSyncing
    <3>1. \A d \in Calls : sync'[d].locked = sync[d].locked
      BY <1>3, <2>1
    <3>2. QED
      BY <2>1, <3>1 DEF LockHasHolder
  <2>2. CASE r.locked /\ ~isSyncing /\ isSyncing' = TRUE
    <3>1. \A d \in Calls \ {c} : ~sync'[d].locked
      BY <1>3, <2>2 DEF LockHasHolder
    <3>2. QED
      BY <1>3, <2>2, <3>1 DEF LockHasHolder
  <2>3. CASE ~r.locked /\ sync[c].locked /\ isSyncing' = FALSE
    <3>1. \A d \in Calls : ~sync'[d].locked
      BY <1>3, <2>3 DEF LockHasHolder
    <3>2. QED
      BY <2>3, <3>1 DEF LockHasHolder
  <2>4. QED
    BY <2>1, <2>2, <2>3
<1>9. QED
  BY <1>4, <1>5, <1>7, <1>8

\* The highest of a set of heights, as Latest is that of the stored ones.
LatestOf(S) == IF S = {} THEN 0 ELSE Max(S)

LEMMA LatestBounds ==
    ASSUME NEW n \in Nat, NEW S \in SUBSET (1..n)
    PROVE  /\ LatestOf(S) \in 0..n /\ \A h \in S : h <= LatestOf(S)
           /\ LatestOf(S) >= 1 => LatestOf(S) \in S
<1>1. CASE S = {}
  BY <1>1 DEF LatestOf
<1>2. CASE S # {}
  <2>1. Max(S) \in S /\ \A h \in S : h <= Max(S)
    BY <1>2, MaxOf
  <2>2. LatestOf(S) = Max(S)
    BY <1>2 DEF LatestOf
  <2>3. \A m \in S : m \in 0..n
    OBVIOUS
  <2>4. QED
    BY <2>1, <2>2, <2>3
<1>3. QED
  BY <1>1, <1>2

LEMMA LatestIs ==
    ASSUME Typed
    PROVE  /\ Latest = LatestOf(blocks) /\ Latest \in 0..tip
           /\ \A h \in blocks : h <= Latest
           /\ Latest >= 1 => Latest \in blocks
<1>1. Latest = LatestOf(blocks)
  BY DEF Latest, LatestOf
<1>2. tip \in Nat /\ blocks \in SUBSET (1..tip)
  BY ConstantsAssumption DEF Typed
<1>3. QED
  BY <1>1, <1>2, LatestBounds

\* Each step of a sync replaces its call by a sound one, and the lock follows.
LockKept ==
    /\ sync' = [d \in Calls |-> sync'[d]]
    /\ \A d \in Calls : Sound(sync[d])'
    /\ LockHasHolder' /\ isSyncing' \in BOOLEAN

LEMMA NoCallSound == Typed => Sound(NoCall)
  BY ConstantsAssumption DEF NoCall, Call, Sound, CallType, Steps

LEMMA SyncFromHeightKeeps ==
    ASSUME NEW c \in Calls, NEW from \in Nat, from >= 1, Typed, LockHasHolder,
           sync[c].pc \in {"idle", "latest"}, tip' = tip, SyncFromHeight(c, from)
    PROVE  LockKept
<1>1. ~sync[c].locked /\ sync[c].locked = FALSE
  BY DEF Typed, Sound, CallType
<1>2. CASE isSyncing
  <2>1. Replaces(c, NoCall) /\ isSyncing' = isSyncing
    BY <1>2 DEF SyncFromHeight, Replaces
  <2>2. QED
    BY <1>1, <2>1, NoCallSound, ReplaceKeeps DEF LockKept, NoCall, Call
<1>3. CASE ~isSyncing
  <2> DEFINE r == Call("height", from, 0, 0, TRUE)
  <2>1. Replaces(c, r) /\ isSyncing' = TRUE
    BY <1>3 DEF SyncFromHeight, Replaces
  <2>2. r = [pc |-> "height", from |-> from, at |-> 0, to |-> 0, locked |-> TRUE]
    BY DEF Call
  <2> HIDE DEF r
  <2>4. Sound(r) /\ r.locked
    BY <2>2, ConstantsAssumption DEF Sound, CallType, Steps
  <2>3. QED
    BY <1>3, <2>1, <2>4, ReplaceKeeps DEF LockKept
<1>4. QED
  BY <1>2, <1>3

LEMMA BeginLoopKeeps ==
    ASSUME NEW c \in Calls, NEW from \in Nat, from >= 1, Typed, LockHasHolder,
           tip' = tip, isSyncing' = isSyncing, BeginLoop(c, from)
    PROVE  LockKept /\ lost' \subseteq 1..tip
<1> DEFINE r == Call("block", 0, from, tip, sync[c].locked)
<1>1. Replaces(c, r)
  BY DEF BeginLoop, Replaces
<1>s. sync[c] \in CallType /\ (sync[c].locked => sync[c].pc \in {"height", "block"})
  BY DEF Typed, Sound
<1>t. r = [pc |-> "block", from |-> 0, at |-> from, to |-> tip,
           locked |-> sync[c].locked]
  BY DEF Call
<1> HIDE DEF r
<1>u. sync[c].locked \in BOOLEAN /\ tip \in 0..MaxHeight
  BY <1>s DEF CallType, Typed
<1>2. Sound(r) /\ r.locked = sync[c].locked
  BY <1>t, <1>u, ConstantsAssumption DEF Sound, CallType, Steps
<1>3. LockKept
  BY <1>1, <1>2, ReplaceKeeps DEF LockKept
<1>4. Latest \in Nat
  BY LatestIs, ConstantsAssumption DEF Typed
<1>5. lost' \subseteq 1..tip
  BY <1>4, ConstantsAssumption DEF BeginLoop, Typed
<1>6. QED
  BY <1>3, <1>5

LEMMA SyncStepKeeps ==
    ASSUME NEW c \in Calls, Typed, LockHasHolder, SyncStep(c)
    PROVE  /\ LockKept /\ tip' = tip /\ mode' = mode /\ live' = live
           /\ unheard' = unheard /\ restarts' = restarts
           /\ blocks' \subseteq 1..tip /\ lost' \subseteq 1..tip
           /\ faults' \in 0..MaxFaults
<1> USE ConstantsAssumption DEF calls, hist
<1>r. Sound(sync[c]) /\ sync[c] \in CallType /\ isSyncing \in BOOLEAN
  BY DEF Typed, Sound
<1>f. \A n \in Nat : Costs(n) => faults' \in 0..MaxFaults
  BY DEF Costs, Typed
<1>b. blocks \subseteq 1..tip /\ lost \subseteq 1..tip /\ faults \in 0..MaxFaults
  BY DEF Typed
<1>n. Sound(NoCall) /\ NoCall.locked = FALSE
  BY NoCallSound DEF NoCall, Call
<1>1. CASE ReadLatest(c)
  <2>1. /\ tip' = tip /\ mode' = mode /\ live' = live /\ restarts' = restarts
        /\ unheard' = unheard /\ lost' = lost /\ blocks' = blocks
        /\ sync[c].pc = "latest"
    BY <1>1 DEF ReadLatest
  <2>2. CASE SyncFromHeight(c, Latest + 1) /\ UNCHANGED faults
    <3>1. Latest + 1 \in Nat /\ Latest + 1 >= 1
      BY LatestIs DEF Typed
    <3>2. LockKept
      BY <2>1, <2>2, <3>1, SyncFromHeightKeeps
    <3>3. QED
      BY <1>b, <2>1, <2>2, <3>2
  <2>3. CASE /\ Costs(IF blocks = {} THEN 0 ELSE 1)
             /\ sync' = [sync EXCEPT ![c].pc = "window"] /\ UNCHANGED isSyncing
    <3> DEFINE r == [sync[c] EXCEPT !.pc = "window"]
    <3>1. Replaces(c, r)
      BY <2>3 DEF Replaces
    <3>2. Sound(r) /\ r.locked = sync[c].locked
      BY <1>r, <2>1 DEF Sound, CallType, Steps
    <3> HIDE DEF r
    <3>3. LockKept
      BY <2>1, <2>3, <3>1, <3>2, ReplaceKeeps DEF LockKept
    <3>4. QED
      BY <1>b, <1>f, <2>1, <2>3, <3>3
  <2>4. QED
    BY <1>1, <2>2, <2>3 DEF ReadLatest
<1>2. CASE ReadHeight(c)
  <2>1. /\ tip' = tip /\ mode' = mode /\ live' = live /\ restarts' = restarts
        /\ unheard' = unheard /\ blocks' = blocks /\ sync[c].pc = "height"
    BY <1>2 DEF ReadHeight
  <2>2. CASE BeginLoop(c, sync[c].from) /\ UNCHANGED <<isSyncing, faults>>
    <3>1. sync[c].from \in Nat /\ sync[c].from >= 1
      BY <1>r, <2>1 DEF Sound, CallType
    <3>2. LockKept /\ lost' \subseteq 1..tip
      BY <2>1, <2>2, <3>1, BeginLoopKeeps
    <3>3. QED
      BY <1>b, <2>1, <2>2, <3>2
  <2>3. CASE /\ Costs(1) /\ isSyncing' = FALSE
             /\ sync' = [sync EXCEPT ![c] = Call("window", 0, 0, 0, FALSE)]
             /\ UNCHANGED lost
    <3> DEFINE r == Call("window", 0, 0, 0, FALSE)
    <3>1. Replaces(c, r)
      BY <2>3 DEF Replaces
    <3>a. r = [pc |-> "window", from |-> 0, at |-> 0, to |-> 0, locked |-> FALSE]
      BY DEF Call
    <3> HIDE DEF r
    <3>2. Sound(r) /\ ~r.locked
      BY <3>a DEF Sound, CallType, Steps
    <3>3. sync[c].locked
      BY <1>r, <2>1 DEF Sound
    <3>4. LockKept
      BY <2>1, <2>3, <3>1, <3>2, <3>3, ReplaceKeeps DEF LockKept
    <3>5. QED
      BY <1>b, <1>f, <2>1, <2>3, <3>4
  <2>4. QED
    BY <1>2, <2>2, <2>3 DEF ReadHeight
<1>3. CASE ReadWindow(c)
  <2>1. /\ tip' = tip /\ mode' = mode /\ live' = live /\ restarts' = restarts
        /\ unheard' = unheard /\ blocks' = blocks /\ sync[c].pc = "window"
        /\ isSyncing' = isSyncing
    BY <1>3 DEF ReadWindow
  <2>2. CASE BeginLoop(c, Max({1, tip - BlockCount + 1})) /\ UNCHANGED faults
    <3> DEFINE w == Max({1, tip - BlockCount + 1})
    <3>1. w \in Nat /\ w >= 1
      <4>1. tip - BlockCount + 1 \in Int /\ 1 \in Int
        BY DEF Typed
      <4>2. w \in {1, tip - BlockCount + 1} /\ w >= 1
        BY <4>1, MaxOfTwo, Zenon
      <4>3. QED
        BY <4>1, <4>2
    <3> HIDE DEF w
    <3>2. BeginLoop(c, w)
      BY <2>2 DEF w
    <3>3. LockKept /\ lost' \subseteq 1..tip
      BY <2>1, <3>1, <3>2, BeginLoopKeeps
    <3>4. QED
      BY <1>b, <2>1, <2>2, <3>3
  <2>3. CASE Costs(1) /\ sync' = [sync EXCEPT ![c] = NoCall] /\ UNCHANGED lost
    <3>1. Replaces(c, NoCall)
      BY <2>3 DEF Replaces
    <3>2. sync[c].locked = FALSE
      BY <1>r, <2>1 DEF Sound, CallType
    <3>3. LockKept
      BY <1>n, <2>1, <3>1, <3>2, ReplaceKeeps DEF LockKept
    <3>4. QED
      BY <1>b, <1>f, <2>1, <2>3, <3>3
  <2>4. QED
    BY <1>3, <2>2, <2>3 DEF ReadWindow
<1>4. ASSUME InLoop(c), NextHeight(c), tip' = tip, isSyncing' = isSyncing
      PROVE  LockKept
  <2> DEFINE r == [sync[c] EXCEPT !.at = @ + 1]
  <2>1. Replaces(c, r)
    BY <1>4 DEF Replaces, NextHeight
  <2>2. Sound(r) /\ r.locked = sync[c].locked
    BY <1>4, <1>r DEF Sound, CallType, InLoop
  <2> HIDE DEF r
  <2>3. QED
    BY <1>4, <2>1, <2>2, ReplaceKeeps DEF LockKept
<1>5. ASSUME InLoop(c) PROVE sync[c].at \in 1..tip
  BY <1>5, <1>r DEF Sound, CallType, InLoop, Typed
<1>6. CASE SyncBlock(c)
  <2>1. LockKept
    BY <1>4, <1>6 DEF SyncBlock
  <2>2. QED
    BY <1>5, <1>6, <1>b, <2>1 DEF SyncBlock
<1>7. CASE GiveUpBlock(c)
  <2>1. LockKept
    BY <1>4, <1>7 DEF GiveUpBlock
  <2>2. QED
    BY <1>5, <1>7, <1>b, <1>f, <2>1 DEF GiveUpBlock
<1>8. CASE SyncDone(c)
  <2>1. Replaces(c, NoCall) /\ tip' = tip
    BY <1>8 DEF SyncDone, Replaces
  <2>2. isSyncing' = (isSyncing /\ ~sync[c].locked) /\ sync[c].locked \in BOOLEAN
    BY <1>8, <1>r DEF SyncDone, CallType
  <2>3. LockKept
    <3>1. CASE sync[c].locked
      BY <1>n, <2>1, <2>2, <3>1, ReplaceKeeps DEF LockKept
    <3>2. CASE ~sync[c].locked
      BY <1>n, <1>r, <2>1, <2>2, <3>2, ReplaceKeeps DEF LockKept
    <3>3. QED
      BY <3>1, <3>2
  <2>4. QED
    BY <1>8, <1>b, <2>3 DEF SyncDone
<1>9. QED
  BY <1>1, <1>2, <1>3, <1>6, <1>7, <1>8 DEF SyncStep

\* Heights in somebody's hands are heights of blocks.
RestOf(r) == IF r.pc = "block" THEN {h \in Heights : h \in r.at..r.to} ELSE {}

LEMMA HandledIs ==
    ASSUME Typed
    PROVE  /\ \A h : h \in Handled <=> h \in live \/ \E c \in Calls : h \in RestOf(sync[c])
           /\ \A h \in Handled : h \in 1..tip
<1>1. \A c \in Calls : Rest(c) = RestOf(sync[c])
  BY DEF Rest, RestOf
<1>2. \A h : h \in Handled <=> h \in live \/ \E c \in Calls : h \in RestOf(sync[c])
  BY <1>1 DEF Handled
<1>3. ASSUME NEW c \in Calls, NEW h \in RestOf(sync[c]) PROVE h \in 1..tip
  <2>1. Sound(sync[c]) /\ tip \in Nat
    BY ConstantsAssumption DEF Typed
  <2>2. sync[c].pc = "block" /\ h \in Heights /\ h \in sync[c].at..sync[c].to
    BY <1>3 DEF RestOf
  <2>3. QED
    BY <2>1, <2>2, ConstantsAssumption DEF Sound, CallType, Heights
<1>4. QED
  BY <1>2, <1>3 DEF Typed

\* A process that is down has no call.
Resting == mode = "down" => \A c \in Calls : sync[c].pc = "idle"

Safe == Typed /\ LockHasHolder /\ Resting

LEMMA InitSafe == Init => Safe
<1> SUFFICES ASSUME Init PROVE Safe
  OBVIOUS
<1>1. sync = [c \in Calls |-> NoCall] /\ tip = 0 /\ 0 \in 0..MaxHeight
  BY ConstantsAssumption DEF Init
<1>2. \A c \in Calls : sync[c] = NoCall /\ NoCall.locked = FALSE
  BY <1>1 DEF NoCall, Call
<1>3. Sound(NoCall)
  BY <1>1, ConstantsAssumption DEF NoCall, Call, Sound, CallType, Steps
<1>a. \A c \in Calls : Sound(sync[c]) /\ sync[c].pc = "idle"
  BY <1>2, <1>3 DEF NoCall, Call
<1>c. sync = [c \in Calls |-> sync[c]]
  BY <1>1
<1>4. Typed
  <2>1. blocks = {} /\ live = {} /\ lost = {} /\ unheard = {} /\ mode = "down"
    BY DEF Init
  <2>2. isSyncing = FALSE /\ faults = 0 /\ restarts = 0
    BY DEF Init
  <2>3. 0 \in 0..MaxFaults /\ 0 \in 0..MaxRestarts
    BY ConstantsAssumption
  <2>4. QED
    BY <1>1, <1>a, <1>c, <2>1, <2>2, <2>3 DEF Typed
<1>5. LockHasHolder /\ Resting
  BY <1>2, <1>a DEF Init, LockHasHolder, Resting
<1>6. QED
  BY <1>4, <1>5 DEF Safe

LEMMA NextSafe == Safe /\ [Next]_vars => Safe'
<1> SUFFICES ASSUME Safe, [Next]_vars PROVE Safe'
  OBVIOUS
<1> USE ConstantsAssumption DEF calls, hist
<1>t. Typed /\ LockHasHolder /\ Resting
  BY DEF Safe
\* Steps that leave the calls alone
<1>u. ASSUME sync' = sync, isSyncing' = isSyncing, tip' \in 0..MaxHeight, tip <= tip'
      PROVE  LockKept
  <2>1. ASSUME NEW c \in Calls PROVE Sound(sync[c])'
    <3>1. Sound(sync[c]) /\ sync'[c] = sync[c]
      BY <1>t, <1>u DEF Typed
    <3>2. tip \in Nat
      BY <1>t DEF Typed
    <3>3. sync[c].pc = "block" => sync[c].to <= tip'
      BY <1>u, <3>1, <3>2 DEF Sound, CallType
    <3>4. QED
      BY <3>1, <3>3 DEF Sound
  <2>2. QED
    BY <1>t, <1>u, <2>1 DEF Typed, LockHasHolder, LockKept
<1>q. ASSUME LockKept,
             tip' \in 0..MaxHeight, mode' \in {"down", "up", "live"},
             blocks' \subseteq 1..tip', live' \subseteq 1..tip',
             lost' \subseteq 1..tip', unheard' \subseteq 1..tip',
             faults' \in 0..MaxFaults, restarts' \in 0..MaxRestarts,
             mode' = "down" => \A c \in Calls : sync'[c].pc = "idle"
      PROVE  Safe'
  BY <1>q DEF Safe, Typed, LockKept, Resting
<1>f. \A n \in Nat : Costs(n) => faults' \in 0..MaxFaults
  BY <1>t DEF Costs, Typed
<1>b. /\ tip \in 0..MaxHeight /\ mode \in {"down", "up", "live"} /\ tip \in Nat
      /\ blocks \subseteq 1..tip /\ live \subseteq 1..tip
      /\ lost \subseteq 1..tip /\ unheard \subseteq 1..tip
      /\ faults \in 0..MaxFaults /\ restarts \in 0..MaxRestarts
  BY <1>t DEF Typed
<1>d. mode = "down" => \A c \in Calls : sync[c].pc = "idle"
  BY <1>t DEF Resting
<1>1. CASE Commit
  <2>1. tip' = tip + 1 /\ tip' \in 0..MaxHeight /\ sync' = sync /\ isSyncing' = isSyncing
    BY <1>1, <1>b DEF Commit
  <2>2. LockKept
    BY <1>b, <1>u, <2>1
  <2>3. 1..tip \subseteq 1..tip' /\ tip' \in 1..tip'
    BY <1>b, <2>1
  <2>4. QED
    BY <1>1, <1>b, <1>d, <1>q, <2>1, <2>2, <2>3 DEF Commit
<1>2. CASE Subscribe
  BY <1>2, <1>b, <1>d, <1>q, <1>u DEF Subscribe
<1>3. CASE SocketCloses
  BY <1>3, <1>b, <1>d, <1>f, <1>q, <1>u DEF SocketCloses
<1>4. ASSUME NEW h \in Heights, SaveLiveBlock(h) PROVE Safe'
  <2>1. h \in 1..tip
    BY <1>4, <1>b DEF SaveLiveBlock
  <2>2. LockKept /\ tip' = tip /\ mode' = mode /\ sync' = sync
    BY <1>4, <1>b, <1>u DEF SaveLiveBlock
  <2>3. /\ blocks' \subseteq 1..tip /\ live' \subseteq 1..tip
        /\ lost' \subseteq 1..tip /\ unheard' = unheard
        /\ faults' = faults /\ restarts' = restarts
    BY <1>4, <1>b, <2>1 DEF SaveLiveBlock, SaveBlock
  <2>4. QED
    BY <1>b, <1>d, <1>q, <2>2, <2>3
<1>5. ASSUME NEW h \in Heights, LiveBlockFails(h) PROVE Safe'
  <2>1. h \in 1..tip
    BY <1>5, <1>b DEF LiveBlockFails
  <2>2. LockKept /\ tip' = tip /\ mode' = mode /\ sync' = sync
    BY <1>5, <1>b, <1>u DEF LiveBlockFails
  <2>3. /\ blocks' = blocks /\ live' \subseteq 1..tip
        /\ lost' \subseteq 1..tip /\ unheard' = unheard
        /\ faults' \in 0..MaxFaults /\ restarts' = restarts
    BY <1>5, <1>b, <1>f, <2>1 DEF LiveBlockFails
  <2>4. QED
    BY <1>b, <1>d, <1>q, <2>2, <2>3
<1>6. CASE StartProcess
  <2> DEFINE r == [sync[Boot] EXCEPT !.pc = "latest"]
  <2>1. Replaces(Boot, r) /\ tip' = tip /\ isSyncing' = isSyncing /\ sync[Boot].pc = "idle"
    BY <1>6, <1>d DEF StartProcess, Replaces
  <2>2. Sound(sync[Boot])
    BY <1>t DEF Typed
  <2>3. Sound(r) /\ r.locked = sync[Boot].locked
    BY <2>1, <2>2 DEF Sound, CallType, Steps
  <2> HIDE DEF r
  <2>4. LockKept
    BY <1>t, <2>1, <2>3, ReplaceKeeps DEF LockKept
  <2>5. QED
    BY <1>6, <1>b, <1>q, <2>4 DEF StartProcess
<1>7. CASE Crash
  <2>1. sync' = [c \in Calls |-> NoCall] /\ tip' = tip /\ isSyncing' = FALSE
    BY <1>7 DEF Crash
  <2>2. \A c \in Calls : sync'[c] = NoCall /\ NoCall.locked = FALSE
    BY <2>1 DEF NoCall, Call
  <2>3. \A c \in Calls : Sound(sync[c])'
    BY <2>1, <2>2, <1>b DEF NoCall, Call, Sound, CallType, Steps
  <2>4. LockKept
    BY <2>1, <2>2, <2>3 DEF LockKept, LockHasHolder
  <2>5. \A h \in Handled : h \in 1..tip
    BY <1>t, HandledIs DEF Safe
  <2>6. QED
    <3>1. /\ blocks' = blocks /\ live' = {} /\ mode' = "down"
          /\ lost' \subseteq 1..tip /\ unheard' \subseteq 1..tip
          /\ faults' = faults /\ restarts' \in 0..MaxRestarts
      <4>1. lost' \subseteq 1..tip /\ unheard' \subseteq 1..tip
        BY <1>7, <1>b, <2>5 DEF Crash
      <4>2. restarts' \in 0..MaxRestarts
        BY <1>7, <1>b DEF Crash
      <4>3. QED
        BY <1>7, <4>1, <4>2 DEF Crash
    <3>2. \A c \in Calls : sync'[c].pc = "idle"
      BY <2>2 DEF NoCall, Call
    <3>3. QED
      BY <1>b, <1>q, <2>1, <2>4, <3>1, <3>2
<1>8. ASSUME NEW c \in Calls, NEW from \in FromHeights, Request(c, from) PROVE Safe'
  <2>1. /\ tip' = tip /\ mode' = mode /\ blocks' = blocks /\ live' = live
        /\ lost' = lost /\ unheard' = unheard /\ faults' = faults
        /\ restarts' = restarts /\ sync[c].pc = "idle" /\ from \in Nat
        /\ mode # "down"
    BY <1>8 DEF Request
  <2>2. CASE from = 0
    <3> DEFINE r == [sync[c] EXCEPT !.pc = "latest"]
    <3>1. Replaces(c, r) /\ isSyncing' = isSyncing
      BY <1>8, <2>2 DEF Request, Replaces
    <3>2. Sound(sync[c])
      BY <1>t DEF Typed
    <3>3. Sound(r) /\ r.locked = sync[c].locked
      BY <2>1, <3>2 DEF Sound, CallType, Steps
    <3> HIDE DEF r
    <3>4. LockKept
      BY <1>t, <2>1, <3>1, <3>3, ReplaceKeeps DEF LockKept
    <3>5. QED
      BY <1>b, <1>q, <2>1, <3>4
  <2>3. CASE from # 0
    <3>1. SyncFromHeight(c, from) /\ from >= 1
      BY <1>8, <2>1, <2>3 DEF Request
    <3>2. LockKept
      BY <1>t, <2>1, <3>1, SyncFromHeightKeeps
    <3>3. QED
      BY <1>b, <1>q, <2>1, <3>2
  <2>4. QED
    BY <2>2, <2>3
<1>9. ASSUME NEW c \in Calls, SyncStep(c) PROVE Safe'
  <2>1. LockKept /\ tip' = tip /\ mode' = mode /\ live' = live
        /\ unheard' = unheard /\ restarts' = restarts
        /\ blocks' \subseteq 1..tip /\ lost' \subseteq 1..tip
        /\ faults' \in 0..MaxFaults
    BY <1>9, <1>t, SyncStepKeeps
  <2>2. sync[c].pc # "idle"
    BY <1>9 DEF SyncStep, ReadLatest, ReadHeight, ReadWindow, SyncBlock,
                GiveUpBlock, SyncDone, InLoop
  <2>3. QED
    BY <1>b, <1>d, <1>q, <2>1, <2>2
<1>10. CASE UNCHANGED vars
  BY <1>10, <1>b, <1>d, <1>q, <1>u DEF vars
<1>11. ASSUME NEW h \in Heights, SaveAskedBlock(h) PROVE Safe'
  <2>1. h \in 1..tip
    BY <1>11, <1>b DEF SaveAskedBlock, Heights
  <2>2. LockKept /\ tip' = tip /\ mode' = mode /\ sync' = sync
    BY <1>11, <1>b, <1>u DEF SaveAskedBlock
  <2>3. /\ blocks' \subseteq 1..tip /\ live' = live
        /\ lost' \subseteq 1..tip /\ unheard' = unheard
        /\ faults' = faults /\ restarts' = restarts
    BY <1>11, <1>b, <2>1 DEF SaveAskedBlock, SaveBlock
  <2>4. QED
    BY <1>b, <1>d, <1>q, <2>2, <2>3
<1>12. QED
  BY <1>1, <1>2, <1>3, <1>4, <1>5, <1>6, <1>7, <1>8, <1>9, <1>10, <1>11 DEF Next

\* Every variable keeps its type: no sync ever touches a height below the
\* first block or above the tip, whatever window or fromHeight it was given.
THEOREM TypeCorrect == Spec => []TypeOK
<1>1. Safe => TypeOK
  BY DEF Safe, Typed, TypeOK, Sound, CallType, Steps
<1>2. QED
  BY <1>1, InitSafe, NextSafe, PTL DEF Spec

\* isSyncing always has exactly one holder or is free, for any number of
\* concurrent requests, errors and fallbacks.
THEOREM LockHasHolderHolds == Spec => []LockHasHolder
<1>1. Safe => LockHasHolder
  BY DEF Safe
<1>2. QED
  BY <1>1, InitSafe, NextSafe, PTL DEF Spec

-----------------------------------------------------------------------------
(* The resume point.                                                        *)

\* Heights that are stored, given up or stood for.
Acc == blocks \cup Handled \cup lost
Known == \A h \in 1..tip : h \in Acc \cup unheard
\* A loop that is not through has nothing missing below the height it is at:
\* when it stores that height, everything below the new Latest is accounted for.
Passed(r) == r.pc = "block" /\ r.at <= r.to
                => \A h \in 1..tip : h < r.at => h \in Acc
Inv == Safe /\ Known /\ NoSilentGap /\ \A c \in Calls : Passed(sync[c])

LedgerStep ==
    /\ blocks \cup lost \subseteq blocks' \cup lost'
    /\ \A h \in Handled : h <= Latest' => h \in Acc'

LEMMA HandledAre ==
    /\ \A h : h \in Handled <=> h \in live \/ \E c \in Calls : h \in RestOf(sync[c])
    /\ \A h : h \in Handled' <=> h \in live' \/ \E c \in Calls : h \in RestOf(sync'[c])
<1>1. \A c \in Calls : Rest(c) = RestOf(sync[c]) /\ Rest(c)' = RestOf(sync'[c])
  BY DEF Rest, RestOf, Heights
<1>2. QED
  BY <1>1 DEF Handled

LEMMA NoCallRests == RestOf(NoCall) = {}
  BY DEF NoCall, Call, RestOf

LEMMA LatestNext ==
    ASSUME Typed'
    PROVE  tip' \in Nat /\ Latest' \in 0..tip'
<1>1. Latest' = LatestOf(blocks')
  BY DEF Latest, LatestOf
<1>2. tip' \in Nat /\ blocks' \in SUBSET (1..tip')
  BY ConstantsAssumption DEF Typed
<1>3. QED
  BY <1>1, <1>2, LatestBounds

\* A stored height raises Latest to itself, or not at all.
LEMMA LatestAfter ==
    ASSUME Typed, Typed', tip' = tip, NEW h \in 1..tip, blocks' = blocks \cup {h}
    PROVE  Latest' <= Latest \/ Latest' = h
<1>1. Latest' = LatestOf(blocks')
  BY DEF Latest, LatestOf
<1>2. tip \in Nat /\ blocks' \in SUBSET (1..tip) /\ h \in blocks'
  BY ConstantsAssumption DEF Typed
<1>3. /\ LatestOf(blocks') \in 0..tip
      /\ LatestOf(blocks') >= 1 => LatestOf(blocks') \in blocks'
  BY <1>2, LatestBounds
<1>4. Latest \in 0..tip /\ \A k \in blocks : k <= Latest
  BY LatestIs
<1>5. QED
  BY <1>1, <1>2, <1>3, <1>4

LEMMA InitInv == Init => Inv
<1> SUFFICES ASSUME Init PROVE Inv
  OBVIOUS
<1>1. Safe
  BY InitSafe
<1>2. tip = 0 /\ 1..tip = {} /\ \A c \in Calls : sync[c].pc = "idle"
  BY DEF Init, NoCall, Call
<1>3. QED
  BY <1>1, <1>2 DEF Inv, Known, NoSilentGap, Passed

LEMMA NextInv == Inv /\ [Next]_vars => Inv' /\ LedgerStep
<1> SUFFICES ASSUME Inv, [Next]_vars PROVE Inv' /\ LedgerStep
  OBVIOUS
<1> USE ConstantsAssumption DEF calls, hist
<1>s. Safe /\ Safe' /\ Typed /\ Typed'
  BY NextSafe DEF Inv, Safe
<1>g. \A h \in 1..tip : h <= Latest => h \in Acc
  BY <1>s, LatestIs DEF Inv, NoSilentGap, Acc
<1>k. \A h \in 1..tip : h \in Acc \cup unheard
  BY DEF Inv, Known
<1>p. \A c \in Calls : Passed(sync[c])
  BY DEF Inv
<1>l. Latest \in 0..tip /\ tip \in Nat /\ (blocks' = blocks => Latest' = Latest)
  BY <1>s, LatestIs DEF Typed, Latest
\* What is left to show of a step without a new block or a crash
<1>q. ASSUME tip' = tip, unheard' = unheard, Acc \subseteq Acc',
             blocks \subseteq blocks', lost \subseteq lost',
             \A h \in 1..tip : h <= Latest' => h \in Acc',
             \A c \in Calls : Passed(sync[c])'
      PROVE  Inv' /\ LedgerStep
  <2>1. Known'
    BY <1>k, <1>q DEF Known
  <2>2. NoSilentGap'
    <3>1. Latest' \in Nat
      BY <1>s, LatestNext
    <3>2. \A h \in 1..tip' : h \in Acc' \/ h > Latest'
      BY <1>l, <1>q, <3>1
    <3>3. QED
      BY <3>2 DEF NoSilentGap, Acc
  <2>3. LedgerStep
    BY <1>q DEF LedgerStep, Acc
  <2>4. QED
    BY <1>q, <1>s, <2>1, <2>2, <2>3 DEF Inv
<1>c. ASSUME sync' = sync, tip' = tip, Acc \subseteq Acc'
      PROVE  \A c \in Calls : Passed(sync[c])'
  BY <1>c, <1>p DEF Passed
<1>r. ASSUME NEW c \in Calls, NEW r, Replaces(c, r), tip' = tip, Acc \subseteq Acc',
             r.pc = "block" /\ r.at <= r.to
               => \A h \in 1..tip : h < r.at => h \in Acc'
      PROVE  \A d \in Calls : Passed(sync[d])'
  <2>1. sync'[c] = r /\ \A d \in Calls \ {c} : sync'[d] = sync[d]
    BY <1>r, <1>s DEF Replaces, Typed
  <2>2. QED
    BY <1>r, <1>p, <2>1 DEF Passed
\* A call that held no heights is replaced.
<1>h. ASSUME NEW c \in Calls, NEW r, Replaces(c, r), RestOf(sync[c]) = {},
             live' = live, blocks \subseteq blocks', lost \subseteq lost'
      PROVE  Acc \subseteq Acc'
  <2>1. sync'[c] = r /\ \A d \in Calls \ {c} : sync'[d] = sync[d]
    BY <1>h, <1>s DEF Replaces, Typed
  <2>2. Handled \subseteq Handled'
    BY <1>h, <2>1, HandledAre
  <2>3. QED
    BY <1>h, <2>2 DEF Acc
<1>w. ASSUME NEW c \in Calls, NEW r, Replaces(c, r), sync[c].pc # "block",
             r.pc # "block", tip' = tip, live' = live, blocks' = blocks,
             lost' = lost, unheard' = unheard
      PROVE  Inv' /\ LedgerStep
  <2>1. RestOf(sync[c]) = {}
    BY <1>w DEF RestOf
  <2>2. Acc \subseteq Acc'
    BY <1>h, <1>w, <2>1
  <2>3. \A d \in Calls : Passed(sync[d])'
    BY <1>r, <1>w, <2>2
  <2>4. QED
    BY <1>g, <1>l, <1>q, <1>w, <2>2, <2>3
<1>o. ASSUME NEW c \in Calls, NEW from \in Nat, from >= 1, SyncFromHeight(c, from),
             sync[c].pc # "block", tip' = tip, live' = live, blocks' = blocks,
             lost' = lost, unheard' = unheard
      PROVE  Inv' /\ LedgerStep
  <2>1. CASE isSyncing
    <3>1. Replaces(c, NoCall) /\ NoCall.pc # "block"
      BY <1>o, <2>1 DEF SyncFromHeight, Replaces, NoCall, Call
    <3>2. QED
      BY <1>o, <1>w, <3>1
  <2>2. CASE ~isSyncing
    <3> DEFINE r == Call("height", from, 0, 0, TRUE)
    <3>1. Replaces(c, r) /\ r.pc # "block"
      BY <1>o, <2>2 DEF SyncFromHeight, Replaces, Call
    <3> HIDE DEF r
    <3>2. QED
      BY <1>o, <1>w, <3>1
  <2>3. QED
    BY <2>1, <2>2
<1>n. ASSUME NEW c \in Calls, NEW from \in Nat, from >= 1, BeginLoop(c, from),
             sync[c].pc # "block", tip' = tip, live' = live, blocks' = blocks,
             unheard' = unheard
      PROVE  Inv' /\ LedgerStep
  <2> DEFINE r == Call("block", 0, from, tip, sync[c].locked)
  <2>1. Replaces(c, r) /\ r.at = from
    BY <1>n DEF BeginLoop, Replaces, Call
  <2> HIDE DEF r
  <2>2. RestOf(sync[c]) = {} /\ lost \subseteq lost'
    BY <1>n DEF RestOf, BeginLoop
  <2>3. Acc \subseteq Acc'
    BY <1>h, <1>n, <2>1, <2>2
  <2>4. ASSUME NEW h \in 1..tip, h < from PROVE h \in Acc'
    <3>1. CASE h <= Latest
      BY <1>g, <2>3, <3>1
    <3>2. CASE ~(h <= Latest)
      <4>1. h \in Latest + 1..from - 1 /\ h <= tip
        BY <1>l, <2>4, <3>2
      <4>2. QED
        BY <1>n, <4>1 DEF BeginLoop, Acc
    <3>3. QED
      BY <3>1, <3>2
  <2>5. \A d \in Calls : Passed(sync[d])'
    BY <1>r, <1>n, <2>1, <2>3, <2>4
  <2>6. QED
    BY <1>g, <1>l, <1>n, <1>q, <2>2, <2>3, <2>5
\* The height a loop is at is stored or given up, and the loop goes on.
<1>m. ASSUME NEW c \in Calls, InLoop(c), NextHeight(c), sync[c].at \in blocks' \cup lost',
             blocks \subseteq blocks', lost \subseteq lost', live' = live,
             tip' = tip, unheard' = unheard,
             Latest' <= Latest \/ Latest' = sync[c].at
      PROVE  Inv' /\ LedgerStep
  <2> DEFINE a == sync[c].at
             r == [sync[c] EXCEPT !.at = @ + 1]
  <2>0. Sound(sync[c]) /\ a \in Nat /\ a >= 1 /\ a <= tip
    BY <1>m, <1>s, <1>l DEF Typed, Sound, CallType, InLoop
  <2>1. Replaces(c, r) /\ r.at = a + 1 /\ r.to = sync[c].to /\ r.pc = "block"
    BY <1>m, <2>0 DEF NextHeight, Replaces, Sound, CallType, InLoop
  <2> HIDE DEF r
  <2>2. sync'[c] = r /\ \A d \in Calls \ {c} : sync'[d] = sync[d]
    BY <1>s, <2>1 DEF Replaces, Typed
  <2>3. \A h \in RestOf(sync[c]) : h = a \/ h \in RestOf(r)
    BY <2>0, <2>1, <1>m DEF RestOf, Sound, CallType, Heights, InLoop
  <2>4. \A h \in Handled : h = a \/ h \in Handled'
    BY <1>m, <2>2, <2>3, HandledAre
  <2>5. Acc \subseteq Acc' /\ a \in Acc'
    BY <1>m, <2>4 DEF Acc
  <2>6. \A h \in 1..tip : h < a => h \in Acc
    BY <1>m, <1>p DEF Passed, InLoop
  <2>7. \A h \in 1..tip : h < r.at => h \in Acc'
    BY <2>0, <2>1, <2>5, <2>6
  <2>8. \A d \in Calls : Passed(sync[d])'
    BY <1>m, <1>r, <2>1, <2>5, <2>7
  <2>9. \A h \in 1..tip : h <= Latest' => h \in Acc'
    <3> SUFFICES ASSUME NEW h \in 1..tip, h <= Latest' PROVE h \in Acc'
      OBVIOUS
    <3>1. CASE h <= Latest
      BY <1>g, <2>5, <3>1
    <3>2. CASE ~(h <= Latest)
      <4>1. Latest' \in Nat
        BY <1>s, LatestNext
      <4>2. h <= a
        BY <1>l, <1>m, <3>2, <4>1
      <4>3. QED
        BY <2>0, <2>5, <2>6, <4>2
    <3>3. QED
      BY <3>1, <3>2
  <2>10. QED
    BY <1>m, <1>q, <2>5, <2>8, <2>9
<1>1. CASE Commit
  <2>1. /\ tip' = tip + 1 /\ blocks' = blocks /\ lost' = lost /\ sync' = sync
        /\ live \subseteq live' /\ unheard \subseteq unheard'
        /\ tip' \in live' \cup unheard'
    BY <1>1 DEF Commit
  <2>2. Acc \subseteq Acc' /\ (tip' \in live' => tip' \in Acc')
    BY <2>1, HandledAre DEF Acc
  <2>3. \A h \in 1..tip' : h \in 1..tip \/ h = tip'
    BY <1>l, <2>1
  <2>4. Known'
    BY <1>k, <2>1, <2>2, <2>3 DEF Known
  <2>5. NoSilentGap'
    BY <1>g, <1>l, <2>1, <2>2, <2>3 DEF NoSilentGap, Acc
  <2>6. ASSUME NEW c \in Calls PROVE Passed(sync[c])'
    <3>1. Sound(sync[c]) /\ Passed(sync[c])
      BY <1>s, <1>p DEF Typed
    <3>2. sync[c].pc = "block" /\ sync[c].at <= sync[c].to => sync[c].at <= tip
      BY <1>l, <3>1 DEF Sound, CallType
    <3>3. QED
      BY <1>l, <2>1, <2>2, <2>3, <3>1, <3>2 DEF Passed, Sound, CallType
  <2>7. LedgerStep
    BY <2>1, <2>2 DEF LedgerStep, Acc
  <2>8. QED
    BY <1>s, <2>4, <2>5, <2>6, <2>7 DEF Inv
<1>2. ASSUME Subscribe \/ SocketCloses \/ UNCHANGED vars PROVE Inv' /\ LedgerStep
  <2>1. UNCHANGED <<tip, blocks, live, sync, lost, unheard>>
    BY <1>2 DEF Subscribe, SocketCloses, vars
  <2>2. Acc \subseteq Acc'
    BY <2>1, HandledAre DEF Acc
  <2>3. QED
    BY <1>c, <1>g, <1>l, <1>q, <2>1, <2>2
\* A height is stored: what was below it is stored, stood for, or lost now.
<1>v. ASSUME NEW h \in 1..tip, SaveBlock(h), live' \cup {h} = live \/ live' = live,
             tip' = tip, sync' = sync, unheard' = unheard
      PROVE  Inv' /\ LedgerStep
  <2>1. /\ blocks' = blocks \cup {h}
        /\ lost' = lost \cup ({u \in unheard : u < h} \ Handled)
    BY <1>v DEF SaveBlock
  <2>2. \A k \in live : k = h \/ k \in live'
    BY <1>v
  <2>3. Acc \subseteq Acc' /\ h \in Acc'
    BY <1>v, <2>1, <2>2, HandledAre DEF Acc
  <2>4. Latest' <= Latest \/ Latest' = h
    BY <1>s, <1>v, <2>1, LatestAfter
  <2>5. \A u \in 1..tip : u < h => u \in Acc'
    BY <1>k, <2>1, <2>3 DEF Acc
  <2>6. Latest' \in Nat
    BY <1>s, LatestNext
  <2>7. \A u \in 1..tip : u <= Latest' => u \in Acc'
    <3> SUFFICES ASSUME NEW u \in 1..tip, u <= Latest' PROVE u \in Acc'
      OBVIOUS
    <3>1. CASE u <= Latest
      BY <1>g, <2>3, <3>1
    <3>2. CASE ~(u <= Latest)
      <4>1. u <= h
        BY <1>l, <2>4, <2>6, <3>2
      <4>2. QED
        BY <2>3, <2>5, <4>1
    <3>3. QED
      BY <3>1, <3>2
  <2>8. QED
    BY <1>c, <1>q, <1>v, <2>1, <2>3, <2>7
<1>3. ASSUME NEW h \in Heights, SaveLiveBlock(h) PROVE Inv' /\ LedgerStep
  <2>1. h \in live /\ live' = live \ {h}
    BY <1>3 DEF SaveLiveBlock
  <2>2. h \in 1..tip
    BY <1>s, <2>1 DEF Typed
  <2>3. QED
    BY <1>3, <1>v, <2>1, <2>2 DEF SaveLiveBlock
<1>10. ASSUME NEW h \in Heights, SaveAskedBlock(h) PROVE Inv' /\ LedgerStep
  <2>1. h \in 1..tip
    BY <1>10, <1>l DEF SaveAskedBlock, Heights
  <2>2. QED
    BY <1>10, <1>v, <2>1 DEF SaveAskedBlock
<1>4. ASSUME NEW h \in Heights, LiveBlockFails(h) PROVE Inv' /\ LedgerStep
  <2>1. /\ live' = live \ {h} /\ blocks' = blocks /\ lost' = lost \cup {h}
        /\ tip' = tip /\ sync' = sync /\ unheard' = unheard
    BY <1>4 DEF LiveBlockFails
  <2>2. Acc \subseteq Acc'
    BY <2>1, HandledAre DEF Acc
  <2>3. QED
    BY <1>c, <1>g, <1>l, <1>q, <2>1, <2>2
<1>5. CASE StartProcess
  <2> DEFINE r == [sync[Boot] EXCEPT !.pc = "latest"]
  <2>1. Replaces(Boot, r) /\ sync[Boot].pc = "idle"
    BY <1>5, <1>s DEF StartProcess, Replaces, Safe, Resting
  <2>2. r.pc = "latest"
    <3>1. Sound(sync[Boot])
      BY <1>s DEF Typed
    <3>2. QED
      BY <3>1 DEF Sound, CallType
  <2> HIDE DEF r
  <2>3. QED
    BY <1>5, <1>w, <2>1, <2>2 DEF StartProcess
<1>6. CASE Crash
  <2>1. /\ live' = {} /\ sync' = [c \in Calls |-> NoCall]
        /\ lost' = lost \cup {h \in Handled : h < Latest}
        /\ unheard' = unheard \cup {h \in Handled : h > Latest}
        /\ tip' = tip /\ blocks' = blocks /\ Latest' = Latest
    BY <1>6, <1>l DEF Crash
  <2>2. \A h \in Handled : h \in 1..tip
    BY <1>s, HandledIs
  <2>3. \A h \in 1..tip : h = Latest => h \in blocks
    BY <1>l, <1>s, LatestIs
  <2>4. \A h \in Acc : h <= Latest /\ h \in 1..tip => h \in Acc'
    BY <1>l, <2>1, <2>3 DEF Acc
  <2>5. \A h \in Acc : h \in 1..tip => h \in Acc' \cup unheard'
    BY <1>l, <2>1, <2>2, <2>3 DEF Acc
  <2>6. Known'
    BY <1>k, <2>1, <2>5 DEF Known
  <2>7. NoSilentGap'
    BY <1>g, <1>l, <2>1, <2>4 DEF NoSilentGap, Acc
  <2>8. \A c \in Calls : Passed(sync[c])'
    BY <2>1 DEF Passed, NoCall, Call
  <2>9. LedgerStep
    BY <2>1, <2>2, <2>4 DEF LedgerStep, Acc
  <2>10. QED
    BY <1>s, <2>6, <2>7, <2>8, <2>9 DEF Inv
<1>7. ASSUME NEW c \in Calls, NEW from \in FromHeights, Request(c, from)
      PROVE  Inv' /\ LedgerStep
  <2>1. /\ tip' = tip /\ blocks' = blocks /\ live' = live /\ lost' = lost
        /\ unheard' = unheard /\ sync[c].pc = "idle" /\ from \in Nat
    BY <1>7 DEF Request
  <2>2. CASE from = 0
    <3> DEFINE r == [sync[c] EXCEPT !.pc = "latest"]
    <3>1. Replaces(c, r)
      BY <1>7, <2>2 DEF Request, Replaces
    <3>2. Sound(sync[c])
      BY <1>s DEF Typed
    <3>3. r.pc = "latest"
      BY <3>2 DEF Sound, CallType
    <3> HIDE DEF r
    <3>4. QED
      BY <1>w, <2>1, <3>1, <3>3
  <2>3. CASE from # 0
    <3>1. SyncFromHeight(c, from) /\ from >= 1
      BY <1>7, <2>1, <2>3 DEF Request
    <3>2. QED
      BY <1>o, <2>1, <3>1
  <2>4. QED
    BY <2>2, <2>3
<1>8. ASSUME NEW c \in Calls, SyncStep(c) PROVE Inv' /\ LedgerStep
  <2>s. Sound(sync[c])
    BY <1>s DEF Typed
  <2>1. CASE ReadLatest(c)
    <3>1. /\ tip' = tip /\ blocks' = blocks /\ live' = live /\ lost' = lost
          /\ unheard' = unheard /\ sync[c].pc = "latest"
      BY <2>1 DEF ReadLatest
    <3>2. CASE SyncFromHeight(c, Latest + 1)
      <4>1. Latest + 1 \in Nat /\ Latest + 1 >= 1
        BY <1>l
      <4>2. QED
        BY <1>o, <3>1, <3>2, <4>1
    <3>3. CASE sync' = [sync EXCEPT ![c].pc = "window"]
      <4> DEFINE r == [sync[c] EXCEPT !.pc = "window"]
      <4>1. Replaces(c, r)
        BY <3>3 DEF Replaces
      <4>2. r.pc = "window"
        BY <2>s DEF Sound, CallType
      <4> HIDE DEF r
      <4>3. QED
        BY <1>w, <3>1, <4>1, <4>2
    <3>4. QED
      BY <2>1, <3>2, <3>3 DEF ReadLatest
  <2>2. CASE ReadHeight(c)
    <3>1. /\ tip' = tip /\ blocks' = blocks /\ live' = live
          /\ unheard' = unheard /\ sync[c].pc = "height"
      BY <2>2 DEF ReadHeight
    <3>2. CASE BeginLoop(c, sync[c].from)
      <4>1. sync[c].from \in Nat /\ sync[c].from >= 1
        BY <2>s, <3>1 DEF Sound, CallType
      <4>2. QED
        BY <1>n, <3>1, <3>2, <4>1
    <3>3. CASE sync' = [sync EXCEPT ![c] = Call("window", 0, 0, 0, FALSE)]
               /\ lost' = lost
      <4> DEFINE r == Call("window", 0, 0, 0, FALSE)
      <4>1. Replaces(c, r) /\ r.pc = "window"
        BY <3>3 DEF Replaces, Call
      <4> HIDE DEF r
      <4>2. QED
        BY <1>w, <3>1, <3>3, <4>1
    <3>4. QED
      BY <2>2, <3>2, <3>3 DEF ReadHeight
  <2>3. CASE ReadWindow(c)
    <3>1. /\ tip' = tip /\ blocks' = blocks /\ live' = live
          /\ unheard' = unheard /\ sync[c].pc = "window"
      BY <2>3 DEF ReadWindow
    <3>2. CASE BeginLoop(c, Max({1, tip - BlockCount + 1}))
      <4> DEFINE w == Max({1, tip - BlockCount + 1})
      <4>1. tip - BlockCount + 1 \in Int /\ 1 \in Int
        BY <1>l
      <4>2. w \in {1, tip - BlockCount + 1} /\ w >= 1
        BY <4>1, MaxOfTwo, Zenon
      <4>3. BeginLoop(c, w)
        BY <3>2
      <4> HIDE DEF w
      <4>4. w \in Nat
        BY <4>1, <4>2
      <4>5. QED
        BY <1>n, <3>1, <4>2, <4>3, <4>4
    <3>3. CASE sync' = [sync EXCEPT ![c] = NoCall] /\ lost' = lost
      <4>1. Replaces(c, NoCall) /\ NoCall.pc # "block"
        BY <3>3 DEF Replaces, NoCall, Call
      <4>2. QED
        BY <1>w, <3>1, <3>3, <4>1
    <3>4. QED
      BY <2>3, <3>2, <3>3 DEF ReadWindow
  <2>4. CASE SyncBlock(c)
    <3>1. sync[c].at \in 1..tip
      BY <1>l, <2>4, <2>s DEF Sound, CallType, InLoop, SyncBlock
    <3>2. tip' = tip /\ blocks' = blocks \cup {sync[c].at}
      BY <2>4 DEF SyncBlock
    <3>3. Latest' <= Latest \/ Latest' = sync[c].at
      BY <1>s, <3>1, <3>2, LatestAfter
    <3>4. QED
      BY <1>m, <2>4, <3>3 DEF SyncBlock
  <2>5. CASE GiveUpBlock(c)
    <3>1. Latest' <= Latest
      BY <1>l, <2>5 DEF GiveUpBlock
    <3>2. QED
      BY <1>m, <2>5, <3>1 DEF GiveUpBlock
  <2>6. CASE SyncDone(c)
    <3>1. /\ Replaces(c, NoCall) /\ tip' = tip /\ blocks' = blocks /\ live' = live
          /\ lost' = lost /\ unheard' = unheard
          /\ sync[c].pc = "block" /\ sync[c].at > sync[c].to
      BY <2>6 DEF SyncDone, Replaces
    <3>2. RestOf(sync[c]) = {}
      BY <2>s, <3>1 DEF RestOf, Sound, CallType, Heights
    <3>3. Acc \subseteq Acc'
      BY <1>h, <3>1, <3>2
    <3>4. NoCall.pc # "block"
      BY DEF NoCall, Call
    <3>5. \A d \in Calls : Passed(sync[d])'
      BY <1>r, <3>1, <3>3, <3>4
    <3>6. QED
      BY <1>g, <1>l, <1>q, <3>1, <3>3, <3>5
  <2>7. QED
    BY <1>8, <2>1, <2>2, <2>3, <2>4, <2>5, <2>6 DEF SyncStep
<1>9. QED
  BY <1>1, <1>2, <1>3, <1>4, <1>5, <1>6, <1>7, <1>8, <1>10 DEF Next

\* A committed block is stored, stood for, above the resume point, or counted
\* as lost, whatever live blocks, blocks stored for a reader, requests, errors
\* and crashes come between the steps of the syncs.
THEOREM NoSilentGapHolds == Spec => []NoSilentGap
<1>1. Inv => NoSilentGap
  BY DEF Inv
<1>2. QED
  BY <1>1, InitInv, NextInv, PTL DEF Spec

\* No block is passed over silently, and isSyncing has one holder or is free,
\* whatever syncs of the boot and the API overlap.
THEOREM SyncsHoldAlways == Spec => []SyncsHold
<1>1. NoSilentGap /\ LockHasHolder => SyncsHold
  BY DEF SyncsHold
<1>2. QED
  BY <1>1, NoSilentGapHolds, LockHasHolderHolds, PTL

\* The block store implements the ledger of a resume point.
THEOREM ImplementsLedger == Spec => KeepsLedger
<1>1. Init => Ledger!Init
  <2> SUFFICES ASSUME Init PROVE Ledger!Init
    OBVIOUS
  <2>1. blocks = {} /\ lost = {} /\ live = {} /\ \A c \in Calls : sync[c].pc = "idle"
    BY DEF Init, NoCall, Call
  <2>2. Handled = {}
    BY <2>1, HandledAre DEF RestOf
  <2>3. QED
    BY <2>1, <2>2 DEF Ledger!Init, Latest
<1>2. Inv /\ Inv' /\ [Next]_vars /\ LedgerStep
        => [Ledger!Work \/ Ledger!Resume]_<<Latest, blocks \cup lost, Handled>>
  <2> SUFFICES ASSUME Inv, Inv', LedgerStep PROVE Ledger!Work \/ Ledger!Resume
    OBVIOUS
  <2>1. Ledger!Kept
    BY DEF LedgerStep, Ledger!Kept, Acc
  <2>2. CASE Latest' = Latest
    BY <2>1, <2>2 DEF Ledger!Work
  <2>3. CASE Latest' # Latest
    <3>1. Typed' /\ NoSilentGap'
      BY DEF Inv, Safe
    <3>2. Latest' \in Nat /\ Latest' <= tip' /\ tip' \in Nat
      BY <3>1, LatestNext
    <3>3. \A h \in 1..Latest' : h \in (blocks \cup lost)' \cup Handled'
      BY <3>1, <3>2 DEF NoSilentGap
    <3>4. QED
      BY <2>1, <2>3, <3>2, <3>3 DEF Ledger!Resume
  <2>4. QED
    BY <2>2, <2>3
<1>3. QED
  BY <1>1, <1>2, InitInv, NextInv, PTL DEF Spec, KeepsLedger, Ledger!Spec

\* What the ledger promises, of everything that takes only its steps: at no
\* time is a height at or below the resume point neither settled nor in
\* somebody's hands.  The proof uses nothing of the block store.
THEOREM NothingMissingHolds == Ledger!Spec => []Ledger!NothingMissing
<1>1. Ledger!Init => Ledger!NothingMissing
  BY DEF Ledger!Init, Ledger!NothingMissing
<1>2. Ledger!NothingMissing /\ [Ledger!Work \/ Ledger!Resume]_<<Latest, blocks \cup lost, Handled>>
        => Ledger!NothingMissing'
  <2> SUFFICES ASSUME Ledger!NothingMissing,
                      [Ledger!Work \/ Ledger!Resume]_<<Latest, blocks \cup lost, Handled>>
               PROVE  Ledger!NothingMissing'
    OBVIOUS
  <2>1. CASE Ledger!Work
    BY <2>1 DEF Ledger!Work, Ledger!Kept, Ledger!NothingMissing
  <2>2. CASE Ledger!Resume
    BY <2>2 DEF Ledger!Resume, Ledger!NothingMissing
  <2>3. CASE UNCHANGED <<Latest, blocks \cup lost, Handled>>
    BY <2>3 DEF Ledger!NothingMissing
  <2> QED BY <2>1, <2>2, <2>3
<1> QED BY <1>1, <1>2, PTL DEF Ledger!Spec

\* So the block store never misses a height at or below the one it resumes
\* from (BlockSyncService.startSync).
THEOREM ResumesOverNothing == Spec => []Ledger!NothingMissing
BY ImplementsLedger, NothingMissingHolds, PTL DEF KeepsLedger
=============================================================================
