------------------------------ MODULE ApiProofs ------------------------------
(***************************************************************************)
(* The process of the API, for every chain, set of callers, providers,     *)
(* transactions and blocks, batch, number of retries and of fetches, time  *)
(* to live of a page, and delay of the node and the database: what the     *)
(* ranges of finality votes promise and who holds their flags, that the    *)
(* signers of a height are read once, how old an answer of Redis can be,   *)
(* that reads never wait for each other in a circle, what a client is      *)
(* given page by page while others store what the pages are made of, and   *)
(* which servers a call has asked when it gives up.  Each component has an *)
(* invariant of its own; a restart is a step of them all.                  *)
(***************************************************************************)
EXTENDS ApiProcess, SumTheorems, TLAPS
-----------------------------------------------------------------------------
(* Votes: calls, flags and ranges.                                           *)

Active == {"height", "votes", "taken", "save"}
CallType == [try : 0..MaxRetries, votes : SUBSET Providers,
             at : {"none", "height", "votes", "taken", "save", "recent", "sleep"}]
ReqType == [at : {"none", "fetch", "stats"}, range : Nat \X Int, missing : SUBSET Heights, seen : Heights]

\* A fetch sleeps for another attempt, and saves what it has got.
CallOK(h, c) ==
    /\ c.at = "sleep" => c.try < MaxRetries
    /\ c.at = "save" => c.votes # {} /\ (HasData(h) \/ h \in given)
    /\ c.at \in {"height", "votes", "taken"} /\ HasData(h) => h \in twice

CallsOK ==
    /\ \A q \in Requests : \A h \in Heights : CallOK(h, call[q][h])
    /\ \A q \in Requests : req[q].at # "fetch" => \A h \in Heights : call[q][h].at = "none"
    /\ \A p, q \in Requests : \A h \in Heights :
         call[p][h].at # "none" /\ call[q][h].at # "none" => p = q \/ h \in twice

\* The lock of an attempt is held by one that does not wait.
LocksOK ==
    \A l \in locks : \E q \in Requests : call[q][l[1]].at \in Active /\ call[q][l[1]].try = l[2]

\* Of the heights in a range that were old enough when the chain had seen
\* blocks, nothing is left open but some to be fetched yet.
Known(range, seen, yet) ==
    \A h \in range[1]..range[2] :
        h + 2 < seen => HasData(h) \/ InFlight(h) \/ h \in given \/ h \in yet

RangesOK ==
    /\ \A r \in remembered : r \in [range : Nat \X Int, seen : Heights] /\ Known(r.range, r.seen, {})
    /\ \A q \in Requests : req[q].at = "fetch" => Known(req[q].range, req[q].seen, req[q].missing)

VoteTyped ==
    /\ TypeOK /\ req \in [Requests -> ReqType]
    /\ \A h \in unread : redis[h] # {}

FlagsOK == LocksOK /\ FlagsHeld
VoteInv == VoteTyped /\ CallsOK /\ FlagsOK /\ RangesOK

LEMMA VoteTypes ==
    ASSUME VoteInv
    PROVE  /\ call \in [Requests -> [Heights -> CallType]] /\ req \in [Requests -> ReqType]
           /\ cached \in [Heights -> SUBSET Providers] /\ redis \in [Heights -> SUBSET Providers]
           /\ votes \in [Heights -> SUBSET Providers] /\ tip \in Heights
           /\ locks \subseteq Heights \X (0..MaxRetries) /\ processing \subseteq Heights
           /\ given \subseteq Heights /\ twice \subseteq Heights /\ unread \subseteq Heights
           /\ scene \in Scenes /\ faults \in 0..scene.faults /\ scene.faults \in Nat
           /\ \A h \in unread : redis[h] # {}
  BY FinalityAssumption DEF VoteInv, VoteTyped, TypeOK, CallType, FinalityAssumption

\* What every step leaves alone is kept by naming it.
LEMMA RangesStay ==
    ASSUME VoteInv, UNCHANGED <<req>>, remembered' \subseteq remembered,
           \A g \in Heights : HasData(g) \/ InFlight(g) \/ g \in given
                                => (HasData(g) \/ InFlight(g) \/ g \in given)'
    PROVE  RangesOK'
  <1> DEFINE Gone(g) == HasData(g) \/ InFlight(g) \/ g \in given
  <1>1. ASSUME NEW range \in Nat \X Int, NEW seen \in Heights, NEW yet, Known(range, seen, yet)
        PROVE  Known(range, seen, yet)'
    <2> SUFFICES ASSUME NEW h \in range[1]..range[2], h + 2 < seen
                 PROVE  Gone(h)' \/ h \in yet
      BY DEF Known
    <2>1. h \in Heights
      BY FinalityAssumption DEF FinalityAssumption, Heights
    <2> QED BY <1>1, <2>1 DEF Known
  <1>2. ASSUME NEW r \in remembered' PROVE r \in [range : Nat \X Int, seen : Heights] /\ Known(r.range, r.seen, {})'
    <2>1. r \in [range : Nat \X Int, seen : Heights] /\ Known(r.range, r.seen, {})
      BY <1>2 DEF VoteInv, RangesOK
    <2> QED BY <1>1, <2>1
  <1>3. ASSUME NEW q \in Requests, req[q].at = "fetch"
        PROVE  Known(req[q].range, req[q].seen, req[q].missing)'
    <2>1. req[q] \in ReqType
      BY VoteTypes
    <2>2. req[q].range \in Nat \X Int /\ req[q].seen \in Heights
      BY <2>1 DEF ReqType
    <2>3. Known(req[q].range, req[q].seen, req[q].missing)
      BY <1>3 DEF VoteInv, RangesOK
    <2>4. Known(req[q].range, req[q].seen, req[q].missing)'
              = \A h \in req[q].range[1]..req[q].range[2] :
                    h + 2 < req[q].seen => Gone(h)' \/ h \in req[q].missing
      BY DEF Known
    <2> QED BY <1>1, <2>2, <2>3, <2>4 DEF Known
  <1> QED BY <1>2, <1>3 DEF RangesOK, Known

BoundsKept == scene' = scene /\ faults' \in 0..scene.faults

LEMMA BoundsAreKept ==
    ASSUME VoteInv, Fault \/ UNCHANGED boundVars
    PROVE  BoundsKept
  BY VoteTypes DEF Fault, boundVars, BoundsKept

LEMMA CallMoves ==
    ASSUME VoteInv, NEW q \in Requests, NEW h \in Heights, NEW c \in CallType,
           call' = [call EXCEPT ![q][h] = c]
    PROVE  /\ call' \in [Requests -> [Heights -> CallType]] /\ call'[q][h] = c
           /\ \A p \in Requests : \A g \in Heights : p # q \/ g # h => call'[p][g] = call[p][g]
  <1>1. call \in [Requests -> [Heights -> CallType]]
    BY VoteTypes
  <1> QED BY <1>1

\* One call goes on, or ends, and drops its lock unless it is still at work.
LEMMA OneCallMoves ==
    ASSUME VoteInv, NEW q \in Requests, NEW h \in Heights, NEW c \in CallType,
           call[q][h].at # "none", call' = [call EXCEPT ![q][h] = c],
           BoundsKept, UNCHANGED <<chainVars, unread, rangeVars, req, twice>>,
           CallOK(h, c)',
           \A p \in Requests : \A g \in Heights :
               (p # q \/ g # h) /\ CallOK(g, call[p][g]) => CallOK(g, call[p][g])',
           \A l \in locks' : \/ c.at \in Active /\ l = <<h, c.try>>
                             \/ l \in locks /\ l # <<h, call[q][h].try>>,
           processing' \subseteq processing, c.at = "none" => h \notin processing',
           cached' \in [Heights -> SUBSET Providers], redis' \in [Heights -> SUBSET Providers],
           given' \subseteq Heights, given \subseteq given',
           \A g \in unread : redis'[g] # {},
           \A g \in Heights : HasData(g) => (HasData(g) \/ g \in given)',
           c.at = "none" => (HasData(h) \/ h \in given \/ InFlight(h))'
    PROVE  VoteInv'
  <1>0. call \in [Requests -> [Heights -> CallType]]
    BY VoteTypes
  <1>1. /\ call' \in [Requests -> [Heights -> CallType]] /\ call'[q][h] = c
        /\ \A p \in Requests : \A g \in Heights : p # q \/ g # h => call'[p][g] = call[p][g]
    BY <1>0
  <1>a. \A g \in Heights : g # h => (InFlight(g)' <=> InFlight(g))
    BY <1>1 DEF InFlight
  <1>b. c.at # "none" => InFlight(h)'
    BY <1>1 DEF InFlight
  <1>2. VoteTyped'
    <2>1. \A l \in locks' : l \in Heights \X (0..MaxRetries)
      <3> SUFFICES ASSUME NEW l \in locks', l = <<h, c.try>> PROVE l \in Heights \X (0..MaxRetries)
        BY VoteTypes
      <3> QED BY DEF CallType
    <2>2. req' \in [Requests -> ReqType]
      BY VoteTypes
    <2>3. TypeOK'
      BY <1>1, <2>1, VoteTypes DEF TypeOK, CallType, BoundsKept, chainVars
    <2> QED BY <2>2, <2>3 DEF VoteTyped
  <1>3. CallsOK'
    <2>1. ASSUME NEW p \in Requests, NEW g \in Heights PROVE CallOK(g, call[p][g])'
      <3>1. CallOK(g, call[p][g])
        BY DEF VoteInv, CallsOK
      <3>2. CASE g = h /\ p = q
        BY <1>1, <3>2 DEF CallOK, HasData
      <3> QED BY <3>1, <3>2
    <2>2. ASSUME NEW p \in Requests, req[p].at # "fetch", NEW g \in Heights
          PROVE  call'[p][g].at = "none"
      <3>1. call[p][g].at = "none"
        BY <2>2 DEF VoteInv, CallsOK
      <3> QED BY <1>1, <3>1
    <2>3. ASSUME NEW p \in Requests, NEW r \in Requests, NEW g \in Heights,
                 call'[p][g].at # "none", call'[r][g].at # "none"
          PROVE  p = r \/ g \in twice
      <3>1. call[p][g].at # "none" /\ call[r][g].at # "none"
        BY <1>1, <2>3
      <3> QED BY <3>1 DEF VoteInv, CallsOK
    <2> QED BY <2>1, <2>2, <2>3 DEF CallsOK
  <1>4. LocksOK'
    <2> SUFFICES ASSUME NEW l \in locks'
                 PROVE  \E p \in Requests : call'[p][l[1]].at \in Active /\ call'[p][l[1]].try = l[2]
      BY DEF LocksOK
    <2>1. CASE c.at \in Active /\ l = <<h, c.try>>
      BY <1>1, <2>1
    <2>2. CASE l \in locks /\ l # <<h, call[q][h].try>>
      <3>1. PICK p \in Requests : call[p][l[1]].at \in Active /\ call[p][l[1]].try = l[2]
        BY <2>2 DEF VoteInv, FlagsOK, LocksOK
      <3>2. l \in Heights \X (0..MaxRetries)
        BY <2>2, VoteTypes
      <3>3. l[1] \in Heights /\ l = <<l[1], l[2]>>
        BY <3>2
      <3>4. p # q \/ l[1] # h
        BY <2>2, <3>1, <3>3
      <3> QED BY <1>1, <3>1, <3>3, <3>4
    <2> QED BY <2>1, <2>2
  <1>5. FlagsHeld'
    <2>1. ASSUME NEW g \in processing' PROVE InFlight(g)'
      <3>1. g \in Heights /\ InFlight(g)
        BY <2>1, VoteTypes DEF VoteInv, FlagsOK, FlagsHeld
      <3> QED BY <1>a, <1>b, <2>1, <3>1
    <2>2. \A l \in locks' : \E p \in Requests : call'[p][l[1]].at # "none" /\ call'[p][l[1]].try = l[2]
      BY <1>4 DEF LocksOK, Active
    <2>3. \A range \in busy' : \E p \in Requests : req'[p].at = "fetch" /\ req'[p].range = range
      BY DEF VoteInv, FlagsOK, FlagsHeld, rangeVars
    <2> QED BY <2>1, <2>2, <2>3 DEF FlagsHeld
  <1>6. RangesOK'
    <2>1. \A g \in Heights : HasData(g) \/ InFlight(g) \/ g \in given
                                => (HasData(g) \/ InFlight(g) \/ g \in given)'
      BY <1>a, <1>b
    <2> QED BY <2>1, RangesStay DEF rangeVars
  <1> QED BY <1>2, <1>3, <1>4, <1>5, <1>6 DEF VoteInv, FlagsOK

\* A step of a call that neither adds data nor drops any.
LEMMA OneCallGoes ==
    ASSUME VoteInv, NEW q \in Requests, NEW h \in Heights, NEW c \in CallType,
           call[q][h].at # "none", call' = [call EXCEPT ![q][h] = c],
           BoundsKept, UNCHANGED <<chainVars, cached, redis, unread, rangeVars, req, twice>>,
           CallOK(h, c),
           \A l \in locks' : \/ c.at \in Active /\ l = <<h, c.try>>
                             \/ l \in locks /\ l # <<h, call[q][h].try>>,
           processing' \subseteq processing, c.at = "none" => h \notin processing',
           given' \in {given, given \cup {h}},
           c.at = "none" => (HasData(h) \/ h \in given \/ InFlight(h))'
    PROVE  VoteInv'
  <1>1. \A g : HasData(g)' <=> HasData(g)
    BY DEF HasData
  <1>2. given \subseteq given' /\ given' \subseteq Heights
    BY VoteTypes
  <1>3. twice' = twice /\ redis' = redis
    OBVIOUS
  <1>4. \A g : \A x : CallOK(g, x) => CallOK(g, x)'
    BY <1>1, <1>2, <1>3 DEF CallOK
  <1>5. /\ cached' \in [Heights -> SUBSET Providers] /\ redis' \in [Heights -> SUBSET Providers]
        /\ \A g \in unread : redis'[g] # {}
    BY VoteTypes
  <1>6. BoundsKept /\ UNCHANGED <<chainVars, unread, rangeVars, req, twice>>
    OBVIOUS
  <1>7. CallOK(h, c)'
    BY <1>4
  <1>8. \A p \in Requests : \A g \in Heights :
               (p # q \/ g # h) /\ CallOK(g, call[p][g]) => CallOK(g, call[p][g])'
    BY <1>1, <1>2, <1>3, CallMoves DEF CallOK
  <1>9. \A g \in Heights : HasData(g) => (HasData(g) \/ g \in given)'
    BY <1>1
  <1> QED BY <1>2, <1>5, <1>6, <1>7, <1>8, <1>9, OneCallMoves

\* The states a call goes to.
LEMMA CallStates ==
    ASSUME VoteInv, NEW q \in Requests, NEW h \in Heights
    PROVE  /\ call[q][h] \in CallType /\ NoCall \in CallType /\ CallOK(h, call[q][h])
           /\ \A at \in {"none", "height", "votes", "taken", "save", "recent", "sleep"} :
                /\ [call[q][h] EXCEPT !.at = at] \in CallType
                /\ [call EXCEPT ![q][h].at = at] = [call EXCEPT ![q][h] = [call[q][h] EXCEPT !.at = at]]
           /\ \A try \in 0..MaxRetries : Entered(h, try) \in CallType
  <1>1. call \in [Requests -> [Heights -> CallType]]
    BY VoteTypes
  <1>2. call[q][h] \in CallType /\ 0 \in 0..MaxRetries
    BY <1>1, FinalityAssumption DEF FinalityAssumption
  <1>3. CallOK(h, call[q][h])
    BY DEF VoteInv, CallsOK
  <1>4. NoCall \in CallType /\ \A try \in 0..MaxRetries : Entered(h, try) \in CallType
    BY <1>2 DEF NoCall, Entered, CallType
  <1>5. \A at \in {"none", "height", "votes", "taken", "save", "recent", "sleep"} :
            [call[q][h] EXCEPT !.at = at] \in CallType
    BY <1>2 DEF CallType
  <1> QED BY <1>1, <1>2, <1>3, <1>4, <1>5

LEMMA ReadHeightKeeps ==
    ASSUME VoteInv, NEW q \in Requests, NEW h \in Heights, ReadHeight(q, h)
    PROVE  VoteInv'
  <1> DEFINE at == IF tip <= h + 3 THEN "recent" ELSE "votes"
             c == [call[q][h] EXCEPT !.at = at]
  <1>1. call[q][h].at = "height" /\ call' = [call EXCEPT ![q][h].at = at]
    BY DEF ReadHeight, Waits, Goes
  <1>2. /\ c \in CallType /\ call' = [call EXCEPT ![q][h] = c] /\ CallOK(h, call[q][h])
        /\ call[q][h] \in CallType
    BY <1>1, CallStates
  <1>3. c.at = at /\ c.try = call[q][h].try /\ c.votes = call[q][h].votes
    BY <1>2 DEF CallType
  <1>4. CallOK(h, c)
    BY <1>1, <1>2, <1>3 DEF CallOK
  <1>5. \A l \in locks' : \/ c.at \in Active /\ l = <<h, c.try>>
                          \/ l \in locks /\ l # <<h, call[q][h].try>>
    BY <1>1, <1>3 DEF ReadHeight, Waits, Active, flagVars
  <1>6. /\ BoundsKept /\ UNCHANGED <<chainVars, cached, redis, unread, rangeVars, req, twice, given>>
        /\ processing' = processing
    BY BoundsAreKept DEF ReadHeight, Waits, flagVars, historyVars
  <1>7. /\ c.at # "none" /\ call[q][h].at # "none" /\ processing' \subseteq processing
        /\ given' \in {given, given \cup {h}}
    BY <1>1, <1>3, <1>6
  <1> HIDE DEF c
  <1> QED BY <1>2, <1>4, <1>5, <1>6, <1>7, OneCallGoes

LEMMA ReadVotesKeeps ==
    ASSUME VoteInv, NEW q \in Requests, NEW h \in Heights, ReadVotes(q, h)
    PROVE  VoteInv'
  <1> DEFINE c == [call[q][h] EXCEPT !.at = "taken", !.votes = votes[h]]
  <1>1. call[q][h].at = "votes" /\ call' = [call EXCEPT ![q][h].at = "taken", ![q][h].votes = votes[h]]
    BY DEF ReadVotes
  <1>2. call[q][h] \in CallType /\ CallOK(h, call[q][h]) /\ votes[h] \in SUBSET Providers
    BY VoteTypes, CallStates
  <1>3. c \in CallType /\ c.at = "taken" /\ c.try = call[q][h].try
    BY <1>2 DEF CallType
  <1>4. call' = [call EXCEPT ![q][h] = c]
    <2>1. call \in [Requests -> [Heights -> CallType]]
      BY VoteTypes
    <2> QED BY <1>1, <1>2, <2>1
  <1>5. CallOK(h, c)
    BY <1>1, <1>2, <1>3 DEF CallOK
  <1>6. /\ BoundsKept /\ UNCHANGED <<chainVars, cached, redis, unread, rangeVars, req, twice, given>>
        /\ processing' = processing /\ locks' = locks
    BY BoundsAreKept DEF ReadVotes, flagVars, historyVars
  <1>7. \A l \in locks' : \/ c.at \in Active /\ l = <<h, c.try>>
                          \/ l \in locks /\ l # <<h, call[q][h].try>>
    BY <1>3, <1>6 DEF Active
  <1> HIDE DEF c
  <1> QED BY <1>1, <1>2, <1>3, <1>4, <1>5, <1>6, <1>7, OneCallGoes

\* A call ends, and what it has held is released; its height was given up, or
\* there is something for it.
LEMMA EndsKeeps ==
    ASSUME VoteInv, NEW q \in Requests, NEW h \in Heights, Ends(q, h), call[q][h].at # "none",
           BoundsKept, UNCHANGED <<chainVars, cached, redis, unread, rangeVars, req, twice>>,
           given' = given \cup {h}
    PROVE  VoteInv'
  <1>1. call' = [call EXCEPT ![q][h] = NoCall] /\ NoCall \in CallType
    BY CallStates DEF Ends
  <1>2. locks' = locks \ {<<h, call[q][h].try>>} /\ processing' = processing \ {h}
    BY DEF Ends, Released
  <1>3. CallOK(h, NoCall) /\ NoCall.at = "none"
    BY DEF CallOK, NoCall
  <1> HIDE DEF NoCall
  <1> QED BY <1>1, <1>2, <1>3, OneCallGoes

LEMMA WaitsKeeps ==
    ASSUME VoteInv, NEW q \in Requests, NEW h \in Heights, Waits(q, h, "sleep"),
           call[q][h].at # "none", call[q][h].try < MaxRetries,
           BoundsKept, UNCHANGED <<chainVars, cached, redis, unread, rangeVars, req, twice, given>>
    PROVE  VoteInv'
  <1> DEFINE c == [call[q][h] EXCEPT !.at = "sleep"]
  <1>1. call' = [call EXCEPT ![q][h] = c] /\ c \in CallType /\ call[q][h] \in CallType
    BY CallStates DEF Waits, Goes
  <1>2. locks' = locks \ {<<h, call[q][h].try>>} /\ processing' = processing
    BY DEF Waits
  <1>3. CallOK(h, c) /\ c.at = "sleep"
    BY <1>1 DEF CallOK, CallType
  <1> HIDE DEF c
  <1> QED BY <1>1, <1>2, <1>3, OneCallGoes

LEMMA TakeVotesKeeps ==
    ASSUME VoteInv, NEW q \in Requests, NEW h \in Heights, TakeVotes(q, h)
    PROVE  VoteInv'
  <1> DEFINE c == call[q][h]
  <1>0. call[q][h].try \in 0..MaxRetries /\ MaxRetries \in Nat
    <2>1. call[q][h] \in CallType
      BY CallStates
    <2> QED BY <2>1, FinalityAssumption DEF CallType, FinalityAssumption
  <1>1. /\ c.at = "taken" /\ BoundsKept
        /\ UNCHANGED <<chainVars, redis, unread, rangeVars, req, twice>>
    BY BoundsAreKept DEF TakeVotes
  <1>2. CASE c.votes = {} /\ c.try < MaxRetries /\ ~HasData(h)
    <2>1. Waits(q, h, "sleep") /\ UNCHANGED <<cached, given>>
      BY <1>0, <1>2 DEF TakeVotes
    <2> QED BY <1>1, <1>2, <2>1, WaitsKeeps
  <1>3. CASE c.votes = {} /\ (c.try = MaxRetries \/ HasData(h))
    <2>1. Ends(q, h) /\ given' = given \cup {h} /\ UNCHANGED cached
      BY <1>0, <1>3 DEF TakeVotes
    <2> QED BY <1>1, <2>1, EndsKeeps
  <1>4. CASE c.votes # {}
    <2>1. /\ cached' = [cached EXCEPT ![h] = c.votes] /\ call' = [call EXCEPT ![q][h].at = "save"]
          /\ UNCHANGED <<flagVars, given>>
      BY <1>4 DEF TakeVotes, Goes
    <2>2. PICK d \in CallType : /\ d = [call[q][h] EXCEPT !.at = "save"]
                               /\ call' = [call EXCEPT ![q][h] = d] /\ c \in CallType
      BY <2>1, CallStates
    <2>3. d.at = "save" /\ d.votes = c.votes /\ d.try = c.try /\ c.votes \in SUBSET Providers
      BY <2>2 DEF CallType
    <2>4. cached' \in [Heights -> SUBSET Providers] /\ cached'[h] # {}
          /\ \A g \in Heights : g # h => cached'[g] = cached[g]
      BY <1>4, <2>1, <2>3, VoteTypes
    <2>5. \A g \in Heights : HasData(g) => HasData(g)'
      BY <2>4 DEF HasData
    <2>6. CallOK(h, d)'
      BY <1>4, <2>3, <2>4 DEF CallOK, HasData
    \* Another call for h that has not come so far is known to be the second.
    <2>7. ASSUME NEW p \in Requests, NEW g \in Heights, p # q \/ g # h, CallOK(g, call[p][g])
          PROVE  CallOK(g, call[p][g])'
      <3>0. call'[p][g] = call[p][g] /\ twice' = twice /\ given' = given
        BY <1>1, <2>1, <2>2, <2>7, CallMoves
      <3>1. CASE g # h
        BY <2>4, <2>7, <3>0, <3>1 DEF CallOK, HasData
      <3>2. CASE g = h
        <4>1. call[p][h].at # "none" => h \in twice
          BY <1>1, <2>7, <3>2 DEF VoteInv, CallsOK
        <4> QED BY <2>4, <2>7, <3>0, <3>2, <4>1 DEF CallOK, HasData
      <3> QED BY <3>1, <3>2
    <2>8. \A l \in locks' : \/ d.at \in Active /\ l = <<h, d.try>>
                            \/ l \in locks /\ l # <<h, call[q][h].try>>
      BY <2>1, <2>3 DEF Active, flagVars
    <2>9. processing' = processing /\ given' = given /\ given \subseteq Heights /\ redis' = redis
      BY <1>1, <2>1, VoteTypes DEF flagVars
    <2>10. redis \in [Heights -> SUBSET Providers] /\ \A g \in unread : redis[g] # {}
      BY VoteTypes
    <2>11. /\ call[q][h].at # "none" /\ d.at # "none" /\ processing' \subseteq processing
           /\ given \subseteq given' /\ given' \subseteq Heights
           /\ UNCHANGED <<chainVars, unread, rangeVars, req, twice>>
           /\ redis' \in [Heights -> SUBSET Providers] /\ \A g \in unread : redis'[g] # {}
           /\ \A g \in Heights : HasData(g) => (HasData(g) \/ g \in given)'
           /\ cached' \in [Heights -> SUBSET Providers]
      BY <1>1, <2>3, <2>4, <2>5, <2>9, <2>10
    <2>12. \A p \in Requests : \A g \in Heights :
               (p # q \/ g # h) /\ CallOK(g, call[p][g]) => CallOK(g, call[p][g])'
      BY <2>7
    <2> QED BY <1>1, <2>2, <2>6, <2>8, <2>11, <2>12, OneCallMoves
  <1> QED BY <1>2, <1>3, <1>4 DEF TakeVotes

LEMMA SaveVotesKeeps ==
    ASSUME VoteInv, NEW q \in Requests, NEW h \in Heights, SaveVotes(q, h)
    PROVE  VoteInv'
  <1> DEFINE all == {i \in Heights : HasData(i)}
             newest == IF Cardinality(all) > MaxCache THEN Newest(all) ELSE all
             b == [call[q][h] EXCEPT !.at = "sleep"]
  <1>1. /\ call[q][h].at = "save" /\ BoundsKept
        /\ redis' \in {redis, [redis EXCEPT ![h] = call[q][h].votes]}
        /\ cached' = [i \in Heights |-> IF i \in newest THEN cached[i] ELSE {}]
        /\ given' = given \cup (all \ newest)
        /\ UNCHANGED <<chainVars, unread, rangeVars, req, twice>>
        /\ IF call[q][h].try < MaxRetries THEN Waits(q, h, "sleep") ELSE Ends(q, h)
    BY BoundsAreKept DEF SaveVotes
  <1>2. /\ call[q][h] \in CallType /\ b \in CallType /\ CallOK(h, call[q][h])
        /\ [call EXCEPT ![q][h].at = "sleep"] = [call EXCEPT ![q][h] = b] /\ NoCall \in CallType
    BY CallStates
  <1>3. b.at = "sleep" /\ b.try = call[q][h].try /\ call[q][h].votes \in SUBSET Providers
    BY <1>2 DEF CallType
  <1>4. PICK c \in CallType :
            /\ call' = [call EXCEPT ![q][h] = c] /\ c.at \in {"none", "sleep"}
            /\ c.at = "sleep" => c.try < MaxRetries
            /\ locks' = locks \ {<<h, call[q][h].try>>} /\ processing' \subseteq processing
            /\ c.at = "none" => h \notin processing'
    <2>1. CASE call[q][h].try < MaxRetries
      <3>1. /\ call' = [call EXCEPT ![q][h] = b] /\ locks' = locks \ {<<h, call[q][h].try>>}
            /\ processing' = processing
        BY <1>1, <1>2, <2>1 DEF Waits, Goes
      <3> HIDE DEF b
      <3> QED BY <1>2, <1>3, <2>1, <3>1
    <2>2. CASE ~(call[q][h].try < MaxRetries)
      <3>1. /\ call' = [call EXCEPT ![q][h] = NoCall] /\ locks' = locks \ {<<h, call[q][h].try>>}
            /\ processing' = processing \ {h} /\ NoCall.at = "none"
        BY <1>1, <2>2 DEF Ends, Released, NoCall
      <3> HIDE DEF NoCall
      <3> QED BY <1>2, <3>1
    <2> QED BY <2>1, <2>2
  <1>5. cached \in [Heights -> SUBSET Providers]
    BY VoteTypes
  <1>6. \A g \in Heights : /\ HasData(g)' => HasData(g)
                           /\ HasData(g) => (HasData(g) \/ g \in given)'
    <2> SUFFICES ASSUME NEW g \in Heights PROVE (HasData(g)' => HasData(g)) /\ (HasData(g) => (HasData(g) \/ g \in given)')
      OBVIOUS
    <2>1. cached'[g] = IF g \in newest THEN cached[g] ELSE {}
      BY <1>1
    <2>2. HasData(g) => g \in all
      OBVIOUS
    <2> HIDE DEF newest, all
    <2> QED BY <1>1, <2>1, <2>2 DEF HasData
  <1>7. /\ cached' \in [Heights -> SUBSET Providers] /\ given' \subseteq Heights /\ given \subseteq given'
    <2>1. all \subseteq Heights /\ given \subseteq Heights
      BY VoteTypes
    <2> HIDE DEF newest, all
    <2> QED BY <1>1, <1>5, <2>1
  <1>8. redis' \in [Heights -> SUBSET Providers] /\ \A g \in unread : redis'[g] # {}
    <2>1. redis \in [Heights -> SUBSET Providers] /\ call[q][h].votes # {} /\ \A g \in unread : redis[g] # {}
      BY <1>1, <1>2, VoteTypes DEF CallOK
    <2>2. CASE redis' = redis
      BY <2>1, <2>2
    <2>3. CASE redis' = [redis EXCEPT ![h] = call[q][h].votes]
      BY <1>3, <2>1, <2>3
    <2> QED BY <1>1, <2>2, <2>3
  <1>9. ASSUME NEW g \in Heights, NEW x, CallOK(g, x) PROVE CallOK(g, x)'
    <2>1. twice' = twice
      BY <1>1
    <2> QED BY <1>6, <1>7, <1>9, <2>1 DEF CallOK
  <1>10. CallOK(h, c)'
    BY <1>4 DEF CallOK
  <1>11. \A p \in Requests : \A g \in Heights :
               (p # q \/ g # h) /\ CallOK(g, call[p][g]) => CallOK(g, call[p][g])'
    <2> SUFFICES ASSUME NEW p \in Requests, NEW g \in Heights, p # q \/ g # h, CallOK(g, call[p][g])
                 PROVE  CallOK(g, call[p][g])'
      OBVIOUS
    <2>1. call'[p][g] = call[p][g] /\ twice' = twice
      BY <1>1, <1>4, CallMoves
    <2> QED BY <1>6, <1>7, <2>1 DEF CallOK
  <1>12. c.at = "none" => (HasData(h) \/ h \in given \/ InFlight(h))'
    BY <1>1, <1>2, <1>6, <1>7 DEF CallOK
  <1>13. \A l \in locks' : \/ c.at \in Active /\ l = <<h, c.try>>
                           \/ l \in locks /\ l # <<h, call[q][h].try>>
    BY <1>4
  <1>14. call[q][h].at # "none" /\ UNCHANGED <<chainVars, unread, rangeVars, req, twice>> /\ BoundsKept
    BY <1>1
  <1> HIDE DEF newest, all
  <1> QED BY <1>4, <1>6, <1>7, <1>8, <1>10, <1>11, <1>12, <1>13, <1>14, OneCallMoves

\* The next attempt, or none: then there is data, or another call runs it.
LEMMA TryAgainKeeps ==
    ASSUME VoteInv, NEW q \in Requests, NEW h \in Heights, TryAgain(q, h)
    PROVE  VoteInv'
  <1> DEFINE try == call[q][h].try
             next == NextTry(q, h)
             in == Enters(h, next, locks)
             c == IF in THEN Entered(h, next) ELSE NoCall
  <1>1. /\ call[q][h].at \in {"recent", "sleep"} /\ BoundsKept
        /\ call' = [call EXCEPT ![q][h] = c]
        /\ locks' = (IF in THEN locks \cup {<<h, next>>} ELSE locks) \ {<<h, try>>}
        /\ processing' = processing \ {h}
        /\ UNCHANGED <<chainVars, cached, redis, unread, rangeVars, req, twice, given>>
    BY BoundsAreKept DEF TryAgain, historyVars
  <1>2. call[q][h] \in CallType /\ CallOK(h, call[q][h]) /\ NoCall \in CallType
        /\ \A t \in 0..MaxRetries : Entered(h, t) \in CallType
    BY CallStates
  <1>3. next \in 0..MaxRetries
    BY <1>1, <1>2, FinalityAssumption DEF NextTry, CallOK, CallType, FinalityAssumption
  <1>4. c \in CallType
    BY <1>2, <1>3
  <1>5. CallOK(h, c) /\ (in => c.at = "height" /\ c.try = next) /\ (~in => c.at = "none")
    BY DEF Entered, NoCall, CallOK, Enters
  <1>6. \A l \in locks' : \/ c.at \in Active /\ l = <<h, c.try>>
                          \/ l \in locks /\ l # <<h, call[q][h].try>>
    BY <1>1, <1>5 DEF Active
  <1>7. c.at = "none" => (HasData(h) \/ h \in given \/ InFlight(h))'
    <2> SUFFICES ASSUME ~in, ~HasData(h) PROVE InFlight(h)'
      <3>1. HasData(h)' = HasData(h)
        BY <1>1 DEF HasData
      <3> QED BY <1>5, <3>1
    <2>1. <<h, next>> \in locks
      BY DEF Enters
    <2>2. PICK p \in Requests : call[p][<<h, next>>[1]].at \in Active
      BY <2>1 DEF VoteInv, FlagsOK, LocksOK
    <2>3. call[p][h].at \in Active /\ p # q
      BY <1>1, <2>2 DEF Active
    <2>4. call'[p][h] = call[p][h]
      BY <1>1, <1>4, <2>3, CallMoves
    <2> QED BY <2>3, <2>4 DEF InFlight, Active
  <1>8. c.at = "none" => h \notin processing'
    BY <1>1
  <1> HIDE DEF c
  <1> QED BY <1>1, <1>4, <1>5, <1>6, <1>7, <1>8, OneCallGoes

LEMMA CallFailsKeeps ==
    ASSUME VoteInv, NEW q \in Requests, NEW h \in Heights, CallFails(q, h)
    PROVE  VoteInv'
  <1>1. /\ call[q][h].at # "none" /\ BoundsKept
        /\ UNCHANGED <<chainVars, cached, redis, unread, rangeVars, req, twice>>
    BY BoundsAreKept DEF CallFails
  <1>2. CASE call[q][h].try < MaxRetries /\ Waits(q, h, "sleep") /\ UNCHANGED given
    BY <1>1, <1>2, WaitsKeeps
  <1>3. CASE Ends(q, h) /\ given' = given \cup {h}
    BY <1>1, <1>3, EndsKeeps
  <1>4. ASSUME NEW at \in {"recent", "taken"}, call[q][h].at \in {"height", "votes"},
               call' = [call EXCEPT ![q][h].at = at], processing' = processing, given' = given,
               \/ locks' = locks \ {<<h, call[q][h].try>>}
               \/ at = "taken" /\ locks' = locks
        PROVE  VoteInv'
    <2> DEFINE c == [call[q][h] EXCEPT !.at = at]
    <2>1. /\ c \in CallType /\ call' = [call EXCEPT ![q][h] = c] /\ CallOK(h, call[q][h])
          /\ call[q][h] \in CallType
      BY <1>4, CallStates
    <2>2. c.at = at /\ c.try = call[q][h].try
      BY <2>1 DEF CallType
    <2>3. CallOK(h, c)
      BY <1>4, <2>1, <2>2 DEF CallOK
    <2>4. \A l \in locks' : \/ c.at \in Active /\ l = <<h, c.try>>
                            \/ l \in locks /\ l # <<h, call[q][h].try>>
      BY <1>4, <2>2 DEF Active
    <2> HIDE DEF c
    <2> QED BY <1>1, <1>4, <2>1, <2>2, <2>3, <2>4, OneCallGoes
  <1> QED BY <1>2, <1>3, <1>4 DEF CallFails, Waits, Goes, flagVars

\* Steps that leave calls, flags and caches alone.
LEMMA QuietKeeps ==
    ASSUME VoteInv, BoundsKept, tip' \in Heights, votes' \in [Heights -> SUBSET Providers],
           UNCHANGED <<cached, redis, unread, flagVars, busy, call, historyVars, req>>,
           remembered' \subseteq remembered
    PROVE  VoteInv'
  <1>1. VoteTyped'
    BY VoteTypes DEF VoteInv, VoteTyped, TypeOK, flagVars, historyVars, BoundsKept
  <1>2. CallsOK'
    BY DEF VoteInv, CallsOK, CallOK, HasData, historyVars
  <1>3. FlagsOK'
    BY DEF VoteInv, FlagsOK, LocksOK, FlagsHeld, InFlight, flagVars
  <1>4. RangesOK'
    BY RangesStay DEF HasData, InFlight, historyVars
  <1> QED BY <1>1, <1>2, <1>3, <1>4 DEF VoteInv

LEMMA ChainKeeps ==
    ASSUME VoteInv, NewBlock \/ (\E p \in Providers, h \in Heights : Vote(p, h))
    PROVE  VoteInv'
  <1>1. tip \in Nat /\ scene.top \in Heights /\ MaxHeight \in Nat /\ votes \in [Heights -> SUBSET Providers]
        /\ tip \in Heights
    BY VoteTypes, FinalityAssumption DEF FinalityAssumption, Heights
  <1>2. CASE NewBlock
    <2>1. tip' \in Heights /\ votes' = votes
      BY <1>1, <1>2 DEF NewBlock, Heights
    <2> QED BY <1>1, <1>2, <2>1, BoundsAreKept, QuietKeeps DEF NewBlock, rangeVars
  <1>3. ASSUME NEW p \in Providers, NEW h \in Heights, Vote(p, h) PROVE VoteInv'
    <2>1. tip' \in Heights /\ votes' \in [Heights -> SUBSET Providers]
      BY <1>1, <1>3 DEF Vote
    <2> QED BY <1>3, <2>1, BoundsAreKept, QuietKeeps DEF Vote, rangeVars
  <1> QED BY <1>2, <1>3

LEMMA ExpireKeeps ==
    ASSUME VoteInv, NEW r \in remembered, ExpireRange(r)
    PROVE  VoteInv'
  BY VoteTypes, BoundsAreKept, QuietKeeps DEF ExpireRange, chainVars

LEMMA StutterKeeps ==
    ASSUME VoteInv, UNCHANGED vars
    PROVE  VoteInv'
  BY VoteTypes, BoundsAreKept, QuietKeeps DEF vars, chainVars, rangeVars

\* The load brings what was there when the process started, or newer.
LEMMA LoadKeeps ==
    ASSUME VoteInv, NEW h \in Heights, Load(h)
    PROVE  VoteInv'
  <1>1. /\ h \in unread /\ unread' = unread \ {h} /\ cached' = [cached EXCEPT ![h] = redis[h]]
        /\ twice' = (IF InFlight(h) THEN twice \cup {h} ELSE twice) /\ BoundsKept
        /\ UNCHANGED <<chainVars, redis, flagVars, rangeVars, req, call, given>>
    BY BoundsAreKept DEF Load
  <1>2. redis[h] \in SUBSET Providers /\ redis[h] # {} /\ cached \in [Heights -> SUBSET Providers]
    BY <1>1, VoteTypes
  <1>3. cached' \in [Heights -> SUBSET Providers] /\ cached'[h] # {}
        /\ \A g \in Heights : g # h => cached'[g] = cached[g]
    BY <1>1, <1>2
  <1>4. twice \subseteq twice' /\ (InFlight(h) => h \in twice') /\ twice' \subseteq Heights
    BY <1>1, VoteTypes
  <1>5. VoteTyped'
    <2>1. TypeOK'
      BY <1>1, <1>3, <1>4 DEF VoteInv, VoteTyped, TypeOK, chainVars, flagVars, BoundsKept
    <2> QED BY <1>1, <2>1 DEF VoteInv, VoteTyped
  <1>6. CallsOK'
    <2>1. ASSUME NEW q \in Requests, NEW g \in Heights PROVE CallOK(g, call[q][g])'
      <3>1. CallOK(g, call[q][g]) /\ call'[q][g] = call[q][g] /\ given' = given
        BY <1>1 DEF VoteInv, CallsOK
      <3>2. CASE g # h
        BY <1>3, <1>4, <3>1, <3>2 DEF CallOK, HasData
      <3>3. CASE g = h
        <4>1. call[q][h].at # "none" => h \in twice'
          BY <1>4 DEF InFlight
        <4> QED BY <1>3, <1>4, <3>1, <3>3, <4>1 DEF CallOK, HasData
      <3> QED BY <3>2, <3>3
    <2> QED BY <1>1, <1>4, <2>1 DEF VoteInv, CallsOK
  <1>7. FlagsOK'
    BY <1>1 DEF VoteInv, FlagsOK, LocksOK, FlagsHeld, InFlight, flagVars, rangeVars
  <1>8. RangesOK'
    <2>1. \A g \in Heights : HasData(g) => HasData(g)'
      BY <1>3 DEF HasData
    <2> QED BY <1>1, <2>1, RangesStay DEF InFlight, rangeVars
  <1> QED BY <1>5, <1>6, <1>7, <1>8 DEF VoteInv

\* A request is answered.
LEMMA AnswerKeeps ==
    ASSUME VoteInv, NEW q \in Requests, NEW r \in ReqType, r.at # "fetch", req' = [req EXCEPT ![q] = r],
           req[q].at # "fetch", BoundsKept,
           UNCHANGED <<chainVars, cached, redis, unread, flagVars, rangeVars, call, historyVars>>
    PROVE  VoteInv'
  <1>1. req \in [Requests -> ReqType]
    BY VoteTypes
  <1>2. /\ req' \in [Requests -> ReqType] /\ req'[q] = r
        /\ \A p \in Requests : p # q => req'[p] = req[p]
    BY <1>1
  <1>3. VoteTyped'
    BY <1>2, VoteTypes DEF VoteInv, VoteTyped, TypeOK, chainVars, flagVars, historyVars, BoundsKept
  <1>4. CallsOK'
    BY <1>2 DEF VoteInv, CallsOK, CallOK, HasData, historyVars
  <1>5. FlagsOK'
    BY <1>2 DEF VoteInv, FlagsOK, LocksOK, FlagsHeld, InFlight, flagVars, rangeVars
  <1>6. RangesOK'
    BY <1>2 DEF VoteInv, RangesOK, Known, HasData, InFlight, rangeVars, historyVars
  <1> QED BY <1>3, <1>4, <1>5, <1>6 DEF VoteInv

LEMMA NoReqTyped == NoReq \in ReqType
  BY FinalityAssumption DEF NoReq, ReqType, FinalityAssumption, Heights

LEMMA FinishKeeps ==
    ASSUME VoteInv, NEW q \in Requests, FinishRange(q)
    PROVE  VoteInv'
  <1>1. /\ req[q].at = "fetch" /\ (\A h \in Heights : call[q][h].at = "none") /\ req[q].missing = {}
        /\ remembered' = {r \in remembered : r.range # req[q].range}
                           \cup {[range |-> req[q].range, seen |-> req[q].seen]}
        /\ busy' = busy \ {req[q].range} /\ req' = [req EXCEPT ![q].at = "stats"] /\ BoundsKept
        /\ UNCHANGED <<chainVars, cached, redis, unread, flagVars, call, historyVars>>
    BY BoundsAreKept DEF FinishRange, BatchDone
  <1>2. req \in [Requests -> ReqType] /\ req[q] \in ReqType
    BY VoteTypes
  <1>3. /\ req' \in [Requests -> ReqType] /\ req'[q].at = "stats"
        /\ \A p \in Requests : p # q => req'[p] = req[p]
    BY <1>1, <1>2 DEF ReqType
  <1>4. VoteTyped'
    BY <1>1, <1>3, VoteTypes DEF VoteInv, VoteTyped, TypeOK, chainVars, flagVars, historyVars, BoundsKept
  <1>5. CallsOK'
    BY <1>1, <1>3 DEF VoteInv, CallsOK, CallOK, HasData, historyVars
  <1>6. FlagsOK'
    <2>1. ASSUME NEW range \in busy' PROVE \E p \in Requests : req'[p].at = "fetch" /\ req'[p].range = range
      <3>1. range \in busy /\ range # req[q].range
        BY <1>1, <2>1
      <3>2. PICK p \in Requests : req[p].at = "fetch" /\ req[p].range = range
        BY <3>1 DEF VoteInv, FlagsOK, FlagsHeld
      <3> QED BY <1>3, <3>1, <3>2
    <2> QED BY <1>1, <2>1 DEF VoteInv, FlagsOK, LocksOK, FlagsHeld, InFlight, flagVars
  <1>7. RangesOK'
    <2>0. (\A h : HasData(h)' = HasData(h)) /\ (\A h : InFlight(h)' = InFlight(h))
          /\ given' = given
      BY <1>1 DEF HasData, InFlight, historyVars
    <2>1. ASSUME NEW r \in remembered'
          PROVE  r \in [range : Nat \X Int, seen : Heights] /\ Known(r.range, r.seen, {})'
      <3>1. CASE r \in remembered
        BY <2>0, <3>1 DEF VoteInv, RangesOK, Known
      <3>2. CASE r = [range |-> req[q].range, seen |-> req[q].seen]
        <4>1. Known(req[q].range, req[q].seen, {})
          BY <1>1 DEF VoteInv, RangesOK
        <4>2. r.range = req[q].range /\ r.seen = req[q].seen
          BY <3>2
        <4> QED BY <1>2, <2>0, <3>2, <4>1, <4>2 DEF Known, ReqType
      <3> QED BY <1>1, <3>1, <3>2
    <2>2. ASSUME NEW p \in Requests, req'[p].at = "fetch"
          PROVE  Known(req[p].range, req[p].seen, req[p].missing)'
      <3>1. p # q /\ req'[p] = req[p]
        BY <1>3, <2>2
      <3> QED BY <2>0, <2>2, <3>1 DEF VoteInv, RangesOK, Known
    <2> QED BY <2>1, <2>2 DEF RangesOK
  <1> QED BY <1>4, <1>5, <1>6, <1>7 DEF VoteInv

-----------------------------------------------------------------------------
\* A batch: each of its heights is entered, or has data, or another call runs.
LEMMA BatchFits == \A hs : Batch(hs) \subseteq hs
  BY DEF Batch

LEMMA BatchStarts ==
    ASSUME VoteInv, NEW q \in Requests, NEW hs \in SUBSET Heights,
           \A h \in Heights : call[q][h].at = "none", StartBatch(q, hs),
           UNCHANGED <<cached, given>>
    PROVE  /\ call' \in [Requests -> [Heights -> CallType]] /\ locks' \subseteq Heights \X (0..MaxRetries)
           /\ processing' \subseteq Heights /\ twice' \subseteq Heights
           /\ \A p \in Requests \ {q} : call'[p] = call[p]
           /\ \A p \in Requests : \A h \in Heights : CallOK(h, call[p][h])'
           /\ \A p, r \in Requests : \A h \in Heights :
                call'[p][h].at # "none" /\ call'[r][h].at # "none" => p = r \/ h \in twice'
           /\ LocksOK' /\ (\A h \in processing' : InFlight(h)')
           /\ \A h \in Heights : InFlight(h) => InFlight(h)'
           /\ \A h \in Batch(hs) : (HasData(h) \/ InFlight(h))'
  <1> DEFINE batch == Batch(hs)
             in == {h \in batch : Enters(h, 0, locks)}
  <1>1. /\ locks' = locks \cup {<<h, 0>> : h \in in} /\ processing' = processing \cup in
        /\ call' = [call EXCEPT ![q] = [h \in Heights |-> IF h \in in THEN Entered(h, 0) ELSE NoCall]]
        /\ twice' = twice \cup {h \in in : InFlight(h)}
    BY DEF StartBatch
  <1>2. in \subseteq Heights /\ in \subseteq batch /\ (\A h \in in : ~HasData(h))
        /\ \A h \in batch \ in : HasData(h) \/ <<h, 0>> \in locks
    BY BatchFits DEF Enters
  <1>3. 0 \in 0..MaxRetries /\ call \in [Requests -> [Heights -> CallType]]
    BY VoteTypes, FinalityAssumption DEF FinalityAssumption
  <1>4. /\ NoCall \in CallType /\ NoCall.at = "none"
        /\ \A h : Entered(h, 0) \in CallType /\ Entered(h, 0).at = "height" /\ Entered(h, 0).try = 0
    BY <1>3 DEF NoCall, Entered, CallType
  <1>5. \A h \in batch : h \in Heights
    BY BatchFits
  <1> HIDE DEF in, batch
  <1>6. /\ call' \in [Requests -> [Heights -> CallType]] /\ \A p \in Requests \ {q} : call'[p] = call[p]
        /\ \A h \in Heights : call'[q][h] = IF h \in in THEN Entered(h, 0) ELSE NoCall
    BY <1>1, <1>3, <1>4
  <1>7. /\ locks' \subseteq Heights \X (0..MaxRetries) /\ processing' \subseteq Heights /\ twice' \subseteq Heights
    BY <1>1, <1>2, <1>3, VoteTypes
  <1>8. (\A h : HasData(h)' = HasData(h)) /\ twice \subseteq twice' /\ given' = given
    BY <1>1 DEF HasData
  <1>9. ASSUME NEW p \in Requests, NEW h \in Heights PROVE CallOK(h, call[p][h])'
    <2>1. CallOK(h, call[p][h])
      BY DEF VoteInv, CallsOK
    <2>2. CASE p # q
      BY <1>6, <1>8, <2>1, <2>2 DEF CallOK
    <2>3. CASE p = q
      BY <1>2, <1>4, <1>6, <1>8, <2>3 DEF CallOK
    <2> QED BY <2>2, <2>3
  <1>10. ASSUME NEW p \in Requests, NEW r \in Requests, NEW h \in Heights, p # r,
                call'[p][h].at # "none", call'[r][h].at # "none"
         PROVE  h \in twice'
    <2>1. CASE p # q /\ r # q
      BY <1>6, <1>8, <1>10, <2>1 DEF VoteInv, CallsOK
    <2>2. CASE p = q \/ r = q
      <3>1. h \in in /\ InFlight(h)
        BY <1>4, <1>6, <1>10, <2>2 DEF InFlight
      <3> QED BY <1>1, <3>1
    <2> QED BY <2>1, <2>2
  <1>11. ASSUME NEW h \in Heights, InFlight(h) PROVE InFlight(h)'
    BY <1>6, <1>11 DEF InFlight
  <1>12. \A h \in in : call'[q][h].at = "height" /\ call'[q][h].try = 0 /\ InFlight(h)'
    BY <1>2, <1>4, <1>6 DEF InFlight
  <1>13. LocksOK'
    <2> SUFFICES ASSUME NEW l \in locks'
                 PROVE  \E p \in Requests : call'[p][l[1]].at \in Active /\ call'[p][l[1]].try = l[2]
      BY DEF LocksOK
    <2>1. CASE l \in locks
      <3>1. PICK p \in Requests : call[p][l[1]].at \in Active /\ call[p][l[1]].try = l[2]
        BY <2>1 DEF VoteInv, FlagsOK, LocksOK
      <3>2. l[1] \in Heights
        BY <2>1, VoteTypes
      <3>3. p # q
        BY <3>1, <3>2 DEF Active
      <3> QED BY <1>6, <3>1, <3>3
    <2>2. CASE \E h \in in : l = <<h, 0>>
      <3>1. PICK h \in in : l = <<h, 0>>
        BY <2>2
      <3>2. l[1] = h /\ l[2] = 0
        BY <3>1
      <3> QED BY <1>12, <3>1, <3>2 DEF Active
    <2> QED BY <1>1, <2>1, <2>2
  <1>14. \A h \in processing' : InFlight(h)'
    <2>1. \A h \in processing : h \in Heights /\ InFlight(h)
      BY VoteTypes DEF VoteInv, FlagsOK, FlagsHeld
    <2> QED BY <1>1, <1>11, <1>12, <2>1
  <1>15. \A h \in batch : (HasData(h) \/ InFlight(h))'
    <2> SUFFICES ASSUME NEW h \in batch, h \notin in, ~HasData(h) PROVE InFlight(h)'
      BY <1>8, <1>12
    <2>1. <<h, 0>> \in locks /\ h \in Heights
      BY <1>2, <1>5
    <2>2. PICK p \in Requests : call[p][<<h, 0>>[1]].at \in Active
      BY <2>1 DEF VoteInv, FlagsOK, LocksOK
    <2>3. call[p][h].at # "none"
      BY <2>2 DEF Active
    <2>4. InFlight(h)
      BY <2>3 DEF InFlight
    <2> QED BY <1>11, <2>1, <2>4
  <1> QED BY <1>6, <1>7, <1>9, <1>10, <1>11, <1>13, <1>14, <1>15 DEF batch

LEMMA NextBatchKeeps ==
    ASSUME VoteInv, NEW q \in Requests, NextBatch(q)
    PROVE  VoteInv'
  <1> DEFINE hs == req[q].missing
  <1>1. /\ req[q].at = "fetch" /\ (\A h \in Heights : call[q][h].at = "none")
        /\ StartBatch(q, hs) /\ req' = [req EXCEPT ![q].missing = @ \ Batch(@)] /\ BoundsKept
        /\ UNCHANGED <<chainVars, cached, redis, unread, rangeVars, given>>
    BY BoundsAreKept DEF NextBatch, BatchDone
  <1>2. req \in [Requests -> ReqType] /\ req[q] \in ReqType /\ hs \in SUBSET Heights
    BY VoteTypes DEF ReqType
  <1>3. /\ req' \in [Requests -> ReqType] /\ req'[q] = [req[q] EXCEPT !.missing = hs \ Batch(hs)]
        /\ \A p \in Requests : p # q => req'[p] = req[p]
    BY <1>1, <1>2 DEF ReqType
  <1>4. /\ req'[q].at = "fetch" /\ req'[q].range = req[q].range /\ req'[q].seen = req[q].seen
        /\ req'[q].missing = hs \ Batch(hs)
    BY <1>1, <1>2, <1>3 DEF ReqType
  <1>5. UNCHANGED <<cached, given>>
    BY <1>1
  <1> HIDE DEF hs
  <1>6. /\ call' \in [Requests -> [Heights -> CallType]] /\ locks' \subseteq Heights \X (0..MaxRetries)
        /\ processing' \subseteq Heights /\ twice' \subseteq Heights
        /\ \A p \in Requests \ {q} : call'[p] = call[p]
        /\ \A p \in Requests : \A h \in Heights : CallOK(h, call[p][h])'
        /\ \A p, r \in Requests : \A h \in Heights :
             call'[p][h].at # "none" /\ call'[r][h].at # "none" => p = r \/ h \in twice'
        /\ LocksOK' /\ (\A h \in processing' : InFlight(h)')
        /\ \A h \in Heights : InFlight(h) => InFlight(h)'
        /\ \A h \in Batch(hs) : (HasData(h) \/ InFlight(h))'
    BY <1>1, <1>2, <1>5, BatchStarts
  <1>7. VoteTyped'
    <2>1. TypeOK'
      BY <1>1, <1>6, VoteTypes DEF TypeOK, chainVars, BoundsKept, CallType
    <2> QED BY <1>1, <1>3, <2>1, VoteTypes DEF VoteTyped
  <1>8. CallsOK'
    BY <1>1, <1>3, <1>4, <1>6 DEF VoteInv, CallsOK
  <1>9. FlagsHeld'
    <2>1. \A l \in locks' : \E p \in Requests : call'[p][l[1]].at # "none" /\ call'[p][l[1]].try = l[2]
      BY <1>6 DEF LocksOK, Active
    <2>2. ASSUME NEW range \in busy' PROVE \E p \in Requests : req'[p].at = "fetch" /\ req'[p].range = range
      <3>1. PICK p \in Requests : req[p].at = "fetch" /\ req[p].range = range
        BY <1>1, <2>2 DEF VoteInv, FlagsOK, FlagsHeld, rangeVars
      <3> QED BY <1>3, <1>4, <3>1
    <2> QED BY <1>6, <2>1, <2>2 DEF FlagsHeld
  <1>10. RangesOK'
    <2>0. (\A h : HasData(h)' = HasData(h)) /\ given' = given
      BY <1>1 DEF HasData
    <2>1. ASSUME NEW range \in Nat \X Int, NEW seen \in Heights, NEW yet, NEW rest, Known(range, seen, yet),
                 yet \ Batch(hs) \subseteq rest
          PROVE  Known(range, seen, rest)'
      <3> SUFFICES ASSUME NEW h \in range[1]..range[2], h + 2 < seen
                   PROVE  (HasData(h) \/ InFlight(h) \/ h \in given)' \/ h \in rest
        BY DEF Known
      <3>1. h \in Heights
        BY FinalityAssumption DEF FinalityAssumption, Heights
      <3>2. HasData(h) \/ InFlight(h) \/ h \in given \/ h \in yet
        BY <2>1 DEF Known
      <3> QED BY <1>6, <2>0, <2>1, <3>1, <3>2
    <2>2. \A r \in remembered : r \in [range : Nat \X Int, seen : Heights] /\ Known(r.range, r.seen, {})
      BY DEF VoteInv, RangesOK
    <2>3. ASSUME NEW r \in remembered' PROVE r \in [range : Nat \X Int, seen : Heights] /\ Known(r.range, r.seen, {})'
      <3>1. r \in remembered
        BY <1>1, <2>3 DEF rangeVars
      <3> QED BY <2>1, <2>2, <3>1
    <2>4. ASSUME NEW p \in Requests, req'[p].at = "fetch"
          PROVE  Known(req[p].range, req[p].seen, req[p].missing)'
      <3>1. req[p] \in ReqType /\ req[p].at = "fetch"
        BY <1>1, <1>3, <2>4, VoteTypes
      <3>2. PICK range, seen, yet, rest :
                /\ range = req[p].range /\ seen = req[p].seen /\ yet = req[p].missing /\ rest = req'[p].missing
        OBVIOUS
      <3>3. range \in Nat \X Int /\ seen \in Heights /\ Known(range, seen, yet)
        BY <3>1, <3>2 DEF VoteInv, RangesOK, ReqType
      <3>4. /\ yet \ Batch(hs) \subseteq rest /\ range = req'[p].range /\ seen = req'[p].seen
        BY <1>3, <1>4, <3>2 DEF hs
      <3>5. Known(range, seen, rest)'
        BY <2>1, <3>3, <3>4
      <3> QED BY <3>2, <3>4, <3>5 DEF Known
    <2> QED BY <2>3, <2>4 DEF RangesOK
  <1> QED BY <1>6, <1>7, <1>8, <1>9, <1>10 DEF VoteInv, FlagsOK

-----------------------------------------------------------------------------
\* A new request: the range it asks for, and what it finds to fetch.
LEMMA MinMaxOfTwo ==
    ASSUME NEW a \in Int, NEW b \in Int
    PROVE  /\ Max({a, b}) \in Int /\ Max({a, b}) >= a /\ Max({a, b}) >= b
           /\ Min({a, b}) \in Int
  <1>1. (\E x \in {a, b} : \A y \in {a, b} : x >= y) /\ (\E x \in {a, b} : \A y \in {a, b} : x =< y)
    OBVIOUS
  <1>2. Max({a, b}) \in {a, b} /\ \A y \in {a, b} : Max({a, b}) >= y
    BY <1>1 DEF Max
  <1>3. Min({a, b}) \in {a, b}
    BY <1>1 DEF Min
  <1> QED BY <1>2, <1>3

LEMMA SpanTyped ==
    ASSUME tip \in Nat, NEW ask \in Nat \X Nat
    PROVE  Span(ask) \in Nat \X Int
  <1> DEFINE end == IF ask[2] = 0 THEN tip - 2 ELSE Min({ask[2], tip - 2})
             first == IF ask[1] = 0 THEN end - LastN + 1 ELSE ask[1]
             start == Max({1, first})
             from == Max({start, end - LastN + 1})
  <1>1. LastN \in Nat \ {0} /\ ask[1] \in Nat /\ ask[2] \in Nat /\ tip - 2 \in Int
    BY FinalityAssumption DEF FinalityAssumption
  <1>2. end \in Int
    BY <1>1, MinMaxOfTwo
  <1> HIDE DEF end
  <1>3. first \in Int /\ end - LastN + 1 \in Int
    BY <1>1, <1>2
  <1> HIDE DEF first
  <1>4. start \in Int /\ start >= 1
    BY <1>3, MinMaxOfTwo
  <1> HIDE DEF start
  <1>5. from \in Int /\ from >= start
    BY <1>3, <1>4, MinMaxOfTwo
  <1>6. from \in Nat
    BY <1>4, <1>5
  <1> HIDE DEF from
  <1>7. from \div LastN \in Nat /\ (end + LastN - 1) \div LastN \in Int
    BY <1>1, <1>2, <1>6
  <1>8. LastN * (from \div LastN) \in Nat /\ Ceiling(end) \in Int
    BY <1>1, <1>7 DEF Ceiling
  <1>9. Span(ask) = <<LastN * (from \div LastN), Ceiling(end)>>
    BY DEF Span, end, first, start, from
  <1> QED BY <1>8, <1>9

LEMMA AskKeeps ==
    ASSUME VoteInv, NEW q \in Requests, NEW ask \in scene.asks, Ask(q, ask)
    PROVE  VoteInv'
  <1>1. /\ req[q].at = "none" /\ BoundsKept
        /\ UNCHANGED <<chainVars, cached, redis, unread, remembered, given>>
    BY BoundsAreKept DEF Ask
  <1>2. req \in [Requests -> ReqType] /\ req[q] \in ReqType /\ tip \in Heights /\ tip \in Nat
    BY VoteTypes, FinalityAssumption DEF Heights, FinalityAssumption
  <1>3. ask \in Nat \X Nat
    BY VoteTypes, FinalityAssumption DEF FinalityAssumption
  <1>4. PICK range : range = Span(ask)
    OBVIOUS
  <1>5. range \in Nat \X Int
    BY <1>2, <1>3, <1>4, SpanTyped
  <1>6. CASE range \in busy \/ \E r \in remembered : r.range = range
    <2>1. /\ req' = [req EXCEPT ![q] = [NoReq EXCEPT !.at = "stats"]]
          /\ UNCHANGED <<flagVars, busy, call, twice>>
      BY <1>4, <1>6 DEF Ask
    <2>2. [NoReq EXCEPT !.at = "stats"] \in ReqType /\ [NoReq EXCEPT !.at = "stats"].at # "fetch"
      BY NoReqTyped DEF ReqType
    <2>3. UNCHANGED <<chainVars, cached, redis, unread, flagVars, rangeVars, call, historyVars>>
      BY <1>1, <2>1 DEF rangeVars, historyVars
    <2>4. req[q].at # "fetch"
      BY <1>1
    <2> QED BY <1>1, <2>1, <2>2, <2>3, <2>4, AnswerKeeps
  <1>7. CASE ~(range \in busy \/ \E r \in remembered : r.range = range)
    <2>1. PICK hs : hs = Missing(range)
      OBVIOUS
    <2>2. /\ busy' = busy \cup {range} /\ StartBatch(q, hs)
          /\ req' = [req EXCEPT ![q] = [at |-> "fetch", range |-> range, seen |-> tip, missing |-> hs \ Batch(hs)]]
      BY <1>4, <1>7, <2>1 DEF Ask
    <2>3. /\ hs \in SUBSET Heights /\ hs \ Batch(hs) \in SUBSET Heights
          /\ \A h \in Heights \ hs : range[1] <= h /\ h <= range[2] => HasData(h) \/ h \in processing \/ tip <= h + 2
      BY <1>2, <2>1 DEF Missing, Heights
    <2>4. PICK r : r = [at |-> "fetch", range |-> range, seen |-> tip, missing |-> hs \ Batch(hs)]
      OBVIOUS
    <2>5. r \in ReqType /\ r.at = "fetch" /\ r.range = range /\ r.seen = tip /\ r.missing = hs \ Batch(hs)
      BY <1>2, <1>5, <2>3, <2>4 DEF ReqType
    <2>6. /\ req' \in [Requests -> ReqType] /\ req'[q] = r
          /\ \A p \in Requests : p # q => req'[p] = req[p]
      BY <1>2, <2>2, <2>4, <2>5
    <2>7. UNCHANGED <<cached, given>> /\ \A h \in Heights : call[q][h].at = "none"
      BY <1>1 DEF VoteInv, CallsOK
    <2>8. /\ call' \in [Requests -> [Heights -> CallType]] /\ locks' \subseteq Heights \X (0..MaxRetries)
          /\ processing' \subseteq Heights /\ twice' \subseteq Heights
          /\ \A p \in Requests \ {q} : call'[p] = call[p]
          /\ \A p \in Requests : \A h \in Heights : CallOK(h, call[p][h])'
          /\ \A p, s \in Requests : \A h \in Heights :
               call'[p][h].at # "none" /\ call'[s][h].at # "none" => p = s \/ h \in twice'
          /\ LocksOK' /\ (\A h \in processing' : InFlight(h)')
          /\ \A h \in Heights : InFlight(h) => InFlight(h)'
          /\ \A h \in Batch(hs) : (HasData(h) \/ InFlight(h))'
      BY <2>2, <2>3, <2>7, BatchStarts
    <2>9. VoteTyped'
      <3>1. TypeOK'
        BY <1>1, <2>8, VoteTypes DEF TypeOK, chainVars, BoundsKept, CallType
      <3> QED BY <1>1, <2>6, <3>1, VoteTypes DEF VoteTyped
    <2>10. CallsOK'
      <3>1. ASSUME NEW p \in Requests, req'[p].at # "fetch", NEW h \in Heights PROVE call'[p][h].at = "none"
        <4>1. p # q /\ req[p].at # "fetch"
          BY <2>5, <2>6, <3>1
        <4> QED BY <2>8, <4>1 DEF VoteInv, CallsOK
      <3> QED BY <2>8, <3>1 DEF CallsOK
    <2>11. FlagsHeld'
      <3>1. \A l \in locks' : \E p \in Requests : call'[p][l[1]].at # "none" /\ call'[p][l[1]].try = l[2]
        BY <2>8 DEF LocksOK, Active
      <3>2. ASSUME NEW b \in busy' PROVE \E p \in Requests : req'[p].at = "fetch" /\ req'[p].range = b
        <4>1. CASE b \in busy
          <5>1. PICK p \in Requests : req[p].at = "fetch" /\ req[p].range = b
            BY <4>1 DEF VoteInv, FlagsOK, FlagsHeld
          <5>2. p # q
            BY <1>1, <5>1
          <5> QED BY <2>6, <5>1, <5>2
        <4>2. CASE b = range
          BY <2>5, <2>6, <4>2
        <4> QED BY <2>2, <3>2, <4>1, <4>2
      <3> QED BY <2>8, <3>1, <3>2 DEF FlagsHeld
    <2>12. RangesOK'
      <3>0. (\A h : HasData(h)' = HasData(h)) /\ given' = given
        BY <2>7 DEF HasData
      <3>1. \A h \in Heights : HasData(h) \/ InFlight(h) \/ h \in given
                                 => (HasData(h) \/ InFlight(h) \/ h \in given)'
        BY <2>8, <3>0
      <3>2. ASSUME NEW g \in Nat \X Int, NEW seen \in Heights, NEW yet, Known(g, seen, yet)
            PROVE  Known(g, seen, yet)'
        <4> SUFFICES ASSUME NEW h \in g[1]..g[2], h + 2 < seen
                     PROVE  (HasData(h) \/ InFlight(h) \/ h \in given)' \/ h \in yet
          BY DEF Known
        <4>1. h \in Heights
          BY FinalityAssumption DEF FinalityAssumption, Heights
        <4> QED BY <3>1, <3>2, <4>1 DEF Known
      <3>3. \A s \in remembered : s \in [range : Nat \X Int, seen : Heights] /\ Known(s.range, s.seen, {})
        BY DEF VoteInv, RangesOK
      <3>4. ASSUME NEW s \in remembered' PROVE s \in [range : Nat \X Int, seen : Heights] /\ Known(s.range, s.seen, {})'
        <4>1. s \in remembered
          BY <1>1, <3>4
        <4> QED BY <3>2, <3>3, <4>1
      <3>5. Known(range, tip, hs \ Batch(hs))'
        <4> SUFFICES ASSUME NEW h \in range[1]..range[2], h + 2 < tip
                     PROVE  (HasData(h) \/ InFlight(h) \/ h \in given)' \/ h \in hs \ Batch(hs)
          BY <1>1 DEF Known, chainVars
        <4>1. h \in Heights
          BY <1>2, <1>5, FinalityAssumption DEF FinalityAssumption, Heights
        <4>2. range[1] <= h /\ h <= range[2] /\ ~(tip <= h + 2)
          BY <1>2, <1>5, <4>1 DEF Heights
        <4>3. CASE h \in hs
          BY <2>8, <4>3
        <4>4. CASE h \notin hs
          <5>1. HasData(h) \/ h \in processing
            BY <2>3, <4>1, <4>2, <4>4
          <5>2. HasData(h) \/ InFlight(h)
            BY <5>1 DEF VoteInv, FlagsOK, FlagsHeld
          <5> QED BY <3>1, <4>1, <5>2
        <4> QED BY <4>3, <4>4
      <3>6. ASSUME NEW p \in Requests, req'[p].at = "fetch"
            PROVE  Known(req[p].range, req[p].seen, req[p].missing)'
        <4>1. CASE p = q
          BY <1>1, <2>5, <2>6, <3>5, <4>1 DEF Known, chainVars
        <4>2. CASE p # q
          <5>1. req'[p] = req[p] /\ req[p] \in ReqType
            BY <1>2, <2>6, <4>2
          <5>2. PICK g, seen, yet : g = req[p].range /\ seen = req[p].seen /\ yet = req[p].missing
            OBVIOUS
          <5>3. g \in Nat \X Int /\ seen \in Heights /\ Known(g, seen, yet)
            BY <3>6, <5>1, <5>2 DEF VoteInv, RangesOK, ReqType
          <5>4. Known(g, seen, yet)'
            BY <3>2, <5>3
          <5> QED BY <5>1, <5>2, <5>4 DEF Known
        <4> QED BY <4>1, <4>2
      <3> QED BY <3>4, <3>6 DEF RangesOK
    <2> QED BY <2>8, <2>9, <2>10, <2>11, <2>12 DEF VoteInv, FlagsOK
  <1> QED BY <1>6, <1>7

LEMMA AnsweredKeeps ==
    ASSUME VoteInv, NEW q \in Requests, Answer(q)
    PROVE  VoteInv'
  <1>1. /\ req[q].at # "fetch" /\ req' = [req EXCEPT ![q] = NoReq] /\ BoundsKept
        /\ UNCHANGED <<chainVars, cached, redis, unread, flagVars, rangeVars, call, historyVars>>
    BY BoundsAreKept DEF Answer
  <1>2. NoReq \in ReqType /\ NoReq.at # "fetch"
    BY NoReqTyped DEF NoReq
  <1> HIDE DEF NoReq
  <1> QED BY <1>1, <1>2, AnswerKeeps

-----------------------------------------------------------------------------
\* The whole component.
LEMMA NothingRuns ==
    ASSUME req = [q \in Requests |-> NoReq], call = NoCalls, locks = {}, processing = {}, busy = {},
           remembered = {}
    PROVE  CallsOK /\ FlagsOK /\ RangesOK /\ req \in [Requests -> ReqType]
  <1>1. /\ \A q \in Requests : req[q].at = "none"
        /\ \A q \in Requests : \A h \in Heights : call[q][h].at = "none"
    BY DEF NoReq, NoCalls, NoCall
  <1>2. CallsOK /\ FlagsOK /\ RangesOK
    BY <1>1 DEF CallsOK, CallOK, FlagsOK, LocksOK, FlagsHeld, RangesOK
  <1> QED BY <1>2, NoReqTyped

LEMMA NoCallsTyped == NoCalls \in [Requests -> [Heights -> CallType]]
  <1>1. NoCall \in CallType
    BY FinalityAssumption DEF NoCall, CallType, FinalityAssumption
  <1> QED BY <1>1 DEF NoCalls

LEMMA VoteStarts ==
    ASSUME Init
    PROVE  VoteInv
  <1>1. /\ scene \in Scenes /\ faults = scene.faults /\ scene.faults \in Nat /\ tip \in Heights
        /\ \A h \in unread : redis[h] # {}
    BY FinalityAssumption DEF Init, FinalityAssumption, Heights
  <1>2. CallsOK /\ FlagsOK /\ RangesOK /\ req \in [Requests -> ReqType]
    BY NothingRuns DEF Init
  <1>3. TypeOK
    BY <1>1, NoCallsTyped DEF Init, TypeOK, CallType
  <1> QED BY <1>1, <1>2, <1>3 DEF VoteInv, VoteTyped

LEMMA RestartKeeps ==
    ASSUME VoteInv, Restart
    PROVE  VoteInv'
  <1>1. /\ BoundsKept /\ cached' = [h \in Heights |-> {}] /\ unread' = {h \in Heights : redis[h] # {}}
        /\ given' = {} /\ twice' = {} /\ UNCHANGED <<chainVars, redis>>
    BY BoundsAreKept DEF Restart
  <1>2. /\ locks' = {} /\ processing' = {} /\ busy' = {} /\ remembered' = {}
        /\ req' = [q \in Requests |-> NoReq] /\ call' = NoCalls
    BY DEF Restart
  <1>3. NoCalls' = NoCalls /\ [q \in Requests |-> NoReq]' = [q \in Requests |-> NoReq]
    BY DEF NoCalls, NoReq
  <1>4. /\ \A q \in Requests : req'[q].at = "none"
        /\ \A q \in Requests : \A h \in Heights : call'[q][h].at = "none"
    BY <1>2 DEF NoReq, NoCalls, NoCall
  <1>5. CallsOK' /\ FlagsOK' /\ RangesOK'
    BY <1>2, <1>4 DEF CallsOK, CallOK, FlagsOK, LocksOK, FlagsHeld, RangesOK
  <1>6. req' \in [Requests -> ReqType] /\ call' \in [Requests -> [Heights -> CallType]]
    BY <1>2, NoReqTyped, NoCallsTyped
  <1>7. TypeOK'
    BY <1>1, <1>2, <1>6, VoteTypes DEF TypeOK, CallType, BoundsKept, chainVars
  <1>8. VoteTyped'
    BY <1>1, <1>6, <1>7 DEF VoteTyped
  <1> QED BY <1>5, <1>8 DEF VoteInv

\* Votes, one step.
LEMMA VoteSteps ==
    ASSUME VoteInv, Works \/ Restart \/ UNCHANGED vars
    PROVE  VoteInv'
  <1>1. CASE Restart
    BY <1>1, RestartKeeps
  <1>2. CASE UNCHANGED vars
    BY <1>2, StutterKeeps
  <1>3. CASE Works
    <2>1. CASE NewBlock \/ \E p \in Providers, h \in Heights : Vote(p, h)
      BY <2>1, ChainKeeps
    <2>2. CASE \E h \in Heights : Load(h)
      BY <2>2, LoadKeeps
    <2>3. CASE \E r \in remembered : ExpireRange(r)
      BY <2>3, ExpireKeeps
    <2>4. ASSUME NEW q \in Requests, \E ask \in scene.asks : Ask(q, ask) PROVE VoteInv'
      BY <2>4, AskKeeps
    <2>5. ASSUME NEW q \in Requests, NEW h \in Heights, CallFails(q, h) \/ CallStep(q, h) PROVE VoteInv'
      BY <2>5, CallFailsKeeps, ReadHeightKeeps, ReadVotesKeeps, TakeVotesKeeps, SaveVotesKeeps, TryAgainKeeps
      DEF CallStep
    <2>6. ASSUME NEW q \in Requests, NextBatch(q) \/ FinishRange(q) \/ Answer(q) PROVE VoteInv'
      BY <2>6, NextBatchKeeps, FinishKeeps, AnsweredKeeps
    <2> QED BY <1>3, <2>1, <2>2, <2>3, <2>4, <2>5, <2>6 DEF Works, Serves
  <1> QED BY <1>1, <1>2, <1>3

\* What the range of a remembered scan promises follows.
LEMMA RangeIsKnown == VoteInv => RangeKnown
  BY DEF VoteInv, RangesOK, Known, RangeKnown

LEMMA CacheIsHeld == VoteInv => CacheHolds
  BY DEF VoteInv, VoteTyped, FlagsOK, CacheHolds

\* The signers of a height, one step.
LEMMA SignersStep ==
    ASSUME VoteInv, Works \/ Restart \/ UNCHANGED vars, NEW h \in Heights, HasData(h)
    PROVE  cached'[h] = cached[h] \/ cached'[h] = {} \/ h \in twice \/ h \in unread
  <1>0. cached \in [Heights -> SUBSET Providers]
    BY VoteTypes
  <1>1. CASE Restart
    BY <1>1 DEF Restart
  <1>2. CASE UNCHANGED cached
    BY <1>2
  <1>3. ASSUME NEW g \in Heights, Load(g) PROVE cached'[h] = cached[h] \/ h \in unread
    BY <1>0, <1>3 DEF Load
  <1>4. ASSUME NEW q \in Requests, NEW g \in Heights, TakeVotes(q, g)
        PROVE  cached'[h] = cached[h] \/ h \in twice
    <2>1. CallOK(g, call[q][g]) /\ call[q][g].at = "taken"
      BY <1>4 DEF VoteInv, CallsOK, TakeVotes
    <2>2. cached' = cached \/ cached' = [cached EXCEPT ![g] = call[q][g].votes]
      BY <1>4 DEF TakeVotes
    <2> QED BY <1>0, <2>1, <2>2 DEF CallOK
  <1>5. ASSUME NEW q \in Requests, NEW g \in Heights, SaveVotes(q, g)
        PROVE  cached'[h] = cached[h] \/ cached'[h] = {}
    BY <1>5 DEF SaveVotes
  <1>6. ASSUME NewBlock \/ (\E p \in Providers, g \in Heights : Vote(p, g)) \/ (\E r \in remembered : ExpireRange(r))
        PROVE  UNCHANGED cached
    BY <1>6 DEF NewBlock, Vote, ExpireRange
  <1>7. ASSUME NEW q \in Requests,
               (\E ask \in scene.asks : Ask(q, ask)) \/ NextBatch(q) \/ FinishRange(q) \/ Answer(q)
        PROVE  UNCHANGED cached
    BY <1>7 DEF Ask, NextBatch, FinishRange, Answer
  <1>8. ASSUME NEW q \in Requests, NEW g \in Heights,
               CallFails(q, g) \/ ReadHeight(q, g) \/ ReadVotes(q, g) \/ TryAgain(q, g)
        PROVE  UNCHANGED cached
    BY <1>8 DEF CallFails, ReadHeight, ReadVotes, TryAgain
  <1>9. CASE Works
    <2>1. CASE NewBlock \/ (\E p \in Providers, g \in Heights : Vote(p, g)) \/ (\E r \in remembered : ExpireRange(r))
      BY <1>2, <1>6, <2>1
    <2>2. CASE \E g \in Heights : Load(g)
      BY <1>3, <2>2
    <2>3. ASSUME NEW q \in Requests, \E ask \in scene.asks : Ask(q, ask)
          PROVE  cached'[h] = cached[h] \/ cached'[h] = {} \/ h \in twice \/ h \in unread
      BY <1>2, <1>7, <2>3
    <2>4. ASSUME NEW q \in Requests, NEW g \in Heights, CallFails(q, g) \/ CallStep(q, g)
          PROVE  cached'[h] = cached[h] \/ cached'[h] = {} \/ h \in twice \/ h \in unread
      BY <1>2, <1>4, <1>5, <1>8, <2>4 DEF CallStep
    <2>5. ASSUME NEW q \in Requests, NextBatch(q) \/ FinishRange(q) \/ Answer(q)
          PROVE  cached'[h] = cached[h] \/ cached'[h] = {} \/ h \in twice \/ h \in unread
      BY <1>2, <1>7, <2>5
    <2> QED BY <1>9, <2>1, <2>2, <2>3, <2>4, <2>5 DEF Works, Serves
  <1>10. CASE UNCHANGED vars
    BY <1>2, <1>10 DEF vars
  <1> QED BY <1>1, <1>9, <1>10


-----------------------------------------------------------------------------
(* Blocks: entries, requests for a block, and pages of them.                 *)

GetPcs == {"idle", "find", "found", "fetch", "save", "saved", "tip", "block", "none", "future", "failed"}
GetType == [pc : GetPcs, key : 0..Top + 1, block : 0..Top, since : Nat, passed : SUBSET BlockHeights,
            due : BOOLEAN, erred : BOOLEAN]
EntryType == [key : 0..Top + 1, block : 0..Top, passed : SUBSET BlockHeights, until : Nat]

\* A block read as the latest one: none above it was stored before the read,
\* and only saves that have passed it have cleared.
LatestOK(block, passed, since) ==
    /\ block \in Held
    /\ \A h \in cleared : h <= block \/ h \in passed
    /\ \A h \in Held : h > block => storedAt[h] >= since

EntryOK(e) ==
    /\ e \in EntryType /\ date < e.until /\ e.until <= date + BlockTTL
    /\ e.key = LatestKey => LatestOK(e.block, e.passed, e.until - BlockTTL - BlockLag)

GetOK(r) ==
    /\ r \in GetType
    /\ r.pc \in {"fetch", "save", "saved", "tip"} => r.key # LatestKey
    /\ r.pc \in {"save", "saved"} => r.key \in BlockHeights /\ r.key <= head
    /\ r.pc = "saved" => r.key \in Held
    /\ r.due => IF r.key = LatestKey THEN Held # {} ELSE r.key <= head
    /\ r.pc \in {"tip", "none", "future"} /\ r.due => r.erred
    /\ r.pc \in {"find", "found"} => r.since <= date /\ date <= r.since + BlockLag
    /\ r.pc = "found" /\ r.key = LatestKey => LatestOK(r.block, r.passed, r.since)

StoresOK ==
    /\ blockScene \in BlockScenes /\ lapses \in 0..blockScene.lapses
    /\ date \in 0..blockScene.upto /\ head \in 0..blockScene.top
    /\ storedAt \in [BlockHeights -> Int] /\ saver \in [BlockHeights -> {"none", "write", "clear"}]
    /\ cleared \subseteq Held
    /\ \A h \in BlockHeights : /\ storedAt[h] \in -1..date /\ (saver[h] = "none" \/ h <= head)
                               /\ saver[h] = "clear" => h \in Held

EntriesOK ==
    /\ \A e \in blockCache : EntryOK(e)
    /\ \A e, d \in blockCache : e.key = d.key => e = d

GetsOK == getter \in [Getters -> GetType] /\ \A q \in Getters : GetOK(getter[q])

\* Of those in S, the ones that page n has.
BlocksAbove(S, h) == Cardinality({g \in S : g > h})
PageOf(S, n) == {h \in S : (n - 1) * BlocksPerPage <= BlocksAbove(S, h) /\ BlocksAbove(S, h) < n * BlocksPerPage}

PageEntryOK(e) ==
    /\ e.key \in Nat \ {0} /\ e.total \subseteq BlockHeights /\ e.seen \subseteq BlockHeights
    /\ e.blocks = PageOf(e.seen, e.key)

ListPcs == {"idle", "count", "list", "listed", "more", "end", "failed"}
ListType == [pc : ListPcs, key : Nat \ {0}, total : SUBSET BlockHeights, seen : SUBSET BlockHeights,
             blocks : SUBSET BlockHeights, since : Nat, given : SUBSET BlockHeights,
             twice : SUBSET BlockHeights, all : SUBSET BlockHeights, last : SUBSET BlockHeights,
             same : BOOLEAN, rising : BOOLEAN, settled : BOOLEAN]

\* What a client was given so far is all there was of the pages it has.
ListedOK(r) ==
    /\ r \in ListType
    /\ r.pc = "listed" => r.blocks = PageOf(r.seen, r.key)
    /\ r.key = 1 => r.given = {}
    /\ r.same => r.twice = {} /\ \A h \in r.given : BlocksAbove(r.last, h) < (r.key - 1) * BlocksPerPage
    /\ r.rising => \A h \in r.all : h \in r.given \/ BlocksAbove(r.last, h) >= (r.key - 1) * BlocksPerPage
    /\ r.pc = "end" /\ r.rising /\ r.settled => r.all \subseteq r.given

ListsOK ==
    /\ \A e \in listCache : PageEntryOK(e)
    /\ \A e, d \in listCache : e.key = d.key => e = d
    /\ lister \in [Listers -> ListType] /\ \A l \in Listers : ListedOK(lister[l])

BlockInv == StoresOK /\ EntriesOK /\ GetsOK /\ ListsOK

LEMMA BlockBoundsTyped ==
    ASSUME StoresOK
    PROVE  /\ Top \in Nat /\ BlocksPerPage \in Nat \ {0} /\ BlockTTL \in Nat \ {0} /\ BlockLag \in Nat \ {0}
           /\ head \in 0..Top /\ blockScene.top \in 0..Top /\ date \in Nat /\ Held \subseteq BlockHeights
           /\ blockScene.asks \subseteq 0..Top + 1 /\ blockScene.lapses \in Nat /\ blockScene.upto \in Nat
           /\ blockScene \in BlockScenes
  BY BlockAssumption DEF BlockAssumption, StoresOK, Held

\* Some heights have a highest one, and Max is it.
LEMMA HighestBlock ==
    ASSUME Top \in Nat, NEW S \in SUBSET BlockHeights, S # {}
    PROVE  Max(S) \in S /\ \A h \in S : h <= Max(S)
  <1> DEFINE T == {Top - h : h \in S}
  <1>1. T \subseteq Nat /\ T # {}
    <2>1. \A h \in S : h \in Nat /\ Top - h \in Nat
      BY DEF BlockHeights
    <2>2. PICK h : h \in S
      OBVIOUS
    <2>3. Top - h \in T
      BY <2>2
    <2> QED BY <2>1, <2>3
  <1>2. PICK n \in T : \A m \in T : n <= m
    <2> HIDE DEF T
    <2> QED BY <1>1, LeastNumber
  <1>3. PICK k \in S : n = Top - k
    OBVIOUS
  <1>4. ASSUME NEW h \in S PROVE k >= h
    <2>1. Top - h \in T
      OBVIOUS
    <2>2. Top - k <= Top - h
      BY <1>2, <1>3, <2>1
    <2> QED BY <2>2 DEF BlockHeights
  <1>5. Max(S) \in S /\ \A h \in S : Max(S) >= h
    BY <1>4 DEF Max
  <1> QED BY <1>5 DEF BlockHeights

\* More blocks above one in a larger set.
LEMMA BlocksAboveGrow ==
    ASSUME Top \in Nat, NEW S \in SUBSET BlockHeights, NEW T \in SUBSET S, NEW h
    PROVE  /\ BlocksAbove(T, h) \in Nat /\ BlocksAbove(S, h) \in Nat /\ BlocksAbove(T, h) <= BlocksAbove(S, h)
           /\ Cardinality(S) \in Nat /\ BlocksAbove(S, h) <= Cardinality(S)
           /\ h \in S => BlocksAbove(S, h) < Cardinality(S)
  <1>1. IsFiniteSet(BlockHeights)
    BY FS_Interval DEF BlockHeights
  <1>2. IsFiniteSet(S)
    BY <1>1, FS_Subset
  <1> DEFINE A == {g \in S : g > h}
             B == {g \in T : g > h}
  <1>3. IsFiniteSet(A) /\ A \subseteq S /\ B \subseteq A
    <2>1. A \subseteq S /\ B \subseteq A
      OBVIOUS
    <2> QED BY <1>2, <2>1, FS_Subset
  <1>4. /\ Cardinality(A) \in Nat /\ Cardinality(B) \in Nat /\ Cardinality(S) \in Nat
        /\ Cardinality(B) <= Cardinality(A) /\ Cardinality(A) <= Cardinality(S)
    <2>1. IsFiniteSet(B)
      BY <1>3, FS_Subset
    <2> HIDE DEF A, B
    <2> QED BY <1>2, <1>3, <2>1, FS_CardinalityType, FS_Subset
  <1>5. h \in S => Cardinality(A) # Cardinality(S)
    <2> SUFFICES ASSUME h \in S, Cardinality(A) = Cardinality(S) PROVE FALSE
      OBVIOUS
    <2>1. h \in BlockHeights /\ ~(h > h)
      BY DEF BlockHeights
    <2>2. A = S
      <3> HIDE DEF A
      <3> QED BY <1>2, <1>3, <2>1, FS_Subset
    <2> QED BY <2>1, <2>2
  <1> QED BY <1>4, <1>5 DEF BlocksAbove

-----------------------------------------------------------------------------
\* What a step may do to the chain and what is stored of it, and what then
\* still holds of an entry and of a request.
Worldwide == <<blockScene, date, head, storedAt, cleared>>

LEMMA HeldStays ==
    ASSUME UNCHANGED storedAt
    PROVE  Held' = Held
  BY DEF Held

LEMMA EntryStays ==
    ASSUME NEW e, EntryOK(e), UNCHANGED Worldwide
    PROVE  EntryOK(e)'
  BY HeldStays DEF EntryOK, LatestOK, Worldwide

LEMMA GetStays ==
    ASSUME NEW r, GetOK(r), UNCHANGED Worldwide
    PROVE  GetOK(r)'
  BY HeldStays DEF GetOK, LatestOK, Worldwide

\* A height is stored: at a date, and above a latest block only after its read.
LEMMA StoredIsHeld ==
    ASSUME StoresOK, NEW h \in BlockHeights, StoresBlock(h)
    PROVE  /\ storedAt' \in [BlockHeights -> Int] /\ Held' = Held \cup {h}
           /\ \A g \in BlockHeights : storedAt'[g] = storedAt[g] \/ (g = h /\ storedAt'[g] = date /\ g \notin Held)
           /\ \A g \in BlockHeights : storedAt'[g] \in -1..date
  <1>1. /\ storedAt \in [BlockHeights -> Int] /\ date \in Nat
        /\ \A g \in BlockHeights : storedAt[g] \in -1..date
    BY BlockBoundsTyped DEF StoresOK
  <1>2. /\ storedAt' \in [BlockHeights -> Int]
        /\ storedAt'[h] = (IF storedAt[h] >= 0 THEN storedAt[h] ELSE date)
        /\ \A g \in BlockHeights : g # h => storedAt'[g] = storedAt[g]
    BY <1>1 DEF StoresBlock
  <1>3. storedAt'[h] >= 0
    BY <1>1, <1>2
  <1>4. Held' = Held \cup {h}
    BY <1>2, <1>3 DEF Held
  <1> QED BY <1>1, <1>2, <1>4 DEF Held

LEMMA LatestIsStored ==
    ASSUME StoresOK, NEW h \in BlockHeights, StoresBlock(h), UNCHANGED cleared,
           NEW block, NEW passed, NEW since \in Int, since <= date, LatestOK(block, passed, since)
    PROVE  LatestOK(block, passed, since)'
  <1>1. date \in Nat
    BY BlockBoundsTyped
  <1>2. ASSUME NEW g \in Held', g > block PROVE storedAt'[g] >= since
    <2>1. g \in BlockHeights
      BY DEF Held
    <2>2. CASE storedAt'[g] = date
      BY <1>1, <2>2
    <2>3. CASE storedAt'[g] = storedAt[g] /\ g \in Held
      BY <1>2, <2>3 DEF LatestOK
    <2> QED BY <1>2, <2>1, <2>2, <2>3, StoredIsHeld DEF Held
  <1> QED BY <1>2, StoredIsHeld DEF LatestOK

LEMMA EntryIsStored ==
    ASSUME StoresOK, NEW h \in BlockHeights, StoresBlock(h), UNCHANGED <<date, cleared>>,
           NEW e, EntryOK(e)
    PROVE  EntryOK(e)'
  <1>1. /\ e.until - BlockTTL - BlockLag \in Int /\ e.until - BlockTTL - BlockLag <= date
    BY BlockBoundsTyped DEF EntryOK, EntryType
  <1> QED BY <1>1, LatestIsStored DEF EntryOK

LEMMA GetIsStored ==
    ASSUME StoresOK, NEW h \in BlockHeights, StoresBlock(h), UNCHANGED <<date, head, cleared>>,
           NEW r, GetOK(r)
    PROVE  GetOK(r)'
  <1>1. r.since \in Int /\ Held \subseteq Held' /\ r \in GetType
    BY StoredIsHeld DEF GetOK, GetType
  <1>2. r.pc = "found" /\ r.key = LatestKey => LatestOK(r.block, r.passed, r.since)'
    BY <1>1, LatestIsStored DEF GetOK
  <1>3. r.due => IF r.key = LatestKey THEN Held' # {} ELSE r.key <= head'
    BY <1>1 DEF GetOK
  <1> QED BY <1>1, <1>2, <1>3 DEF GetOK

\* The save of h has cleared, and has passed a request under way.
LEMMA LatestIsPassed ==
    ASSUME NEW h, UNCHANGED storedAt, cleared' = cleared \cup {h},
           NEW block, NEW passed, NEW since, LatestOK(block, passed, since)
    PROVE  LatestOK(block, passed \cup {h}, since)'
  BY HeldStays DEF LatestOK

LEMMA GetIsPassed ==
    ASSUME NEW h \in BlockHeights, UNCHANGED <<date, head, storedAt>>, cleared' = cleared \cup {h},
           NEW r, GetOK(r), r.pc \in {"find", "found"}
    PROVE  GetOK([r EXCEPT !.passed = @ \cup {h}])'
  <1> DEFINE p == [r EXCEPT !.passed = @ \cup {h}]
  <1>1. /\ r \in GetType /\ p \in GetType
        /\ p.passed = r.passed \cup {h} /\ p.pc = r.pc /\ p.key = r.key /\ p.block = r.block
        /\ p.since = r.since /\ p.due = r.due /\ p.erred = r.erred
    BY DEF GetOK, GetType
  <1>2. r.pc = "found" /\ r.key = LatestKey => LatestOK(r.block, r.passed \cup {h}, r.since)'
    BY LatestIsPassed DEF GetOK
  <1> HIDE DEF p
  <1>3. GetOK(p)'
    BY <1>1, <1>2, HeldStays DEF GetOK
  <1> QED BY <1>3 DEF p

LEMMA OtherGetStays ==
    ASSUME NEW h, UNCHANGED <<date, head, storedAt>>, cleared' = cleared \cup {h},
           NEW r, GetOK(r), r.pc \notin {"find", "found"}
    PROVE  GetOK(r)'
  BY HeldStays DEF GetOK

LEMMA OtherEntryStays ==
    ASSUME NEW h, UNCHANGED <<date, storedAt>>, cleared' = cleared \cup {h},
           NEW e, EntryOK(e), e.key # LatestKey
    PROVE  EntryOK(e)'
  BY DEF EntryOK

\* The chain grows.
LEMMA GetOfLonger ==
    ASSUME StoresOK, head' = head + 1, UNCHANGED <<date, storedAt, cleared>>, NEW r, GetOK(r)
    PROVE  GetOK(r)'
  <1>1. head \in Nat /\ r.key \in Nat /\ r \in GetType
    BY BlockBoundsTyped DEF GetOK, GetType
  <1>2. r.key <= head => r.key <= head'
    BY <1>1
  <1>3. r.pc = "found" /\ r.key = LatestKey => LatestOK(r.block, r.passed, r.since)'
    BY HeldStays DEF GetOK, LatestOK
  <1> QED BY <1>2, <1>3, HeldStays DEF GetOK

\* Time passes, but for what is asked for no longer than it takes.
LEMMA LaterGet ==
    ASSUME StoresOK, date' = date + 1, UNCHANGED <<head, storedAt, cleared>>, NEW r, GetOK(r),
           r.pc \in {"find", "found"} => InTime(r.since)
    PROVE  GetOK(r)'
  <1>1. date \in Nat /\ r.since \in Nat /\ r \in GetType /\ BlockLag \in Nat
    BY BlockBoundsTyped DEF GetOK, GetType
  <1>2. r.pc \in {"find", "found"} => r.since <= date' /\ date' <= r.since + BlockLag
    BY <1>1 DEF GetOK, InTime
  <1>3. r.pc = "found" /\ r.key = LatestKey => LatestOK(r.block, r.passed, r.since)'
    BY HeldStays DEF GetOK, LatestOK
  <1> QED BY <1>2, <1>3, HeldStays DEF GetOK

LEMMA LaterEntry ==
    ASSUME StoresOK, date' = date + 1, UNCHANGED <<storedAt, cleared>>, NEW e, EntryOK(e),
           e.until > date'
    PROVE  EntryOK(e)'
  <1>1. date \in Nat /\ e.until \in Nat /\ BlockTTL \in Nat
    BY BlockBoundsTyped DEF EntryOK, EntryType
  <1>2. date' < e.until /\ e.until <= date' + BlockTTL
    BY <1>1 DEF EntryOK
  <1> QED BY <1>2, HeldStays DEF EntryOK, LatestOK

-----------------------------------------------------------------------------
\* Steps of requests for a block.
LEMMA GetTypes ==
    ASSUME BlockInv, NEW q \in Getters
    PROVE  /\ getter[q] \in GetType /\ GetOK(getter[q]) /\ getter[q].pc \in GetPcs /\ getter[q].key \in 0..Top + 1
           /\ getter[q].block \in 0..Top /\ getter[q].since \in Nat /\ getter[q].passed \subseteq BlockHeights
           /\ getter[q].due \in BOOLEAN /\ getter[q].erred \in BOOLEAN
  BY DEF BlockInv, GetsOK, GetOK, GetType

LEMMA ListsStay ==
    ASSUME ListsOK, UNCHANGED lister, listCache' \subseteq listCache
    PROVE  ListsOK'
  BY DEF ListsOK

LEMMA LapsesStay ==
    ASSUME StoresOK, Lapse \/ UNCHANGED blockBounds
    PROVE  blockScene' = blockScene /\ lapses' \in 0..blockScene.lapses
  BY BlockBoundsTyped DEF Lapse, blockBounds, StoresOK

\* A step that leaves what is stored, and goes on with one request.
LEMMA OneGetGoes ==
    ASSUME BlockInv, NEW q \in Getters, NEW r, Get(q, r), GetOK(r), Lapse \/ UNCHANGED blockBounds,
           UNCHANGED <<date, head, storedAt, saver, cleared, listCache, lister>>,
           \A e \in blockCache' : e \in blockCache \/ EntryOK(e),
           \A e, d \in blockCache' : e.key = d.key => e = d
    PROVE  BlockInv'
  <1>1. blockScene' = blockScene /\ lapses' \in 0..blockScene.lapses
    BY LapsesStay DEF BlockInv
  <1>2. UNCHANGED Worldwide
    BY <1>1 DEF Worldwide
  <1>3. StoresOK'
    BY <1>1, HeldStays DEF BlockInv, StoresOK
  <1>4. EntriesOK'
    BY <1>2, EntryStays DEF BlockInv, EntriesOK
  <1>5. GetsOK'
    <2>1. getter \in [Getters -> GetType] /\ r \in GetType
      BY DEF BlockInv, GetsOK, GetOK
    <2>2. /\ getter' \in [Getters -> GetType] /\ getter'[q] = r
          /\ \A p \in Getters : p # q => getter'[p] = getter[p]
      BY <2>1 DEF Get
    <2>3. \A p \in Getters : GetOK(getter'[p])
      BY <2>2 DEF BlockInv, GetsOK
    <2>4. ASSUME NEW p \in Getters PROVE GetOK(getter[p])'
      <3>1. PICK s : s = getter'[p]
        OBVIOUS
      <3>2. GetOK(s)'
        BY <1>2, <2>3, <3>1, GetStays
      <3> QED BY <3>1, <3>2 DEF GetOK, LatestOK
    <2> QED BY <2>2, <2>4 DEF GetsOK
  <1>6. ListsOK'
    BY ListsStay DEF BlockInv
  <1> QED BY <1>3, <1>4, <1>5, <1>6 DEF BlockInv

LEMMA AskBlockKeeps ==
    ASSUME BlockInv, NEW q \in Getters, NEW key \in blockScene.asks, AskBlock(q, key)
    PROVE  BlockInv'
  <1>0. /\ key \in 0..Top + 1 /\ date \in Nat /\ head \in Nat /\ BlockLag \in Nat /\ Top \in Nat
    BY BlockBoundsTyped DEF BlockInv
  <1>a. PICK due, today : due = (IF key = LatestKey THEN Held # {} ELSE key <= head) /\ today = date
    OBVIOUS
  <1>b. due \in BOOLEAN /\ today \in Nat
    <2>1. CASE key = LatestKey
      BY <1>0, <1>a, <2>1, Zenon
    <2>2. CASE key # LatestKey
      BY <1>0, <1>a, <2>2
    <2> QED BY <2>1, <2>2
  <1> DEFINE r == [NoGet EXCEPT !.pc = "find", !.key = key, !.since = today, !.due = due]
  <1>1. /\ r \in GetType /\ r.pc = "find" /\ r.key = key /\ r.since = date /\ r.due = due
    <2>1. 0 \in 0..Top + 1 /\ 0 \in 0..Top
      BY <1>0
    <2> QED BY <1>0, <1>a, <1>b, <2>1 DEF NoGet, GetType, GetPcs, LatestKey
  <1>2. GetOK(r)
    <2> HIDE DEF r
    <2>1. r.due => IF r.key = LatestKey THEN Held # {} ELSE r.key <= head
      BY <1>a, <1>1
    <2> QED BY <1>0, <1>1, <2>1 DEF GetOK
  <1>3. ASSUME NEW e \in blockCache PROVE GetOK([r EXCEPT !.pc = "block", !.block = e.block])
    <2>1. e.block \in 0..Top
      BY DEF BlockInv, EntriesOK, EntryOK, EntryType
    <2> DEFINE s == [r EXCEPT !.pc = "block", !.block = e.block]
    <2>2. s \in GetType /\ s.pc = "block" /\ s.key = key /\ s.due = r.due
      BY <1>1, <2>1 DEF GetType, GetPcs
    <2> HIDE DEF r, s
    <2>3. GetOK(s)
      BY <1>1, <1>2, <2>2 DEF GetOK
    <2> QED BY <2>3 DEF s
  <1>4. PICK s : Get(q, s) /\ GetOK(s)
    BY <1>a, <1>2, <1>3 DEF AskBlock
  <1>5. /\ UNCHANGED blockBounds /\ UNCHANGED <<date, head, storedAt, saver, cleared, listCache, lister>>
        /\ blockCache' = blockCache
    BY DEF AskBlock
  <1>6. \A e, d \in blockCache' : e.key = d.key => e = d
    BY <1>5 DEF BlockInv, EntriesOK
  <1> QED BY <1>4, <1>5, <1>6, OneGetGoes

\* A step of a request that is not about the cache.
LEMMA GetMovesOn ==
    ASSUME BlockInv, NEW q \in Getters, NEW r, Get(q, r), GetOK(r), Lapse \/ UNCHANGED blockBounds,
           UNCHANGED <<date, head, storedAt, saver, cleared, blockCache, listCache, lister>>
    PROVE  BlockInv'
  <1>1. \A e, d \in blockCache' : e.key = d.key => e = d
    BY DEF BlockInv, EntriesOK
  <1> QED BY <1>1, OneGetGoes

LEMMA FindBlockKeeps ==
    ASSUME BlockInv, NEW q \in Getters, FindBlock(q)
    PROVE  BlockInv'
  <1>1. PICK r : r = getter[q]
    OBVIOUS
  <1>2. /\ r \in GetType /\ GetOK(r) /\ r.pc = "find"
        /\ Top \in Nat /\ Held \in SUBSET BlockHeights /\ date \in Nat
    BY <1>1, GetTypes, BlockBoundsTyped DEF FindBlock, BlockInv
  <1>3. CASE r.key = LatestKey /\ Held = {}
    <2> DEFINE s == [r EXCEPT !.pc = "none"]
    <2>1. Get(q, s)
      BY <1>1, <1>3 DEF FindBlock
    <2>2. s \in GetType /\ s.pc = "none" /\ s.due = r.due /\ s.key = r.key
      BY <1>2 DEF GetType, GetPcs
    <2> HIDE DEF s
    <2>3. GetOK(s)
      BY <1>2, <1>3, <2>2 DEF GetOK
    <2> QED BY <2>1, <2>3, GetMovesOn DEF FindBlock
  <1>4. CASE r.key = LatestKey /\ Held # {}
    <2>0. PICK m : m = Max(Held)
      OBVIOUS
    <2> DEFINE s == [r EXCEPT !.pc = "found", !.block = m]
    <2>1. Get(q, s)
      <3>1. LatestKey \notin Held
        BY <1>2 DEF LatestKey, BlockHeights
      <3> QED BY <1>1, <1>4, <2>0, <3>1 DEF FindBlock
    <2>2. m \in Held /\ (\A h \in Held : h <= m) /\ m \in 0..Top
      <3>1. m \in Held /\ \A h \in Held : h <= m
        BY <1>2, <1>4, <2>0, HighestBlock
      <3> QED BY <1>2, <3>1 DEF BlockHeights
    <2>3. /\ s \in GetType /\ s.pc = "found" /\ s.due = r.due /\ s.key = r.key /\ s.since = r.since
          /\ s.block = m /\ s.passed = r.passed
      BY <1>2, <2>2 DEF GetType, GetPcs
    <2> HIDE DEF s
    <2>4. LatestOK(s.block, s.passed, s.since)
      <3>1. \A h \in Held : ~(h > m)
        <4>1. \A h \in Held : h \in Int
          BY <1>2 DEF BlockHeights
        <4> QED BY <2>2, <4>1
      <3> QED BY <2>2, <2>3, <3>1 DEF LatestOK, BlockInv, StoresOK
    <2>5. GetOK(s)
      BY <1>2, <2>3, <2>4 DEF GetOK
    <2> QED BY <2>1, <2>5, GetMovesOn DEF FindBlock
  <1>5. CASE r.key # LatestKey /\ r.key \in Held
    <2> DEFINE s == [r EXCEPT !.pc = "found", !.block = r.key]
    <2>1. Get(q, s)
      BY <1>1, <1>5 DEF FindBlock
    <2>2. /\ s \in GetType /\ s.pc = "found" /\ s.due = r.due /\ s.key = r.key /\ s.since = r.since
      <3>0. r.key \in BlockHeights
        BY <1>2, <1>5
      <3>1. r.key \in 0..Top
        BY <1>2, <3>0 DEF BlockHeights
      <3> QED BY <1>2, <3>1 DEF GetType, GetPcs
    <2> HIDE DEF s
    <2>3. GetOK(s)
      BY <1>2, <1>5, <2>2 DEF GetOK
    <2> QED BY <2>1, <2>3, GetMovesOn DEF FindBlock
  <1>6. CASE r.key # LatestKey /\ r.key \notin Held
    <2> DEFINE s == [r EXCEPT !.pc = "fetch"]
    <2>1. Get(q, s)
      BY <1>1, <1>6 DEF FindBlock
    <2>2. /\ s \in GetType /\ s.pc = "fetch" /\ s.due = r.due /\ s.key = r.key /\ s.since = r.since
      BY <1>2 DEF GetType, GetPcs
    <2> HIDE DEF s
    <2>3. GetOK(s)
      BY <1>2, <1>6, <2>2 DEF GetOK
    <2> QED BY <2>1, <2>3, GetMovesOn DEF FindBlock
  <1> QED BY <1>3, <1>4, <1>5, <1>6

LEMMA AskTipKeeps ==
    ASSUME BlockInv, NEW q \in Getters, AskTip(q)
    PROVE  BlockInv'
  <1>1. PICK r, pc : r = getter[q] /\ pc = (IF getter[q].key > head THEN "future" ELSE "none")
    OBVIOUS
  <1>2. r \in GetType /\ GetOK(r) /\ r.pc = "tip"
    BY <1>1, GetTypes DEF AskTip
  <1> DEFINE s == [r EXCEPT !.pc = pc]
  <1>3. Get(q, s)
    BY <1>1 DEF AskTip
  <1>4. s \in GetType /\ s.pc \in {"none", "future"} /\ s.due = r.due /\ s.key = r.key /\ s.erred = r.erred
    BY <1>1, <1>2 DEF GetType, GetPcs
  <1> HIDE DEF s
  <1>5. GetOK(s)
    BY <1>2, <1>4 DEF GetOK
  <1> QED BY <1>3, <1>5, GetMovesOn DEF AskTip

LEMMA GetFailsKeeps ==
    ASSUME BlockInv, NEW q \in Getters, GetFails(q)
    PROVE  BlockInv'
  <1>1. PICK r, pc : /\ r = getter[q]
                     /\ pc = (IF getter[q].pc = "tip" \/ getter[q].key = LatestKey THEN "none" ELSE "tip")
    OBVIOUS
  <1>2. r \in GetType /\ GetOK(r)
    BY <1>1, GetTypes
  <1> DEFINE s == [r EXCEPT !.erred = TRUE, !.pc = pc]
  <1>3. Get(q, s) /\ Lapse /\ UNCHANGED <<date, head, storedAt, saver, cleared, blockCache, listCache, lister>>
    BY <1>1 DEF GetFails
  <1>4. s \in GetType /\ s.pc = pc /\ s.due = r.due /\ s.key = r.key /\ s.erred = TRUE
    BY <1>1, <1>2 DEF GetType, GetPcs
  <1>5. pc = "none" \/ (pc = "tip" /\ r.key # LatestKey)
    BY <1>1
  <1> HIDE DEF s
  <1>6. GetOK(s)
    BY <1>2, <1>4, <1>5 DEF GetOK
  <1> QED BY <1>3, <1>6, GetMovesOn

\* What is found is cached.
LEMMA KeepsOne ==
    ASSUME NEW cache, NEW r, \A e, d \in cache : e.key = d.key => e = d
    PROVE  \A e, d \in Keep(cache, r) : e.key = d.key => e = d
  BY DEF Keep

LEMMA CacheFoundKeeps ==
    ASSUME BlockInv, NEW q \in Getters, CacheFound(q)
    PROVE  BlockInv'
  <1>1. PICK r, today : r = getter[q] /\ today = date
    OBVIOUS
  <1>2. r \in GetType /\ GetOK(r) /\ r.pc = "found" /\ today \in Nat /\ BlockTTL \in Nat \ {0} /\ BlockLag \in Nat
    BY <1>1, GetTypes, BlockBoundsTyped DEF CacheFound, BlockInv
  <1> DEFINE s == [r EXCEPT !.pc = "block"]
             x == [key |-> r.key, block |-> r.block, passed |-> r.passed, until |-> today + BlockTTL]
  <1>3. /\ Get(q, s) /\ blockCache' = Keep(blockCache, r) /\ UNCHANGED blockBounds
        /\ UNCHANGED <<date, head, storedAt, saver, cleared, listCache, lister>>
    BY <1>1 DEF CacheFound
  <1>4. s \in GetType /\ s.pc = "block" /\ s.due = r.due /\ s.key = r.key
    BY <1>2 DEF GetType, GetPcs
  <1>5. /\ x \in EntryType /\ x.key = r.key /\ x.block = r.block /\ x.passed = r.passed
        /\ x.until = today + BlockTTL
    BY <1>2 DEF GetType, EntryType
  <1>6. Keep(blockCache, r) \subseteq blockCache \cup {x}
    BY <1>1 DEF Keep
  <1> HIDE DEF s, x
  <1>7. GetOK(s)
    BY <1>2, <1>4 DEF GetOK
  <1>8. EntryOK(x)
    <2>1. r.since \in Nat /\ today <= r.since + BlockLag /\ (r.key = LatestKey => LatestOK(r.block, r.passed, r.since))
      BY <1>1, <1>2 DEF GetOK, GetType
    <2>2. PICK since : since = x.until - BlockTTL - BlockLag
      OBVIOUS
    <2>3. since \in Int /\ since <= r.since
      BY <1>2, <1>5, <2>1, <2>2
    <2>4. r.key = LatestKey => LatestOK(r.block, r.passed, since)
      <3> SUFFICES ASSUME LatestOK(r.block, r.passed, r.since) PROVE LatestOK(r.block, r.passed, since)
        BY <2>1
      <3>1. \A h \in Held : storedAt[h] \in Int
        BY DEF BlockInv, StoresOK, Held
      <3> QED BY <2>1, <2>3, <3>1 DEF LatestOK
    <2> QED BY <1>1, <1>2, <1>5, <2>2, <2>4 DEF EntryOK
  <1>9. \A e, d \in blockCache' : e.key = d.key => e = d
    BY <1>3, KeepsOne DEF BlockInv, EntriesOK
  <1>10. \A e \in blockCache' : e \in blockCache \/ EntryOK(e)
    BY <1>3, <1>6, <1>8
  <1> QED BY <1>3, <1>7, <1>9, <1>10, OneGetGoes

-----------------------------------------------------------------------------
\* Steps that store a block or clear the cache.
LEMMA GetsHold ==
    ASSUME getter' = [p \in Getters |-> getter'[p]],
           \A p \in Getters : \E s : getter'[p] = s /\ GetOK(s)'
    PROVE  GetsOK'
  <1>1. ASSUME NEW p \in Getters PROVE GetOK(getter[p])' /\ getter'[p] \in GetType
    <2>1. PICK s : getter'[p] = s /\ GetOK(s)'
      OBVIOUS
    <2> QED BY <2>1 DEF GetOK, LatestOK
  <1> QED BY <1>1 DEF GetsOK

LEMMA GettersTyped ==
    ASSUME BlockInv
    PROVE  getter \in [Getters -> GetType] /\ \A p \in Getters : GetOK(getter[p])
  BY DEF BlockInv, GetsOK

LEMMA StoresAfter ==
    ASSUME StoresOK, NEW h \in BlockHeights, StoresBlock(h), UNCHANGED <<date, head, cleared>>,
           Lapse \/ UNCHANGED blockBounds, h <= head,
           saver' \in {saver, [saver EXCEPT ![h] = "clear"]}
    PROVE  StoresOK'
  <1>1. blockScene' = blockScene /\ lapses' \in 0..blockScene.lapses
    BY LapsesStay
  <1>2. /\ saver' \in [BlockHeights -> {"none", "write", "clear"}]
        /\ \A g \in BlockHeights : saver'[g] = saver[g] \/ (g = h /\ saver'[g] = "clear")
    BY DEF StoresOK
  <1>3. /\ storedAt' \in [BlockHeights -> Int] /\ Held' = Held \cup {h}
        /\ \A g \in BlockHeights : storedAt'[g] \in -1..date
    BY StoredIsHeld
  <1> QED BY <1>1, <1>2, <1>3 DEF StoresOK

LEMMA StoresKeep ==
    ASSUME BlockInv, NEW h \in BlockHeights, StoresBlock(h), h <= head, UNCHANGED blockBounds,
           saver' \in {saver, [saver EXCEPT ![h] = "clear"]},
           UNCHANGED <<date, head, cleared, blockCache, listCache, lister>>,
           \/ UNCHANGED getter
           \/ \E q \in Getters : \E r : Get(q, r) /\ GetOK(r)'
    PROVE  BlockInv'
  <1>1. StoresOK'
    BY StoresAfter DEF BlockInv
  <1>2. EntriesOK'
    BY EntryIsStored DEF BlockInv, EntriesOK
  <1>3. ListsOK'
    BY ListsStay DEF BlockInv
  <1>4. \A p \in Getters : \A s : s = getter[p] => GetOK(s)'
    BY GetIsStored, GettersTyped DEF BlockInv
  <1>5. GetsOK'
    <2>1. CASE UNCHANGED getter
      BY <1>4, <2>1, GettersTyped, GetsHold
    <2>2. ASSUME NEW q \in Getters, NEW r, Get(q, r), GetOK(r)' PROVE GetsOK'
      <3>1. getter' = [p \in Getters |-> getter'[p]] /\ getter'[q] = r
            /\ \A p \in Getters : p # q => getter'[p] = getter[p]
        BY <2>2, GettersTyped DEF Get
      <3> QED BY <1>4, <2>2, <3>1, GetsHold
    <2> QED BY <2>1, <2>2
  <1> QED BY <1>1, <1>2, <1>3, <1>5 DEF BlockInv

\* A clear of h: what is left of the cache, and what has been passed.
LEMMA ClearKeeps ==
    ASSUME BlockInv, NEW h \in Held, UNCHANGED <<blockBounds, date, head, storedAt, listCache, lister>>,
           saver' \in {saver, [saver EXCEPT ![h] = "none"]}, cleared' = cleared \cup {h},
           \/ blockCache' = ClearedOf(h) /\ getter' = Passes(h)
           \/ \E q \in Getters : \E r, s :
                 /\ blockCache' = Keep(ClearedOf(h), r) /\ r.key # LatestKey /\ r \in GetType
                 /\ getter' = [Passes(h) EXCEPT ![q] = s] /\ GetOK(s)'
    PROVE  BlockInv'
  <1>0. h \in BlockHeights /\ blockScene' = blockScene /\ lapses' \in 0..blockScene.lapses /\ Held' = Held
    BY LapsesStay, HeldStays DEF BlockInv, Held
  <1>1. StoresOK'
    <2>1. saver' \in [BlockHeights -> {"none", "write", "clear"}]
          /\ \A g \in BlockHeights : saver'[g] = saver[g] \/ saver'[g] = "none"
      BY <1>0 DEF BlockInv, StoresOK
    <2> QED BY <1>0, <2>1 DEF BlockInv, StoresOK
  <1>2. \A e \in ClearedOf(h) : e \in blockCache /\ EntryOK(e)'
    BY OtherEntryStays DEF BlockInv, EntriesOK, ClearedOf
  <1>3. \A e, d \in ClearedOf(h) : e.key = d.key => e = d
    BY DEF BlockInv, EntriesOK, ClearedOf
  <1>4. ListsOK'
    BY ListsStay DEF BlockInv
  <1>5. ASSUME NEW p \in Getters PROVE \E s : s = Passes(h)[p] /\ GetOK(s)'
    <2>0. PICK r : r = getter[p]
      OBVIOUS
    <2>1. GetOK(r)
      BY <2>0, GettersTyped
    <2>2. CASE r.pc \in {"find", "found"}
      <3>1. PICK s : s = [r EXCEPT !.passed = @ \cup {h}]
        OBVIOUS
      <3>2. GetOK(s)'
        BY <1>0, <2>1, <2>2, <3>1, GetIsPassed
      <3> QED BY <2>0, <2>2, <3>1, <3>2 DEF Passes
    <2>3. CASE r.pc \notin {"find", "found"}
      <3>1. GetOK(r)'
        BY <2>1, <2>3, OtherGetStays
      <3> QED BY <2>0, <2>3, <3>1 DEF Passes
    <2> QED BY <2>2, <2>3
  <1>6. CASE blockCache' = ClearedOf(h) /\ getter' = Passes(h)
    <2>1. EntriesOK'
      BY <1>2, <1>3, <1>6 DEF EntriesOK
    <2>2. GetsOK'
      <3>1. ASSUME NEW p \in Getters PROVE \E s : getter'[p] = s /\ GetOK(s)'
        BY <1>5, <1>6
      <3> QED BY <1>6, <3>1, GetsHold DEF Passes
    <2> QED BY <1>1, <1>4, <2>1, <2>2 DEF BlockInv
  <1>7. ASSUME NEW q \in Getters, NEW r, NEW s,
               blockCache' = Keep(ClearedOf(h), r), r.key # LatestKey, r \in GetType,
               getter' = [Passes(h) EXCEPT ![q] = s], GetOK(s)'
        PROVE  BlockInv'
    <2>1. EntriesOK'
      <3>1. PICK today : today = date
        OBVIOUS
      <3> DEFINE x == [key |-> r.key, block |-> r.block, passed |-> r.passed, until |-> today + BlockTTL]
      <3>2. today \in Nat /\ BlockTTL \in Nat \ {0}
        BY <3>1, BlockBoundsTyped DEF BlockInv
      <3>3. x \in EntryType /\ x.key # LatestKey /\ x.until = today + BlockTTL
        BY <1>7, <3>2 DEF GetType, EntryType
      <3>4. Keep(ClearedOf(h), r) \subseteq ClearedOf(h) \cup {x}
        BY <3>1 DEF Keep
      <3> HIDE DEF x
      <3>5. EntryOK(x)'
        BY <3>1, <3>2, <3>3 DEF EntryOK
      <3>6. \A e, d \in blockCache' : e.key = d.key => e = d
        BY <1>3, <1>7, KeepsOne
      <3>7. ASSUME NEW e \in blockCache' PROVE EntryOK(e)'
        BY <1>2, <1>7, <3>4, <3>5
      <3> QED BY <3>6, <3>7 DEF EntriesOK
    <2>2. GetsOK'
      <3>1. /\ getter' = [p \in Getters |-> getter'[p]] /\ getter'[q] = s
            /\ \A p \in Getters : p # q => getter'[p] = Passes(h)[p]
        BY <1>7 DEF Passes
      <3>2. ASSUME NEW p \in Getters PROVE \E t : getter'[p] = t /\ GetOK(t)'
        BY <1>5, <1>7, <3>1
      <3> QED BY <3>1, <3>2, GetsHold
    <2> QED BY <1>1, <1>4, <2>1, <2>2 DEF BlockInv
  <1> QED BY <1>6, <1>7

LEMMA SaveBlockKeeps ==
    ASSUME BlockInv, NEW h \in BlockHeights, SaveBlock(h)
    PROVE  BlockInv'
  <1>1. saver \in [BlockHeights -> {"none", "write", "clear"}] /\ (saver[h] # "none" => h <= head)
        /\ (saver[h] = "clear" => h \in Held) /\ UNCHANGED <<date, head, listCache, lister>>
    BY DEF BlockInv, StoresOK, SaveBlock
  <1>2. CASE saver[h] = "write" /\ StoresBlock(h) /\ saver' = [saver EXCEPT ![h] = "clear"]
             /\ UNCHANGED <<blockBounds, cleared, blockCache, getter>>
    BY <1>1, <1>2, StoresKeep
  <1>3. CASE saver[h] = "write" /\ Lapse /\ saver' = [saver EXCEPT ![h] = "none"]
             /\ UNCHANGED <<storedAt, cleared, blockCache, getter>>
    <2>1. blockScene' = blockScene /\ lapses' \in 0..blockScene.lapses /\ Held' = Held
      BY <1>3, LapsesStay, HeldStays DEF BlockInv
    <2>2. UNCHANGED Worldwide
      BY <1>1, <1>3, <2>1 DEF Worldwide
    <2>3. StoresOK'
      <3>1. saver' \in [BlockHeights -> {"none", "write", "clear"}]
            /\ \A g \in BlockHeights : saver'[g] = saver[g] \/ saver'[g] = "none"
        BY <1>1, <1>3
      <3> QED BY <1>1, <1>3, <2>1, <3>1 DEF BlockInv, StoresOK
    <2>4. EntriesOK'
      BY <1>3, <2>2, EntryStays DEF BlockInv, EntriesOK
    <2>5. GetsOK'
      <3>1. ASSUME NEW p \in Getters PROVE \E s : getter'[p] = s /\ GetOK(s)'
        BY <1>3, <2>2, GetStays, GettersTyped
      <3> QED BY <1>3, <3>1, GettersTyped, GetsHold
    <2> QED BY <1>1, <2>3, <2>4, <2>5, ListsStay DEF BlockInv
  <1>4. CASE saver[h] = "clear" /\ saver' = [saver EXCEPT ![h] = "none"]
             /\ blockCache' = ClearedOf(h) /\ getter' = Passes(h) /\ cleared' = cleared \cup {h}
             /\ UNCHANGED <<blockBounds, storedAt>>
    BY <1>1, <1>4, ClearKeeps
  <1> QED BY <1>2, <1>3, <1>4 DEF SaveBlock

LEMMA FetchBlockKeeps ==
    ASSUME BlockInv, NEW q \in Getters, FetchBlock(q)
    PROVE  BlockInv'
  <1>1. PICK r : r = getter[q]
    OBVIOUS
  <1>2. r \in GetType /\ GetOK(r) /\ Top \in Nat /\ head \in 0..Top /\ r.key \in 0..Top + 1
    BY <1>1, GetTypes, BlockBoundsTyped DEF BlockInv
  <1>3. CASE r.pc = "fetch"
    <2>1. PICK pc : pc = IF getter[q].key <= head THEN "save" ELSE "tip"
      OBVIOUS
    <2> DEFINE s == [r EXCEPT !.pc = pc]
    <2>2. Get(q, s) /\ UNCHANGED blockBounds
          /\ UNCHANGED <<date, head, storedAt, saver, cleared, blockCache, listCache, lister>>
      BY <1>1, <1>3, <2>1 DEF FetchBlock
    <2>3. s \in GetType /\ s.pc = pc /\ s.due = r.due /\ s.key = r.key /\ s.erred = r.erred
      BY <1>2, <2>1 DEF GetType, GetPcs
    <2> HIDE DEF s
    <2>4. GetOK(s)
      <3>1. r.key # LatestKey
        BY <1>2, <1>3 DEF GetOK
      <3>2. CASE r.key <= head
        <4>1. r.key \in BlockHeights /\ pc = "save"
          BY <1>1, <1>2, <2>1, <3>1, <3>2 DEF BlockHeights, LatestKey
        <4> QED BY <1>2, <2>3, <3>1, <3>2, <4>1 DEF GetOK
      <3>3. CASE ~(r.key <= head)
        <4>1. pc = "tip" /\ ~r.due
          BY <1>1, <1>2, <2>1, <3>1, <3>3 DEF GetOK
        <4> QED BY <1>2, <2>3, <3>1, <4>1 DEF GetOK
      <3> QED BY <3>2, <3>3
    <2> QED BY <2>2, <2>4, GetMovesOn
  <1>4. CASE r.pc = "save"
    <2> DEFINE s == [r EXCEPT !.pc = "saved", !.block = r.key]
    <2>1. /\ Get(q, s) /\ StoresBlock(r.key)
          /\ UNCHANGED <<blockBounds, date, head, saver, cleared, blockCache, listCache, lister>>
      BY <1>1, <1>4 DEF FetchBlock
    <2>2. r.key \in BlockHeights /\ r.key <= head /\ r.key # LatestKey
      BY <1>2, <1>4 DEF GetOK
    <2>3. /\ s \in GetType /\ s.pc = "saved" /\ s.due = r.due /\ s.key = r.key /\ s.erred = r.erred
          /\ s.block = r.key
      <3>1. r.key \in 0..Top
        BY <1>2, <2>2
      <3> QED BY <1>2, <3>1 DEF GetType, GetPcs
    <2> HIDE DEF s
    <2>4. Held' = Held \cup {r.key} /\ head' = head
      BY <2>1, <2>2, StoredIsHeld DEF BlockInv
    <2>5. GetOK(s)'
      BY <1>2, <1>4, <2>2, <2>3, <2>4 DEF GetOK
    <2>6. saver' \in {saver, [saver EXCEPT ![r.key] = "clear"]}
      BY <2>1
    <2> QED BY <2>1, <2>2, <2>5, <2>6, StoresKeep
  <1> QED BY <1>1, <1>3, <1>4 DEF FetchBlock

LEMMA AnswerFetchedKeeps ==
    ASSUME BlockInv, NEW q \in Getters, AnswerFetched(q)
    PROVE  BlockInv'
  <1>1. PICK r, h : r = getter[q] /\ h = r.key
    OBVIOUS
  <1>2. r \in GetType /\ GetOK(r) /\ r.pc = "saved" /\ h \in Held /\ r.key # LatestKey
    BY <1>1, GetTypes DEF AnswerFetched, GetOK
  <1> DEFINE s == [r EXCEPT !.pc = "block"]
  <1>3. /\ blockCache' = Keep(ClearedOf(h), r) /\ cleared' = cleared \cup {h}
        /\ getter' = [Passes(h) EXCEPT ![q] = s]
        /\ UNCHANGED <<blockBounds, date, head, storedAt, saver, listCache, lister>>
    BY <1>1 DEF AnswerFetched
  <1>4. s \in GetType /\ s.pc = "block" /\ s.due = r.due /\ s.key = r.key
    BY <1>2 DEF GetType, GetPcs
  <1> HIDE DEF s
  <1>5. Held' = Held /\ head' = head
    BY <1>3, HeldStays
  <1>6. GetOK(s)'
    BY <1>2, <1>4, <1>5 DEF GetOK
  <1>7. saver' \in {saver, [saver EXCEPT ![h] = "none"]}
    BY <1>3
  <1> QED BY <1>2, <1>3, <1>6, <1>7, ClearKeeps

LEMMA BlockComesKeeps ==
    ASSUME BlockInv, BlockComes
    PROVE  BlockInv'
  <1>1. /\ head < blockScene.top /\ head' = head + 1 /\ saver' = [saver EXCEPT ![head'] = "write"]
        /\ UNCHANGED <<blockBounds, date, storedAt, cleared, blockCache, listCache, getter, lister>>
    BY DEF BlockComes
  <1>2. /\ head \in Nat /\ blockScene.top \in 0..Top /\ Top \in Nat /\ head' \in BlockHeights
        /\ saver \in [BlockHeights -> {"none", "write", "clear"}]
    BY <1>1, BlockBoundsTyped DEF BlockInv, StoresOK, BlockHeights
  <1>3. blockScene' = blockScene /\ lapses' \in 0..blockScene.lapses /\ Held' = Held
    BY <1>1, LapsesStay, HeldStays DEF BlockInv
  <1>4. StoresOK'
    <2>1. PICK top : top = head'
      OBVIOUS
    <2>2. saver' \in [BlockHeights -> {"none", "write", "clear"}]
          /\ saver'[top] = "write" /\ \A g \in BlockHeights : g # top => saver'[g] = saver[g]
      BY <1>1, <1>2, <2>1
    <2>3. ASSUME NEW g \in BlockHeights
          PROVE  (saver'[g] = "none" \/ g <= head') /\ (saver'[g] = "clear" => g \in Held)
      <3>1. g \in Nat
        BY DEF BlockHeights
      <3>2. (saver[g] = "none" \/ g <= head) /\ (saver[g] = "clear" => g \in Held)
        BY DEF BlockInv, StoresOK
      <3> QED BY <1>1, <1>2, <2>1, <2>2, <3>1, <3>2
    <2>4. head' \in 0..blockScene.top
      BY <1>1, <1>2
    <2> QED BY <1>1, <1>3, <2>2, <2>3, <2>4 DEF BlockInv, StoresOK
  <1>5. EntriesOK'
    BY <1>1, HeldStays DEF BlockInv, EntriesOK, EntryOK, LatestOK
  <1>6. GetsOK'
    <2>1. ASSUME NEW p \in Getters PROVE \E s : getter'[p] = s /\ GetOK(s)'
      BY <1>1, GetOfLonger, GettersTyped DEF BlockInv
    <2> QED BY <1>1, <2>1, GettersTyped, GetsHold
  <1> QED BY <1>1, <1>4, <1>5, <1>6, ListsStay DEF BlockInv

-----------------------------------------------------------------------------
\* Steps of pages.
ListVars == <<listCache, lister>>

LEMMA PageIsAbove ==
    ASSUME NEW S, NEW n, NEW h \in PageOf(S, n)
    PROVE  h \in S /\ (n - 1) * BlocksPerPage <= BlocksAbove(S, h) /\ BlocksAbove(S, h) < n * BlocksPerPage
  BY DEF PageOf

\* A client takes a page: it is the next one, and either all it was given
\* before, or nothing of it, is on the page.
LEMMA HandedOK ==
    ASSUME BlockAssumption, NEW r, ListedOK(r), NEW e, PageEntryOK(e), e.key = r.key
    PROVE  ListedOK(Handed(r, e))
  <1> DEFINE same == r.same /\ (e.key > 1 => r.last = e.seen)
             rising == r.rising /\ r.last \subseteq e.seen
             settled == e.total = e.seen
  <1>1. /\ Top \in Nat /\ BlocksPerPage \in Nat /\ BlocksPerPage >= 1 /\ r \in ListType
        /\ e.key \in Nat /\ e.key >= 1 /\ e.total \subseteq BlockHeights /\ e.seen \subseteq BlockHeights
        /\ e.blocks = PageOf(e.seen, e.key) /\ e.blocks \subseteq e.seen
    BY DEF BlockAssumption, ListedOK, PageEntryOK, PageOf
  <1>2. /\ r.given \subseteq BlockHeights /\ r.twice \subseteq BlockHeights /\ r.all \subseteq BlockHeights
        /\ r.last \subseteq BlockHeights /\ r.same \in BOOLEAN /\ r.rising \in BOOLEAN
    BY <1>1 DEF ListType
  <1>3. PICK pc : pc = IF e.key * BlocksPerPage >= Cardinality(e.total) THEN "end" ELSE "more"
    OBVIOUS
  <1>4. PICK s : s = Handed(r, e)
    OBVIOUS
  <1>5. same \in BOOLEAN /\ rising \in BOOLEAN /\ settled \in BOOLEAN
    OBVIOUS
  <1> HIDE DEF same, rising, settled
  <1>6. /\ s \in ListType /\ s.pc = pc /\ s.key = e.key + 1 /\ s.given = r.given \cup e.blocks
        /\ s.twice = r.twice \cup (r.given \cap e.blocks) /\ s.all = r.all \cap e.seen /\ s.last = e.seen
        /\ s.same = same /\ s.rising = rising /\ s.settled = settled
    <2>1. s = [r EXCEPT !.pc = pc, !.key = e.key + 1, !.total = {}, !.seen = {}, !.blocks = {}, !.since = 0,
                        !.given = @ \cup e.blocks, !.twice = @ \cup (r.given \cap e.blocks),
                        !.all = @ \cap e.seen, !.last = e.seen, !.same = same, !.rising = rising,
                        !.settled = settled]
      BY <1>3, <1>4 DEF Handed, same, rising, settled
    <2>2. e.key + 1 \in Nat \ {0} /\ pc \in ListPcs
      BY <1>1, <1>3 DEF ListPcs
    <2> QED BY <1>1, <1>2, <1>5, <2>1, <2>2 DEF ListType
  <1>7. PICK low, high : low = (e.key - 1) * BlocksPerPage /\ high = e.key * BlocksPerPage
    OBVIOUS
  <1>8. /\ low \in Nat /\ high \in Nat /\ low <= high /\ high = (s.key - 1) * BlocksPerPage
        /\ low = (r.key - 1) * BlocksPerPage
    <2>1. high = low + BlocksPerPage /\ e.key - 1 \in Nat
      BY <1>1, <1>7
    <2>2. low \in Nat
      BY <1>1, <1>7, <2>1
    <2>3. s.key - 1 = e.key
      BY <1>1, <1>6
    <2> QED BY <1>1, <1>7, <2>1, <2>2, <2>3
  <1>9. \A h : BlocksAbove(e.seen, h) \in Nat
    BY <1>1, BlocksAboveGrow
  <1>10. \A h \in e.blocks : low <= BlocksAbove(e.seen, h) /\ BlocksAbove(e.seen, h) < high
    BY <1>1, <1>7, PageIsAbove
  <1>11. ASSUME same PROVE s.twice = {} /\ \A h \in s.given : BlocksAbove(s.last, h) < high
    <2>1. CASE r.given = {}
      BY <1>6, <1>10, <1>11, <2>1 DEF ListedOK, same
    <2>2. CASE r.given # {}
      <3>1. r.last = e.seen
        BY <1>1, <1>11, <2>2 DEF ListedOK, same
      <3>2. \A h \in r.given : BlocksAbove(e.seen, h) < low
        BY <1>8, <1>11, <3>1 DEF ListedOK, same
      <3>3. r.given \cap e.blocks = {} /\ r.twice = {}
        BY <1>8, <1>9, <1>10, <1>11, <3>2 DEF ListedOK, same
      <3>4. \A h \in r.given : BlocksAbove(e.seen, h) < high
        BY <1>8, <1>9, <3>2
      <3> QED BY <1>6, <1>10, <3>3, <3>4
    <2> QED BY <2>1, <2>2
  <1>12. ASSUME rising, NEW h \in s.all PROVE h \in s.given \/ BlocksAbove(s.last, h) >= high
    <2>1. h \in r.all /\ h \in e.seen /\ r.last \subseteq e.seen
      BY <1>6, <1>12 DEF rising
    <2>2. CASE h \in r.given
      BY <1>6, <2>2
    <2>3. CASE h \notin r.given
      <3>1. BlocksAbove(r.last, h) >= low
        BY <1>8, <1>12, <2>1, <2>3 DEF ListedOK, rising
      <3>2. BlocksAbove(r.last, h) \in Nat /\ BlocksAbove(r.last, h) <= BlocksAbove(e.seen, h)
        BY <1>1, <2>1, BlocksAboveGrow
      <3>3. low <= BlocksAbove(e.seen, h)
        BY <1>8, <1>9, <3>1, <3>2
      <3>4. CASE BlocksAbove(e.seen, h) < high
        <4>1. h \in e.blocks
          BY <1>1, <1>7, <2>1, <3>3, <3>4 DEF PageOf
        <4> QED BY <1>6, <4>1
      <3>5. CASE ~(BlocksAbove(e.seen, h) < high)
        BY <1>6, <1>8, <1>9, <3>5
      <3> QED BY <3>4, <3>5
    <2> QED BY <2>2, <2>3
  <1>13. ASSUME pc = "end", rising, settled PROVE s.all \subseteq s.given
    <2> SUFFICES ASSUME NEW h \in s.all PROVE h \in s.given
      OBVIOUS
    <2>1. h \in e.seen
      BY <1>6
    <2>2. e.total = e.seen
      BY <1>13 DEF settled
    <2>3. BlocksAbove(e.seen, h) < Cardinality(e.seen) /\ Cardinality(e.seen) \in Nat
      BY <1>1, <2>1, BlocksAboveGrow
    <2>4. high >= Cardinality(e.seen)
      BY <1>3, <1>7, <1>13, <2>2
    <2>5. ~(BlocksAbove(s.last, h) >= high)
      BY <1>6, <1>8, <1>9, <2>3, <2>4
    <2> QED BY <1>12, <1>13, <2>5
  <1>14. s.key # 1 /\ s.pc # "listed"
    BY <1>1, <1>3, <1>6
  <1>15. ListedOK(s)
    BY <1>6, <1>8, <1>11, <1>12, <1>13, <1>14 DEF ListedOK
  <1> QED BY <1>4, <1>15

LEMMA ListTypes ==
    ASSUME BlockInv, NEW l \in Listers
    PROVE  lister[l] \in ListType /\ ListedOK(lister[l])
  BY DEF BlockInv, ListsOK

\* A client goes on.
LEMMA OneListGoes ==
    ASSUME BlockInv, NEW l \in Listers, NEW r, List(l, r), ListedOK(r), Lapse \/ UNCHANGED blockBounds,
           \A e \in listCache' : PageEntryOK(e), \A e, d \in listCache' : e.key = d.key => e = d,
           UNCHANGED <<date, head, storedAt, saver, cleared, blockCache, getter>>
    PROVE  BlockInv'
  <1>1. blockScene' = blockScene /\ lapses' \in 0..blockScene.lapses /\ Held' = Held
    BY LapsesStay, HeldStays DEF BlockInv
  <1>2. StoresOK'
    BY <1>1 DEF BlockInv, StoresOK
  <1>3. EntriesOK'
    BY <1>1 DEF BlockInv, EntriesOK, EntryOK, LatestOK
  <1>4. GetsOK'
    BY <1>1 DEF BlockInv, GetsOK, GetOK, LatestOK
  <1>5. ListsOK'
    <2>1. lister \in [Listers -> ListType] /\ r \in ListType
      BY DEF BlockInv, ListsOK, ListedOK
    <2>2. /\ lister' \in [Listers -> ListType] /\ lister'[l] = r
          /\ \A m \in Listers : m # l => lister'[m] = lister[m]
      BY <2>1 DEF List
    <2>3. \A m \in Listers : ListedOK(lister'[m])
      BY <2>2 DEF BlockInv, ListsOK
    <2> QED BY <2>2, <2>3 DEF ListsOK
  <1> QED BY <1>2, <1>3, <1>4, <1>5 DEF BlockInv

LEMMA NoListOK ==
    ASSUME BlockAssumption, NEW s \in {NoList, [NoList EXCEPT !.pc = "failed"]}
    PROVE  ListedOK(s)
  <1>1. Top \in Nat /\ BlocksPerPage \in Nat /\ 1 \in Nat \ {0} /\ 0 \in Nat
    BY DEF BlockAssumption
  <1>2. /\ NoList \in ListType /\ NoList.pc = "idle" /\ NoList.key = 1 /\ NoList.given = {}
        /\ NoList.twice = {} /\ NoList.last = {}
    BY <1>1 DEF NoList, ListType, ListPcs
  <1>a. /\ s \in ListType /\ s.pc \in {"idle", "failed"} /\ s.key = 1 /\ s.given = {} /\ s.twice = {}
        /\ s.last = {}
    BY <1>2 DEF ListType, ListPcs
  <1>3. \A h : BlocksAbove({}, h) = 0
    BY FS_EmptySet DEF BlocksAbove
  <1>4. (s.key - 1) * BlocksPerPage = 0
    BY <1>1, <1>a
  <1> QED BY <1>a, <1>3, <1>4 DEF ListedOK

LEMMA AskListKeeps ==
    ASSUME BlockInv, NEW l \in Listers, AskList(l)
    PROVE  BlockInv'
  <1>1. PICK r, today : r = lister[l] /\ today = date
    OBVIOUS
  <1>2. r \in ListType /\ ListedOK(r) /\ r.pc \in {"idle", "more"} /\ today \in Nat
    BY <1>1, ListTypes, BlockBoundsTyped DEF AskList, BlockInv
  <1>3. ASSUME NEW e \in listCache, e.key = r.key PROVE ListedOK(Handed(r, e))
    <2>1. PageEntryOK(e)
      BY DEF BlockInv, ListsOK
    <2> QED BY <1>2, <1>3, <2>1, BlockAssumption, HandedOK
  <1> DEFINE s == [r EXCEPT !.pc = "count", !.since = today]
  <1>4. ListedOK(s)
    <2>1. /\ s \in ListType /\ s.pc = "count" /\ s.key = r.key /\ s.given = r.given /\ s.twice = r.twice
          /\ s.all = r.all /\ s.last = r.last /\ s.same = r.same /\ s.rising = r.rising
      BY <1>2 DEF ListType, ListPcs
    <2> HIDE DEF s
    <2> QED BY <1>2, <2>1 DEF ListedOK
  <1>5. PICK t : List(l, t) /\ ListedOK(t)
    BY <1>1, <1>3, <1>4 DEF AskList
  <1>6. /\ \A e \in listCache' : PageEntryOK(e)
        /\ \A e, d \in listCache' : e.key = d.key => e = d
    BY DEF AskList, BlockInv, ListsOK
  <1> QED BY <1>5, <1>6, OneListGoes DEF AskList

LEMMA FindListKeeps ==
    ASSUME BlockInv, NEW l \in Listers, FindList(l)
    PROVE  BlockInv'
  <1>1. PICK r, held : r = lister[l] /\ held = Held
    OBVIOUS
  <1>2. r \in ListType /\ ListedOK(r) /\ held \subseteq BlockHeights
    BY <1>1, ListTypes, BlockBoundsTyped DEF BlockInv
  <1>3. /\ \A e \in listCache' : PageEntryOK(e)
        /\ \A e, d \in listCache' : e.key = d.key => e = d
        /\ UNCHANGED <<date, head, storedAt, saver, cleared, blockCache, getter>>
    BY DEF FindList, BlockInv, ListsOK
  <1>4. CASE r.pc = "count" /\ List(l, [r EXCEPT !.pc = "list", !.total = held]) /\ UNCHANGED blockBounds
    <2> DEFINE s == [r EXCEPT !.pc = "list", !.total = held]
    <2>1. /\ s \in ListType /\ s.pc = "list" /\ s.key = r.key /\ s.given = r.given /\ s.twice = r.twice
          /\ s.all = r.all /\ s.last = r.last /\ s.same = r.same /\ s.rising = r.rising
      BY <1>2 DEF ListType, ListPcs
    <2> HIDE DEF s
    <2>2. ListedOK(s)
      BY <1>2, <2>1 DEF ListedOK
    <2>3. List(l, s)
      BY <1>4 DEF s
    <2> QED BY <1>3, <1>4, <2>2, <2>3, OneListGoes
  <1>5. CASE r.pc = "list" /\ List(l, [r EXCEPT !.pc = "listed", !.seen = held, !.blocks = Slice(r.key)])
             /\ UNCHANGED blockBounds
    <2>0. PICK some : some = Slice(r.key)
      OBVIOUS
    <2> DEFINE s == [r EXCEPT !.pc = "listed", !.seen = held, !.blocks = some]
    <2>1. some = PageOf(held, r.key) /\ some \subseteq BlockHeights
      BY <1>1, <1>2, <2>0 DEF Slice, PageOf, BlocksAbove
    <2>2. /\ s \in ListType /\ s.pc = "listed" /\ s.key = r.key /\ s.given = r.given /\ s.twice = r.twice
          /\ s.all = r.all /\ s.last = r.last /\ s.same = r.same /\ s.rising = r.rising
          /\ s.seen = held /\ s.blocks = some
      BY <1>2, <2>1 DEF ListType, ListPcs
    <2>3. List(l, s)
      BY <1>5, <2>0
    <2> HIDE DEF s
    <2>4. ListedOK(s)
      BY <1>2, <2>1, <2>2 DEF ListedOK
    <2> QED BY <1>3, <1>5, <2>3, <2>4, OneListGoes
  <1>6. CASE Lapse /\ List(l, [NoList EXCEPT !.pc = "failed"])
    <2>1. ListedOK([NoList EXCEPT !.pc = "failed"])
      BY BlockAssumption, NoListOK
    <2> QED BY <1>3, <1>6, <2>1, OneListGoes
  <1> QED BY <1>1, <1>4, <1>5, <1>6 DEF FindList

LEMMA AnswerListKeeps ==
    ASSUME BlockInv, NEW l \in Listers, AnswerList(l)
    PROVE  BlockInv'
  <1>1. PICK r, today : r = lister[l] /\ today = date
    OBVIOUS
  <1>2. r \in ListType /\ ListedOK(r) /\ r.pc = "listed"
    BY <1>1, ListTypes DEF AnswerList
  <1> DEFINE e == [key |-> r.key, total |-> r.total, seen |-> r.seen, blocks |-> r.blocks, until |-> today + BlockTTL]
  <1>3. /\ List(l, Handed(r, e)) /\ listCache' = {d \in listCache : d.key # e.key} \cup {e}
        /\ UNCHANGED <<blockBounds, date, head, storedAt, saver, cleared, blockCache, getter>>
    BY <1>1 DEF AnswerList
  <1>4. PageEntryOK(e) /\ e.key = r.key
    BY <1>2 DEF PageEntryOK, ListedOK, ListType
  <1> HIDE DEF e
  <1>5. ListedOK(Handed(r, e))
    BY <1>2, <1>4, BlockAssumption, HandedOK
  <1>6. /\ \A c \in listCache' : PageEntryOK(c)
        /\ \A c, d \in listCache' : c.key = d.key => c = d
    BY <1>3, <1>4 DEF BlockInv, ListsOK
  <1> QED BY <1>3, <1>5, <1>6, OneListGoes

-----------------------------------------------------------------------------
\* Time, restarts, and the whole component.
LEMMA BlockTickKeeps ==
    ASSUME BlockInv, BlockTick
    PROVE  BlockInv'
  <1>1. /\ date < blockScene.upto /\ date' = date + 1
        /\ \A q \in Getters : getter[q].pc \in {"find", "found"} => InTime(getter[q].since)
        /\ blockCache' = {e \in blockCache : e.until > date'}
        /\ listCache' \subseteq listCache
        /\ UNCHANGED <<blockBounds, head, storedAt, saver, cleared, getter, lister>>
    BY DEF BlockTick
  <1>2. date \in Nat /\ blockScene.upto \in Nat
    BY BlockBoundsTyped DEF BlockInv
  <1>3. blockScene' = blockScene /\ lapses' \in 0..blockScene.lapses /\ Held' = Held
    BY <1>1, LapsesStay, HeldStays DEF BlockInv
  <1>4. StoresOK'
    <2>1. date' \in 0..blockScene.upto
      BY <1>1, <1>2
    <2>2. \A h \in BlockHeights : storedAt[h] \in -1..date'
      BY <1>1, <1>2 DEF BlockInv, StoresOK
    <2> QED BY <1>1, <1>3, <2>1, <2>2 DEF BlockInv, StoresOK
  <1>5. EntriesOK'
    <2>1. \A e \in blockCache' : e \in blockCache /\ EntryOK(e)'
      BY <1>1, LaterEntry DEF BlockInv, EntriesOK
    <2> QED BY <2>1 DEF BlockInv, EntriesOK
  <1>6. GetsOK'
    <2>1. ASSUME NEW p \in Getters PROVE \E s : getter'[p] = s /\ GetOK(s)'
      <3>1. PICK s : s = getter[p]
        OBVIOUS
      <3>2. GetOK(s)'
        BY <1>1, <3>1, LaterGet, GettersTyped DEF BlockInv
      <3> QED BY <1>1, <3>1, <3>2
    <2> QED BY <1>1, <2>1, GettersTyped, GetsHold
  <1> QED BY <1>1, <1>4, <1>5, <1>6, ListsStay DEF BlockInv

LEMMA NoGetOK ==
    ASSUME StoresOK, NEW s \in {NoGet, [NoGet EXCEPT !.pc = "failed"]}
    PROVE  s \in GetType /\ GetOK(s)
  <1>1. 0 \in 0..Top + 1 /\ 0 \in 0..Top /\ 0 \in Nat
    BY BlockBoundsTyped
  <1>2. NoGet \in GetType /\ NoGet.pc = "idle" /\ NoGet.due = FALSE
    BY <1>1 DEF NoGet, GetType, GetPcs, LatestKey
  <1>3. s \in GetType /\ s.pc \in {"idle", "failed"} /\ s.due = FALSE
    BY <1>2 DEF GetType, GetPcs
  <1> QED BY <1>3 DEF GetOK

LEMMA BlockForgetsKeeps ==
    ASSUME BlockInv, BlockForgets
    PROVE  BlockInv'
  <1>1. /\ blockCache' = {} /\ listCache' = {} /\ saver' = [h \in BlockHeights |-> "none"]
        /\ UNCHANGED <<blockBounds, date, head, storedAt, cleared>>
    BY DEF BlockForgets
  <1>2. blockScene' = blockScene /\ lapses' \in 0..blockScene.lapses /\ Held' = Held
    BY <1>1, LapsesStay, HeldStays DEF BlockInv
  <1>3. StoresOK'
    BY <1>1, <1>2 DEF BlockInv, StoresOK
  <1>4. EntriesOK'
    BY <1>1 DEF EntriesOK
  <1>5. GetsOK'
    <2>1. ASSUME NEW p \in Getters PROVE \E s : getter'[p] = s /\ GetOK(s)'
      <3>1. PICK s : s = getter'[p]
        OBVIOUS
      <3>2. s = getter[p] \/ s = [NoGet EXCEPT !.pc = "failed"]
        BY <3>1 DEF BlockForgets
      <3>3. GetOK(s)
        BY <3>2, NoGetOK, GettersTyped DEF BlockInv
      <3>4. GetOK(s)'
        BY <1>1, <1>2, <3>3, GetStays DEF Worldwide
      <3> QED BY <3>1, <3>4
    <2>2. getter' = [p \in Getters |-> getter'[p]]
      BY DEF BlockForgets
    <2> QED BY <2>1, <2>2, GetsHold
  <1>6. ListsOK'
    <2>1. ASSUME NEW l \in Listers PROVE lister'[l] \in ListType /\ ListedOK(lister'[l])
      <3>1. PICK s : s = lister'[l]
        OBVIOUS
      <3>2. s = lister[l] \/ s = [NoList EXCEPT !.pc = "failed"]
        BY <3>1 DEF BlockForgets
      <3>3. ListedOK(s)
        BY <3>2, BlockAssumption, NoListOK, ListTypes
      <3> QED BY <3>1, <3>3 DEF ListedOK
    <2>2. lister' = [l \in Listers |-> lister'[l]]
      BY DEF BlockForgets
    <2> QED BY <1>1, <2>1, <2>2 DEF ListsOK
  <1> QED BY <1>3, <1>4, <1>5, <1>6 DEF BlockInv

LEMMA BlocksStart ==
    ASSUME BlockInit
    PROVE  BlockInv
  <1>1. /\ blockScene \in BlockScenes /\ lapses = blockScene.lapses /\ date = 0 /\ head = blockScene.head
        /\ storedAt = [h \in BlockHeights |-> IF h \in blockScene.stored THEN 0 ELSE -1]
        /\ saver = [h \in BlockHeights |-> IF h \in blockScene.saves THEN "write" ELSE "none"]
        /\ cleared = {} /\ blockCache = {} /\ listCache = {}
        /\ getter = [q \in Getters |-> NoGet] /\ lister = [l \in Listers |-> NoList]
    BY DEF BlockInit
  <1>2. /\ blockScene.saves \subseteq 1..head /\ head \in 0..blockScene.top /\ lapses \in 0..blockScene.lapses
        /\ blockScene.upto \in Nat
    BY <1>1, BlockAssumption DEF BlockAssumption
  <1>3. StoresOK
    BY <1>1, <1>2 DEF StoresOK, Held
  <1>5. NoGet \in GetType /\ GetOK(NoGet) /\ ListedOK(NoList) /\ NoList \in ListType
    BY <1>3, BlockAssumption, NoGetOK, NoListOK DEF ListedOK
  <1>6. EntriesOK /\ GetsOK /\ ListsOK
    BY <1>1, <1>5 DEF EntriesOK, GetsOK, ListsOK
  <1> QED BY <1>3, <1>6 DEF BlockInv

LEMMA BlockStutterKeeps ==
    ASSUME BlockInv, UNCHANGED blockVars
    PROVE  BlockInv'
  BY HeldStays DEF BlockInv, StoresOK, EntriesOK, EntryOK, LatestOK, GetsOK, GetOK, ListsOK, blockVars, blockBounds

\* Blocks, one step.
LEMMA BlockSteps ==
    ASSUME BlockInv, BlockNext \/ BlockForgets \/ UNCHANGED blockVars
    PROVE  BlockInv'
  <1>1. CASE BlockForgets \/ UNCHANGED blockVars
    BY <1>1, BlockForgetsKeeps, BlockStutterKeeps
  <1>2. CASE BlockComes \/ BlockTick \/ \E h \in BlockHeights : SaveBlock(h)
    BY <1>2, BlockComesKeeps, BlockTickKeeps, SaveBlockKeeps
  <1>3. ASSUME NEW q \in Getters,
               \/ \E key \in blockScene.asks : AskBlock(q, key)
               \/ FindBlock(q) \/ CacheFound(q) \/ FetchBlock(q) \/ AnswerFetched(q) \/ AskTip(q) \/ GetFails(q)
        PROVE  BlockInv'
    BY <1>3, AskBlockKeeps, FindBlockKeeps, CacheFoundKeeps, FetchBlockKeeps, AnswerFetchedKeeps, AskTipKeeps,
       GetFailsKeeps
  <1>4. ASSUME NEW l \in Listers, AskList(l) \/ FindList(l) \/ AnswerList(l) PROVE BlockInv'
    BY <1>4, AskListKeeps, FindListKeeps, AnswerListKeeps
  <1> QED BY <1>1, <1>2, <1>3, <1>4 DEF BlockNext

\* What the run checks of the pages follows.
LEMMA BlocksHold == BlockInv => BlockPagesHold
  <1> SUFFICES ASSUME BlockInv PROVE BlockPagesHold
    OBVIOUS
  <1>1. BlockTypeOK
    BY GettersTyped, ListTypes, GetTypes
    DEF BlockTypeOK, BlockInv, StoresOK, EntriesOK, ListsOK, ListType, ListPcs, GetPcs, Held
  <1>2. LatestHolds
    <2> SUFFICES ASSUME NEW e \in blockCache, e.key = LatestKey
                 PROVE  /\ e.block \in Held /\ \A h \in cleared : h <= e.block \/ h \in e.passed
                        /\ \A h \in Held : h > e.block => date - storedAt[h] < BlockTTL + BlockLag
      BY DEF LatestHolds
    <2>1. EntryOK(e) /\ date \in Nat /\ e.until \in Nat /\ BlockTTL \in Nat /\ BlockLag \in Nat
          /\ \A h \in Held : storedAt[h] \in Int
      BY BlockBoundsTyped DEF BlockInv, StoresOK, EntriesOK, EntryOK, EntryType, Held
    <2>2. LatestOK(e.block, e.passed, e.until - BlockTTL - BlockLag) /\ date < e.until
      BY <2>1 DEF EntryOK
    <2> QED BY <2>1, <2>2 DEF LatestOK
  <1>3. AnswersHold
    BY GettersTyped DEF AnswersHold, GetOK
  <1>4. ListsComplete
    BY ListTypes DEF ListsComplete, ListedOK
  <1> QED BY <1>1, <1>2, <1>3, <1>4 DEF BlockPagesHold

-----------------------------------------------------------------------------
(* Transactions: pages, walks, the history of cursors, and full copies.      *)

PagePlaces == Nat \X Nat
PageType == [txs : SUBSET Txs, next : PagePlaces, places : [Txs -> PagePlaces]]
WalkPcs == {"idle", "find", "found", "prev", "more", "end", "failed"}
WalkType == [pc : WalkPcs, key : PagePlaces, page : PageType, since : Nat, given : SUBSET Txs, twice : SUBSET Txs,
             ends : SUBSET PagePlaces, top : PagePlaces, places : [Txs -> SUBSET PagePlaces]]
JobPcs == {"off", "look", "fetch", "count", "write", "done"}
JobType == [pc : JobPcs, todo : Seq(Txs), full : BOOLEAN, guess : BOOLEAN, time : Nat, again : BOOLEAN,
            since : Nat]
CopyType == [time : Int, content : BOOLEAN, lite : BOOLEAN, at : Nat, guess : BOOLEAN]

\* A page of those below key: which it lacks, the next one begins at or above.
TopOf(page) == Highest({NotStored} \cup {page.places[t] : t \in page.txs})
Reached(key, page, t) ==
    /\ page.places[t] # NotStored
    /\ key = SecondPage => Before(page.places[t], TopOf(page))
    /\ IsCursor(key) => Before(page.places[t], key)
PageOK(key, page) ==
    /\ page \in PageType /\ Cardinality(page.txs) <= Limit
    /\ \A t \in Txs : \/ page.places[t] = NotStored
                      \/ page.places[t][1] = HeightOf[t] /\ t \in StoredTxs
    /\ \A t \in page.txs : page.places[t] # NotStored
    /\ page.next # End => /\ IsCursor(page.next) /\ \E u \in page.txs : page.next = page.places[u]
                          /\ \A u \in page.txs : ~Before(page.places[u], page.next)
    /\ IsCursor(key) => \A t \in page.txs : Before(page.places[t], key)
    /\ \A t \in Txs \ page.txs :
          Reached(key, page, t) => page.next # End /\ ~Before(page.next, page.places[t])

\* A transaction that a walk was not given: it was out of its reach, or is at
\* a height where a page has ended, or is still to come.
OutOfReach(r, t) == NotStored \in r.places[t] \/ \E p \in r.places[t] : ~Before(p, r.top)
PassedOver(r, t) ==
    /\ \E e \in r.ends : HeightOf[t] = e[1]
    /\ (\E p, q \in r.places[t] : p # q) \/ r.places[t] \subseteq r.ends
StillToCome(r, t) == r.places[t] # {} /\ \A p \in r.places[t] : Before(p, r.key)

GivenNothing(r) == r.given = {} /\ r.twice = {} /\ \A t \in Txs : r.places[t] = {}
Halfway(r) ==
    /\ IsCursor(r.key) /\ r.key # End /\ r.key \in r.ends /\ \A t \in Txs : r.places[t] # {}
    /\ \E t \in StoredTxs : HeightOf[t] = r.key[1]
    /\ \A t \in r.given : \E p \in r.places[t] : ~Before(p, r.key)
    /\ \A t \in Txs \ r.given : OutOfReach(r, t) \/ PassedOver(r, t) \/ StillToCome(r, t)

WalkOK(r) ==
    /\ r \in WalkType
    /\ \A t \in Txs : /\ IsFiniteSet(r.places[t])
                      /\ \A p \in r.places[t] : p = NotStored \/ p[1] = HeightOf[t]
    /\ \A t \in r.twice : \E p, q \in r.places[t] : p # q
    /\ r.pc = "idle" => GivenNothing(r)
    /\ r.pc \in {"find", "found"} => (GivenNothing(r) /\ r.key \in {FirstPage, SecondPage}) \/ Halfway(r)
    /\ r.pc \in {"prev", "more"} => Halfway(r)
    /\ r.pc \in {"found", "prev"} => PageOK(r.key, r.page)
    /\ r.pc = "prev" => r.page.txs # {}
    /\ r.pc = "end" => \A t \in Txs \ r.given : OutOfReach(r, t) \/ PassedOver(r, t)

CachedPageOK(e) ==
    /\ PageOK(e.key, e.page) /\ e.until - clock \in 1..(IF e.key = FirstPage THEN HotTTL ELSE WarmTTL)
    /\ e.until \in Nat

PagesOK ==
    /\ \A e \in pages : CachedPageOK(e)
    /\ \A e, d \in pages : d.key = e.key => d = e
    /\ refresher.pc \in {"idle", "find", "found"}
    /\ refresher = [pc |-> refresher.pc, page |-> refresher.page, since |-> refresher.since]
    /\ refresher.pc = "found" => PageOK(FirstPage, refresher.page)

HistoryOK ==
    /\ \A h, g \in history : h.cursor = g.cursor => h = g
    /\ BacksUp

WalksOK == walk \in [Walkers -> WalkType] /\ \A w \in Walkers : WalkOK(walk[w])

\* The full copies of lite transactions that became full by tick x.
FullBy(x) == {t \in LiteTxs : IsFull(t) /\ copies[t].at <= x}

JobOK(r) ==
    /\ r \in JobType
    /\ r.pc \in {"count", "write"} => r.todo # <<>>
    /\ r.pc \notin {"off", "done"} => r.since <= clock /\ clock <= r.since + DbLag
    /\ r.pc = "write" /\ Head(r.todo) \in LiteTxs /\ r.full /\ ~r.guess
          => Cardinality(FullBy(r.since - CountTTL)) < MaxFull

CopiesOK ==
    /\ pageScene \in PageScenes /\ slips \in 0..pageScene.slips
    /\ clock \in Nat /\ stamp \in Nat /\ copies \in [Txs -> CopyType]
    /\ \A t \in Txs : /\ copies[t].time \in -1..stamp /\ copies[t].at <= clock
                      /\ copies[t].content => t \in StoredTxs
    /\ jobs \in [pageScene.jobs -> JobType] /\ \A j \in pageScene.jobs : JobOK(jobs[j]) /\ jobs[j].time <= stamp
    /\ counted.n \in Nat /\ counted.until \in Nat /\ counted.until <= clock + CountTTL
    /\ Cardinality(FullBy(counted.until - CountTTL - 1)) <= counted.n

PageInv == CopiesOK /\ PagesOK /\ HistoryOK /\ WalksOK /\ FullBounded

-----------------------------------------------------------------------------
\* The order of positions.
LEMMA PlacesOrder ==
    ASSUME NEW p \in PagePlaces, NEW q \in PagePlaces
    PROVE  /\ ~Before(p, p) /\ ~(Before(p, q) /\ Before(q, p))
           /\ Before(p, q) \/ p = q \/ Before(q, p)
           /\ Before(p, q) => p[1] <= q[1]
           /\ ~Before(p, q) => p[1] >= q[1]
           /\ p[1] \in Nat
  BY DEF Before, PagePlaces

LEMMA PlacesChain ==
    ASSUME NEW p \in PagePlaces, NEW q \in PagePlaces, NEW r \in PagePlaces
    PROVE  /\ Before(p, q) /\ Before(q, r) => Before(p, r)
           /\ ~Before(p, q) /\ ~Before(q, r) => ~Before(p, r)
           /\ ~Before(p, q) /\ Before(r, q) => ~Before(p, r) /\ p # r
  BY DEF Before, PagePlaces

\* Of finitely many positions one is the highest and one the lowest.
LEMMA Extremes ==
    ASSUME NEW S \in SUBSET PagePlaces, IsFiniteSet(S), S # {}
    PROVE  /\ Highest(S) \in S /\ \A q \in S : ~Before(Highest(S), q)
           /\ Lowest(S) \in S /\ \A q \in S : ~Before(q, Lowest(S))
  <1> DEFINE High(s) == \E p \in s : \A q \in s : ~Before(p, q)
             Low(s) == \E p \in s : \A q \in s : ~Before(q, p)
             Good == {s \in SUBSET S : s = {} \/ (High(s) /\ Low(s))}
  <1>1. ASSUME NEW s \in SUBSET S, \A t \in SUBSET s : t # s => t \in Good PROVE s \in Good
    <2> SUFFICES ASSUME s # {} PROVE High(s) /\ Low(s)
      OBVIOUS
    <2>1. PICK x \in s : TRUE
      OBVIOUS
    <2>2. CASE s = {x}
      BY <2>2, PlacesOrder
    <2>3. CASE s \ {x} # {}
      <3>0. s \ {x} \in SUBSET s /\ s \ {x} # s
        BY <2>1
      <3>1. High(s \ {x}) /\ Low(s \ {x})
        BY <1>1, <2>3, <3>0
      <3>2. PICK h \in s \ {x}, l \in s \ {x} : \A q \in s \ {x} : ~Before(h, q) /\ ~Before(q, l)
        BY <3>1
      <3>3. High(s)
        <4>1. CASE Before(h, x)
          <5>1. \A q \in s : ~Before(x, q)
            BY <2>1, <3>2, <4>1, PlacesOrder, PlacesChain
          <5> QED BY <2>1, <5>1
        <4>2. CASE ~Before(h, x)
          BY <3>2, <4>2
        <4> QED BY <4>1, <4>2
      <3>4. Low(s)
        <4>1. CASE Before(x, l)
          <5>1. \A q \in s : ~Before(q, x)
            BY <2>1, <3>2, <4>1, PlacesOrder, PlacesChain
          <5> QED BY <2>1, <5>1
        <4>2. CASE ~Before(x, l)
          BY <3>2, <4>2
        <4> QED BY <4>1, <4>2
      <3> QED BY <3>3, <3>4
    <2> QED BY <2>1, <2>2, <2>3
  <1>2. S \in Good
    <2> HIDE DEF Good
    <2> QED BY <1>1, SubsetInduction
  <1> QED BY <1>2 DEF Highest, Lowest

LEMMA FiniteImage ==
    ASSUME NEW S, IsFiniteSet(S), NEW f
    PROVE  IsFiniteSet({f[x] : x \in S})
  <1> DEFINE T == {f[x] : x \in S}
             g == [x \in S |-> f[x]]
  <1>1. g \in Surjection(S, T)
    BY DEF Surjection
  <1> HIDE DEF g, T
  <1>2. IsFiniteSet(T)
    BY <1>1, FS_Surjection DEF ExistsSurjection
  <1> QED BY <1>2 DEF T

LEMMA HighestNumber ==
    ASSUME NEW S \in SUBSET Nat, IsFiniteSet(S), S # {}
    PROVE  Max(S) \in S /\ \A m \in S : m <= Max(S)
  <1> DEFINE Good == {s \in SUBSET S : s = {} \/ \E p \in s : \A q \in s : q <= p}
  <1>1. ASSUME NEW s \in SUBSET S, \A t \in SUBSET s : t # s => t \in Good PROVE s \in Good
    <2> SUFFICES ASSUME s # {} PROVE \E p \in s : \A q \in s : q <= p
      OBVIOUS
    <2>1. PICK x \in s : TRUE
      OBVIOUS
    <2>2. CASE s = {x}
      BY <2>2
    <2>3. CASE s \ {x} # {}
      <3>0. s \ {x} \in SUBSET s /\ s \ {x} # s
        BY <2>1
      <3>1. PICK h \in s \ {x} : \A q \in s \ {x} : q <= h
        BY <1>1, <2>3, <3>0
      <3>2. CASE x <= h
        BY <3>1, <3>2
      <3>3. CASE ~(x <= h)
        <4>1. \A q \in s : q <= x
          BY <2>1, <3>1, <3>3
        <4> QED BY <2>1, <4>1
      <3> QED BY <3>2, <3>3
    <2> QED BY <2>1, <2>2, <2>3
  <1>2. S \in Good
    <2> HIDE DEF Good
    <2> QED BY <1>1, SubsetInduction
  <1> QED BY <1>2 DEF Max

LEMMA TxsFinite ==
    /\ IsFiniteSet(Txs) /\ \A s \in SUBSET Txs : IsFiniteSet(s) /\ Cardinality(s) \in Nat
    /\ HeightOf \in [Txs -> Nat \ {0}]
  BY PageAssumption, FS_Subset, FS_CardinalityType DEF PageAssumption

LEMMA AboveTyped == Above \in PagePlaces
  <1> DEFINE S == {0} \cup {HeightOf[t] : t \in Txs}
  <1>1. S \in SUBSET Nat /\ S # {} /\ IsFiniteSet(S)
    <2>1. IsFiniteSet(Txs) /\ \A t \in Txs : HeightOf[t] \in Nat
      BY TxsFinite
    <2>2. IsFiniteSet({HeightOf[t] : t \in Txs})
      BY <2>1, FiniteImage
    <2>3. IsFiniteSet({0} \cup {HeightOf[t] : t \in Txs})
      BY <2>2, FS_Union, FS_Singleton
    <2>4. S # {} /\ S \in SUBSET Nat
      BY <2>1
    <2> QED BY <2>3, <2>4
  <1> HIDE DEF S
  <1>2. Max(S) \in Nat
    BY <1>1, HighestNumber
  <1>3. Above = <<Max(S) + 1, 0>>
    BY DEF Above, S
  <1> QED BY <1>2, <1>3 DEF PagePlaces

LEMMA SmallestOfTwo ==
    ASSUME NEW a \in Nat, NEW b \in Nat
    PROVE  Min({a, b}) = IF a <= b THEN a ELSE b
  <1>1. \E x \in {a, b} : \A y \in {a, b} : x =< y
    OBVIOUS
  <1>2. Min({a, b}) \in {a, b} /\ \A y \in {a, b} : Min({a, b}) =< y
    BY <1>1 DEF Min
  <1> QED BY <1>2

\* The first n of some transactions: all if they are few.
LEMMA FirstsOf ==
    ASSUME NEW ts \in SUBSET Txs, NEW n \in Nat \ {0}, NEW P \in FirstOf(ts, n)
    PROVE  /\ P \subseteq ts /\ Cardinality(P) <= n
           /\ Cardinality(P) = IF Cardinality(ts) <= n THEN Cardinality(ts) ELSE n
           /\ Cardinality(ts) <= n => P = ts
           /\ ts # {} => P # {}
           /\ \A t \in P, u \in ts \ P : ~Before(Position(t), Position(u))
  <1>1. P \in SUBSET ts /\ Cardinality(P) = Min({Cardinality(ts), n})
    BY DEF FirstOf
  <1>2. \A t \in P, u \in ts \ P : ~Before(Position(t), Position(u))
    BY DEF FirstOf
  <1>3. IsFiniteSet(ts) /\ Cardinality(ts) \in Nat /\ IsFiniteSet(P) /\ Cardinality(P) \in Nat
    BY <1>1, TxsFinite
  <1>4. Cardinality(P) = IF Cardinality(ts) <= n THEN Cardinality(ts) ELSE n
    BY <1>1, <1>3, SmallestOfTwo
  <1>5. Cardinality(ts) <= n => P = ts
    BY <1>1, <1>3, <1>4, FS_Subset
  <1>6. ts # {} => P # {}
    BY <1>3, <1>4, FS_EmptySet
  <1> QED BY <1>1, <1>2, <1>3, <1>4, <1>5, <1>6

\* Two different elements.
LEMMA TwoElements ==
    ASSUME NEW S, IsFiniteSet(S), \E p, q \in S : p # q
    PROVE  Cardinality(S) > 1
  <1>1. PICK p \in S, q \in S : p # q
    OBVIOUS
  <1>2. Cardinality({p, q}) = 2
    <2>1. IsFiniteSet({p}) /\ Cardinality({p}) = 1
      BY FS_Singleton
    <2>2. Cardinality({p} \cup {q}) = Cardinality({p}) + 1
      BY <1>1, <2>1, FS_AddElement
    <2>3. {p, q} = {p} \cup {q}
      OBVIOUS
    <2> QED BY <2>1, <2>2, <2>3
  <1>3. Cardinality({p, q}) <= Cardinality(S) /\ Cardinality(S) \in Nat
    BY FS_Subset, FS_CardinalityType
  <1> QED BY <1>2, <1>3

-----------------------------------------------------------------------------
\* The pages the repository gives.
LEMMA StoredPlaces ==
    ASSUME copies \in [Txs -> CopyType]
    PROVE  /\ \A t \in Txs : Position(t) \in PagePlaces
           /\ \A t \in Txs \ StoredTxs : Position(t) = NotStored
           /\ \A t \in StoredTxs : /\ Position(t) \notin {NotStored, End} /\ IsCursor(Position(t))
                                   /\ Position(t)[1] = HeightOf[t]
           /\ StoredTxs \in SUBSET Txs
  <1>1. \A t \in StoredTxs : HeightOf[t] \in Nat \ {0} /\ copies[t].time \in Nat
    BY TxsFinite DEF StoredTxs, CopyType
  <1> QED BY <1>1 DEF Position, PagePlaces, NotStored, IsCursor, FirstPage, SecondPage, End, StoredTxs

LEMMA PositionsFinite ==
    ASSUME NEW ts \in SUBSET Txs, NEW f, \A t \in ts : f[t] \in PagePlaces
    PROVE  {f[t] : t \in ts} \in SUBSET PagePlaces /\ IsFiniteSet({f[t] : t \in ts})
  <1>1. IsFiniteSet(ts)
    BY TxsFinite
  <1> QED BY <1>1, FiniteImage

LEMMA PageWithOK ==
    ASSUME copies \in [Txs -> CopyType], NEW key \in PagePlaces, NEW ts \in SUBSET StoredTxs, NEW more \in BOOLEAN,
           Cardinality(ts) <= Limit,
           IsCursor(key) => \A t \in ts : Before(Position(t), key),
           \A t \in Txs \ ts : Reached(key, PageWith(ts, more), t) =>
               more /\ ts # {} /\ \A u \in ts : ~Before(Position(u), Position(t))
    PROVE  PageOK(key, PageWith(ts, more))
  <1> DEFINE ps == [t \in Txs |-> Position(t)]
             next == IF more /\ ts # {} THEN Lowest(Positions(ts)) ELSE End
  <1>1. ts \in SUBSET Txs /\ ps \in [Txs -> PagePlaces]
    BY StoredPlaces
  <1>2. Positions(ts) \in SUBSET PagePlaces /\ IsFiniteSet(Positions(ts))
    <2>1. Positions(ts) = {ps[t] : t \in ts}
      BY <1>1 DEF Positions
    <2> HIDE DEF ps
    <2> QED BY <1>1, <2>1, PositionsFinite
  <1>3. CASE more /\ ts # {}
    <2>1. Positions(ts) # {}
      BY <1>3 DEF Positions
    <2>2. Lowest(Positions(ts)) \in Positions(ts) /\ \A q \in Positions(ts) : ~Before(q, Lowest(Positions(ts)))
      BY <1>2, <2>1, Extremes
    <2>3. PICK u \in ts : Lowest(Positions(ts)) = Position(u)
      BY <2>2 DEF Positions
    <2>4. \A t \in ts : ~Before(Position(t), Position(u))
      BY <2>2, <2>3 DEF Positions
    <2>5. next = Position(u)
      BY <1>3, <2>3
    <2> HIDE DEF next
    <2>6. PICK page : page = PageWith(ts, more)
      OBVIOUS
    <2>7. /\ page = [txs |-> ts, next |-> next, places |-> ps]
          /\ page.txs = ts /\ page.next = next /\ page.places = ps
          /\ \A t \in Txs : page.places[t] = Position(t)
      BY <2>6 DEF PageWith, next
    <2> HIDE DEF ps
    <2>8. page \in PageType
      BY <1>1, <2>5, <2>7, StoredPlaces DEF PageType
    <2>9. IsCursor(next) /\ next # End
      BY <2>5, StoredPlaces
    <2>10. \A t \in Txs \ ts : Reached(key, page, t) => ~Before(next, page.places[t])
      BY <2>5, <2>6, <2>7
    <2> QED BY <1>1, <2>4, <2>5, <2>6, <2>7, <2>8, <2>9, <2>10, StoredPlaces DEF PageOK
  <1>4. CASE ~(more /\ ts # {})
    <2>1. next = End
      BY <1>4
    <2> HIDE DEF next
    <2>2. PICK page : page = PageWith(ts, more)
      OBVIOUS
    <2>3. /\ page = [txs |-> ts, next |-> next, places |-> ps]
          /\ page.txs = ts /\ page.next = next /\ page.places = ps
          /\ \A t \in Txs : page.places[t] = Position(t)
      BY <2>2 DEF PageWith, next
    <2> HIDE DEF ps
    <2>4. page \in PageType
      <3>1. End \in PagePlaces
        BY DEF End, PagePlaces
      <3> QED BY <1>1, <2>1, <2>3, <3>1 DEF PageType
    <2>5. \A t \in Txs \ ts : ~Reached(key, page, t)
      BY <1>4, <2>2
    <2> QED BY <1>1, <2>1, <2>2, <2>3, <2>4, <2>5, StoredPlaces DEF PageOK
  <1> QED BY <1>3, <1>4

LEMMA LatestPagesOK ==
    ASSUME copies \in [Txs -> CopyType], NEW page \in LatestPages
    PROVE  PageOK(FirstPage, page)
  <1>1. PICK P \in FirstOf(StoredTxs, Limit) : page = PageWith(P, TRUE)
    BY DEF LatestPages
  <1>2. StoredTxs \in SUBSET Txs /\ Limit \in Nat \ {0}
    BY StoredPlaces, PageAssumption DEF PageAssumption
  <1>3. /\ P \subseteq StoredTxs /\ Cardinality(P) <= Limit /\ (StoredTxs # {} => P # {})
        /\ \A t \in P, u \in StoredTxs \ P : ~Before(Position(t), Position(u))
    BY <1>2, FirstsOf
  <1>4. FirstPage \in PagePlaces /\ ~IsCursor(FirstPage)
    BY DEF FirstPage, PagePlaces, IsCursor
  <1>5. ASSUME NEW t \in Txs \ P, Reached(FirstPage, PageWith(P, TRUE), t)
        PROVE  P # {} /\ \A u \in P : ~Before(Position(u), Position(t))
    <2>1. t \in StoredTxs
      BY <1>5, StoredPlaces DEF Reached, PageWith
    <2> QED BY <1>3, <2>1
  <1>6. \A t \in Txs \ P : Reached(FirstPage, PageWith(P, TRUE), t) =>
            TRUE /\ P # {} /\ \A u \in P : ~Before(Position(u), Position(t))
    BY <1>5
  <1> QED BY <1>1, <1>3, <1>4, <1>6, PageWithOK

LEMMA PagesBelowOK ==
    ASSUME copies \in [Txs -> CopyType], NEW key \in PagePlaces, IsCursor(key), NEW page \in PagesAfter(key)
    PROVE  PageOK(key, page)
  <1> DEFINE found == {t \in StoredTxs : Before(Position(t), key)}
             more == Cardinality(found) > Limit
  <1>1. PICK P \in FirstOf(found, Limit) : page = PageWith(P, more)
    BY DEF PagesAfter, IsCursor
  <1>2. found \in SUBSET Txs /\ Limit \in Nat \ {0} /\ more \in BOOLEAN /\ Cardinality(found) \in Nat
    BY StoredPlaces, TxsFinite, PageAssumption DEF PageAssumption
  <1>3. /\ P \subseteq found /\ Cardinality(P) <= Limit /\ (found # {} => P # {})
        /\ (Cardinality(found) <= Limit => P = found)
        /\ \A t \in P, u \in found \ P : ~Before(Position(t), Position(u))
    <2> HIDE DEF found
    <2> QED BY <1>2, FirstsOf
  <1>4. ASSUME NEW t \in Txs \ P, Reached(key, PageWith(P, more), t)
        PROVE  more /\ P # {} /\ \A u \in P : ~Before(Position(u), Position(t))
    <2>1. t \in found
      BY <1>4, StoredPlaces DEF Reached, PageWith
    <2>2. Cardinality(found) > Limit
      <3> HIDE DEF found
      <3> QED BY <1>2, <1>3, <2>1
    <2> QED BY <1>3, <2>1, <2>2
  <1>5. P \in SUBSET StoredTxs /\ \A t \in P : Before(Position(t), key)
    BY <1>3
  <1> HIDE DEF more, found
  <1> QED BY <1>1, <1>2, <1>3, <1>4, <1>5, PageWithOK

LEMMA SecondPagesOK ==
    ASSUME copies \in [Txs -> CopyType], NEW page \in PagesAfter(SecondPage)
    PROVE  PageOK(SecondPage, page)
  <1> DEFINE more == Cardinality(StoredTxs) > 2 * Limit
  <1>1. PICK Q \in FirstOf(StoredTxs, Limit) : \E P \in FirstOf(StoredTxs \ Q, Limit) : page = PageWith(P, more)
    BY DEF PagesAfter
  <1>2. PICK P \in FirstOf(StoredTxs \ Q, Limit) : page = PageWith(P, more)
    BY <1>1
  <1>3. StoredTxs \in SUBSET Txs /\ StoredTxs \ Q \in SUBSET Txs /\ Limit \in Nat \ {0}
        /\ Cardinality(StoredTxs) \in Nat /\ Cardinality(StoredTxs \ Q) \in Nat /\ IsFiniteSet(StoredTxs)
    BY StoredPlaces, TxsFinite, PageAssumption DEF PageAssumption
  <1>4. /\ Q \subseteq StoredTxs
        /\ Cardinality(Q) = IF Cardinality(StoredTxs) <= Limit THEN Cardinality(StoredTxs) ELSE Limit
        /\ (Cardinality(StoredTxs) <= Limit => Q = StoredTxs)
        /\ \A t \in Q, u \in StoredTxs \ Q : ~Before(Position(t), Position(u))
    BY <1>3, FirstsOf
  <1>5. /\ P \subseteq StoredTxs \ Q /\ Cardinality(P) <= Limit /\ (StoredTxs \ Q # {} => P # {})
        /\ (Cardinality(StoredTxs \ Q) <= Limit => P = StoredTxs \ Q)
        /\ \A t \in P, u \in (StoredTxs \ Q) \ P : ~Before(Position(t), Position(u))
    BY <1>3, FirstsOf
  <1>6. Cardinality(StoredTxs \ Q) = Cardinality(StoredTxs) - Cardinality(Q)
    <2>1. StoredTxs \cap Q = Q /\ IsFiniteSet(Q)
      BY <1>3, <1>4, FS_Subset
    <2> QED BY <1>3, <2>1, FS_Difference
  <1>7. ASSUME NEW t \in Txs \ P, Reached(SecondPage, PageWith(P, more), t)
        PROVE  more /\ P # {} /\ \A u \in P : ~Before(Position(u), Position(t))
    <2> DEFINE tops == {NotStored} \cup {PageWith(P, more).places[u] : u \in P}
    <2>1. t \in StoredTxs /\ Before(Position(t), Highest(tops))
      BY <1>7, StoredPlaces DEF Reached, PageWith, TopOf
    <2>2. Highest(tops) \in tops /\ tops = {NotStored} \cup {Position(u) : u \in P}
      <3>1. P \in SUBSET Txs
        BY <1>3, <1>5
      <3>2. tops = {NotStored} \cup Positions(P)
        BY <3>1 DEF PageWith, Positions
      <3>3. PICK ps : ps = [u \in Txs |-> Position(u)]
        OBVIOUS
      <3>4. Positions(P) = {ps[u] : u \in P} /\ \A u \in P : ps[u] \in PagePlaces
        BY <3>1, <3>3, StoredPlaces DEF Positions
      <3>5. Positions(P) \in SUBSET PagePlaces /\ IsFiniteSet(Positions(P))
        BY <3>1, <3>4, PositionsFinite
      <3>6. IsFiniteSet(tops) /\ tops \in SUBSET PagePlaces /\ tops # {}
        <4>1. NotStored \in PagePlaces
          BY DEF NotStored, PagePlaces
        <4> HIDE DEF tops
        <4> QED BY <3>2, <3>5, <4>1, FS_Singleton, FS_Union
      <3> HIDE DEF tops
      <3> QED BY <3>2, <3>6, Extremes DEF Positions
    <2> HIDE DEF tops
    <2>3. t \notin Q
      <3>1. CASE Highest(tops) = NotStored
        <4>1. ~Before(Position(t), NotStored)
          BY <2>1, StoredPlaces DEF Before, NotStored, PagePlaces
        <4> QED BY <2>1, <3>1, <4>1
      <3>2. CASE \E u \in P : Highest(tops) = Position(u)
        BY <1>4, <1>5, <2>1, <3>2
      <3> QED BY <2>2, <3>1, <3>2
    <2>4. t \in (StoredTxs \ Q) \ P
      BY <2>1, <2>3
    <2>5. more
      BY <1>3, <1>4, <1>5, <1>6, <2>4
    <2> QED BY <1>5, <2>4, <2>5
  <1>8. P \in SUBSET StoredTxs /\ SecondPage \in PagePlaces /\ ~IsCursor(SecondPage) /\ more \in BOOLEAN
    BY <1>5 DEF SecondPage, PagePlaces, IsCursor
  <1> HIDE DEF more
  <1> QED BY <1>2, <1>5, <1>7, <1>8, PageWithOK

-----------------------------------------------------------------------------
\* A client is given a page.
LEMMA PageFacts ==
    ASSUME NEW key, NEW page, PageOK(key, page)
    PROVE  /\ page.txs \in SUBSET Txs /\ page.next \in PagePlaces /\ page.places \in [Txs -> PagePlaces]
           /\ \A t \in Txs : page.places[t] # NotStored => page.places[t][1] = HeightOf[t] /\ t \in StoredTxs
           /\ TopOf(page) \in PagePlaces
  <1>1. /\ page.txs \in SUBSET Txs /\ page.next \in PagePlaces /\ page.places \in [Txs -> PagePlaces]
        /\ \A t \in Txs : page.places[t] # NotStored => page.places[t][1] = HeightOf[t] /\ t \in StoredTxs
    BY DEF PageOK, PageType
  <1> DEFINE ps == {page.places[t] : t \in page.txs}
  <1>2. IsFiniteSet(ps) /\ ps \in SUBSET PagePlaces
    BY <1>1, PositionsFinite
  <1>3. NotStored \in PagePlaces
    BY DEF NotStored, PagePlaces
  <1> HIDE DEF ps
  <1>4. IsFiniteSet({NotStored} \cup ps) /\ {NotStored} \cup ps \in SUBSET PagePlaces /\ {NotStored} \cup ps # {}
    BY <1>2, <1>3, FS_Singleton, FS_Union
  <1>5. Highest({NotStored} \cup ps) \in PagePlaces
    BY <1>4, Extremes
  <1> QED BY <1>1, <1>5 DEF TopOf, ps

LEMMA GivenFields ==
    ASSUME NEW r \in WalkType, NEW page, PageOK(r.key, page), NEW s, s = Given(r, page)
    PROVE  /\ s \in WalkType /\ s.pc = (IF page.next = End THEN "end" ELSE "more") /\ s.key = page.next
           /\ s.twice = r.twice \cup (r.given \cap page.txs) /\ s.given = r.given \cup page.txs
           /\ s.ends = r.ends \cup {page.next}
           /\ s.top = (IF r.key # SecondPage THEN r.top ELSE TopOf(page))
           /\ \A t \in Txs : s.places[t] = r.places[t] \cup {page.places[t]}
  <1>1. PICK places : places = [t \in Txs |-> r.places[t] \cup {page.places[t]}]
    OBVIOUS
  <1>2. PICK pc : pc = IF page.next = End THEN "end" ELSE "more"
    OBVIOUS
  <1>3. PICK top : top = IF r.key # SecondPage THEN r.top ELSE TopOf(page)
    OBVIOUS
  <1>4. /\ r.given \in SUBSET Txs /\ r.twice \in SUBSET Txs /\ r.ends \in SUBSET PagePlaces
        /\ r.places \in [Txs -> SUBSET PagePlaces] /\ r.top \in PagePlaces
    BY DEF WalkType
  <1>5. NoPage \in PageType
    <2>1. End \in PagePlaces /\ NotStored \in PagePlaces
      BY DEF End, NotStored, PagePlaces
    <2> QED BY <2>1 DEF NoPage, PageType
  <1>6. pc \in WalkPcs /\ top \in PagePlaces /\ places \in [Txs -> SUBSET PagePlaces]
    <2>1. pc \in WalkPcs
      BY <1>2 DEF WalkPcs
    <2>2. top \in PagePlaces
      BY <1>3, <1>4, PageFacts
    <2>3. places \in [Txs -> SUBSET PagePlaces]
      BY <1>1, <1>4, PageFacts
    <2> QED BY <2>1, <2>2, <2>3
  <1>7. s = [r EXCEPT !.pc = pc, !.key = page.next, !.page = NoPage, !.since = 0,
                      !.twice = r.twice \cup (r.given \cap page.txs), !.given = r.given \cup page.txs,
                      !.ends = r.ends \cup {page.next}, !.top = top, !.places = places]
    BY <1>1, <1>2, <1>3 DEF Given, TopOf
  <1>8. s = [pc |-> pc, key |-> page.next, page |-> NoPage, since |-> 0,
             given |-> r.given \cup page.txs, twice |-> r.twice \cup (r.given \cap page.txs),
             ends |-> r.ends \cup {page.next}, top |-> top, places |-> places]
    BY <1>7 DEF WalkType
  <1>9. s \in WalkType
    BY <1>4, <1>5, <1>6, <1>8, PageFacts DEF WalkType
  <1> QED BY <1>1, <1>2, <1>3, <1>8, <1>9

\* What was passed over stays so, whatever page comes.
LEMMA PassedStays ==
    ASSUME NEW r \in WalkType, NEW s \in WalkType, NEW t \in Txs, NEW p \in PagePlaces,
           s.places[t] = r.places[t] \cup {p}, r.ends \subseteq s.ends, r.places[t] # {}
    PROVE  /\ OutOfReach(r, t) /\ s.top = r.top => OutOfReach(s, t)
           /\ PassedOver(r, t) => PassedOver(s, t)
  BY DEF OutOfReach, PassedOver

LEMMA FirstGiven ==
    ASSUME NEW r \in WalkType, GivenNothing(r), r.key \in {FirstPage, SecondPage},
           NEW page, PageOK(r.key, page), NEW s, s = Given(r, page), NEW t \in Txs \ s.given
    PROVE  \/ OutOfReach(s, t)
           \/ page.next # End /\ (PassedOver(s, t) \/ StillToCome(s, t))
  <1>1. /\ s \in WalkType /\ s.key = page.next /\ t \notin page.txs /\ s.ends = r.ends \cup {page.next}
        /\ s.places[t] = {page.places[t]} /\ (r.key = SecondPage => s.top = TopOf(page))
    BY GivenFields DEF GivenNothing
  <1>2. /\ page.places[t] \in PagePlaces /\ page.next \in PagePlaces
        /\ page.places[t] # NotStored => page.places[t][1] = HeightOf[t]
    BY PageFacts
  <1>3. CASE page.places[t] = NotStored
    BY <1>1, <1>3 DEF OutOfReach
  <1>4. CASE r.key = SecondPage /\ ~Before(page.places[t], TopOf(page))
    BY <1>1, <1>4 DEF OutOfReach
  <1>5. CASE page.places[t] # NotStored /\ (r.key = SecondPage => Before(page.places[t], TopOf(page)))
    <2>1. Reached(r.key, page, t)
      BY <1>5 DEF Reached, IsCursor
    <2>2. page.next # End /\ ~Before(page.next, page.places[t])
      BY <1>1, <2>1 DEF PageOK
    <2>3. CASE page.places[t] = page.next
      BY <1>1, <1>2, <1>5, <2>2, <2>3 DEF PassedOver
    <2>4. CASE Before(page.places[t], page.next)
      BY <1>1, <2>2, <2>4 DEF StillToCome
    <2> QED BY <1>2, <2>2, <2>3, <2>4, PlacesOrder
  <1> QED BY <1>3, <1>4, <1>5

LEMMA NextGiven ==
    ASSUME NEW r \in WalkType, Halfway(r), \A t \in Txs : \A p \in r.places[t] : p = NotStored \/ p[1] = HeightOf[t],
           NEW page, PageOK(r.key, page), NEW s, s = Given(r, page), NEW t \in Txs \ s.given
    PROVE  \/ OutOfReach(s, t) \/ PassedOver(s, t)
           \/ page.next # End /\ StillToCome(s, t)
  <1>1. /\ s \in WalkType /\ s.key = page.next /\ t \notin page.txs /\ s.ends = r.ends \cup {page.next}
        /\ s.places[t] = r.places[t] \cup {page.places[t]} /\ t \in Txs \ r.given
    BY GivenFields
  <1>2. r.key \in PagePlaces /\ IsCursor(r.key) /\ r.key \in r.ends /\ r.places[t] # {} /\ s.top = r.top
    BY GivenFields DEF Halfway, IsCursor, WalkType
  <1>3. /\ page.places[t] \in PagePlaces /\ page.next \in PagePlaces /\ r.places[t] \in SUBSET PagePlaces
        /\ page.places[t] # NotStored => page.places[t][1] = HeightOf[t]
    BY PageFacts DEF WalkType
  <1>4. CASE OutOfReach(r, t) \/ PassedOver(r, t)
    BY <1>1, <1>2, <1>3, <1>4, PassedStays
  <1>5. CASE page.places[t] = NotStored
    BY <1>1, <1>5 DEF OutOfReach
  <1>6. CASE StillToCome(r, t) /\ page.places[t] # NotStored /\ ~OutOfReach(r, t)
    <2>1. \A p \in r.places[t] : Before(p, r.key) /\ p[1] = HeightOf[t]
      BY <1>6 DEF StillToCome, OutOfReach
    <2>2. CASE ~Before(page.places[t], r.key)
      <3>1. PICK p \in r.places[t] : TRUE
        BY <1>2
      <3>2. p[1] <= r.key[1] /\ r.key[1] <= page.places[t][1] /\ p # page.places[t]
        BY <1>2, <1>3, <2>1, <2>2, <3>1, PlacesOrder
      <3>3. r.key[1] = HeightOf[t]
        BY <1>2, <1>3, <1>6, <2>1, <3>1, <3>2, PlacesOrder
      <3> QED BY <1>1, <1>2, <3>1, <3>2, <3>3 DEF PassedOver
    <2>3. CASE Before(page.places[t], r.key)
      <3>1. Reached(r.key, page, t)
        BY <1>2, <1>6, <2>3 DEF Reached, IsCursor
      <3>2. page.next # End /\ ~Before(page.next, page.places[t])
        BY <1>1, <3>1 DEF PageOK
      <3>3. CASE \A p \in s.places[t] : Before(p, page.next)
        BY <1>1, <3>2, <3>3 DEF StillToCome
      <3>4. CASE page.places[t] = page.next
        <4>1. PICK p \in r.places[t] : TRUE
          BY <1>2
        <4>2. page.next[1] = HeightOf[t] /\ page.next \in s.ends
          BY <1>1, <1>3, <1>6, <3>4
        <4>3. CASE \A q \in r.places[t] : q = page.next
          BY <1>1, <3>4, <4>2, <4>3 DEF PassedOver
        <4>4. CASE \E q \in r.places[t] : q # page.next
          BY <1>1, <3>4, <4>2, <4>4 DEF PassedOver
        <4> QED BY <4>3, <4>4
      <3>5. CASE Before(page.places[t], page.next) /\ \E p \in s.places[t] : ~Before(p, page.next)
        <4>1. PICK p \in r.places[t] : ~Before(p, page.next)
          BY <1>1, <3>5
        <4>2. p[1] >= page.next[1] /\ page.next[1] >= page.places[t][1] /\ p # page.places[t]
          BY <1>3, <3>5, <4>1, PlacesOrder
        <4>3. page.next[1] = HeightOf[t] /\ page.next \in s.ends
          BY <1>1, <1>3, <1>6, <2>1, <4>1, <4>2, PlacesOrder
        <4> QED BY <1>1, <4>1, <4>2, <4>3 DEF PassedOver
      <3> QED BY <1>3, <3>2, <3>3, <3>4, <3>5, PlacesOrder
    <2> QED BY <2>2, <2>3
  <1>7. OutOfReach(r, t) \/ PassedOver(r, t) \/ StillToCome(r, t)
    BY <1>1 DEF Halfway
  <1> QED BY <1>4, <1>5, <1>6, <1>7

LEMMA GivenOK ==
    ASSUME NEW r, WalkOK(r), (GivenNothing(r) /\ r.key \in {FirstPage, SecondPage}) \/ Halfway(r),
           NEW page, PageOK(r.key, page), NEW s, s = Given(r, page)
    PROVE  WalkOK(s)
  <1>1. /\ r \in WalkType /\ s \in WalkType /\ s.key = page.next /\ s.ends = r.ends \cup {page.next}
        /\ s.pc = (IF page.next = End THEN "end" ELSE "more")
        /\ s.twice = r.twice \cup (r.given \cap page.txs) /\ s.given = r.given \cup page.txs
        /\ \A t \in Txs : s.places[t] = r.places[t] \cup {page.places[t]}
    BY GivenFields DEF WalkOK
  <1>2. /\ \A t \in Txs : page.places[t] \in PagePlaces /\ r.places[t] \in SUBSET PagePlaces
        /\ \A t \in Txs : page.places[t] # NotStored => page.places[t][1] = HeightOf[t] /\ t \in StoredTxs
        /\ page.next \in PagePlaces /\ page.txs \in SUBSET Txs /\ r.twice \in SUBSET Txs
    BY <1>1, PageFacts DEF WalkType
  <1>3. \A t \in Txs : /\ IsFiniteSet(s.places[t])
                       /\ \A p \in s.places[t] : p = NotStored \/ p[1] = HeightOf[t]
    <2>1. ASSUME NEW t \in Txs PROVE IsFiniteSet(s.places[t])
      <3>1. IsFiniteSet(r.places[t])
        BY DEF WalkOK
      <3>2. IsFiniteSet(r.places[t] \cup {page.places[t]})
        BY <3>1, FS_Union, FS_Singleton
      <3> QED BY <1>1, <3>2
    <2> QED BY <1>1, <1>2, <2>1 DEF WalkOK
  <1>4. \A t \in s.twice : \E p, q \in s.places[t] : p # q
    <2>1. ASSUME NEW t \in r.given \cap page.txs PROVE \E p, q \in s.places[t] : p # q
      <3>1. Halfway(r) /\ IsCursor(r.key) /\ r.key \in PagePlaces
        BY <1>1, <2>1 DEF GivenNothing, Halfway, WalkType
      <3>2. PICK p \in r.places[t] : ~Before(p, r.key)
        BY <2>1, <3>1 DEF Halfway
      <3>3. Before(page.places[t], r.key)
        BY <2>1, <3>1 DEF PageOK
      <3> QED BY <1>1, <1>2, <2>1, <3>2, <3>3
    <2>2. ASSUME NEW t \in r.twice PROVE \E p, q \in s.places[t] : p # q
      BY <1>1, <1>2, <2>2 DEF WalkOK
    <2> QED BY <1>1, <2>1, <2>2
  <1>5. ASSUME NEW t \in Txs \ s.given
        PROVE \/ OutOfReach(s, t) \/ PassedOver(s, t)
              \/ page.next # End /\ StillToCome(s, t)
    <2>1. CASE Halfway(r)
      BY <1>1, <2>1, NextGiven DEF WalkOK
    <2>2. CASE GivenNothing(r) /\ r.key \in {FirstPage, SecondPage}
      BY <1>1, <2>2, FirstGiven
    <2> QED BY <2>1, <2>2
  <1>6. CASE page.next = End
    BY <1>1, <1>3, <1>4, <1>5, <1>6 DEF WalkOK, OutOfReach, PassedOver
  <1>7. CASE page.next # End
    <2>1. PICK u \in page.txs : page.next = page.places[u]
      BY <1>7 DEF PageOK
    <2>2. \E t \in StoredTxs : HeightOf[t] = page.next[1]
      BY <1>2, <2>1 DEF PageOK
    <2>3. \A t \in page.txs : ~Before(page.places[t], page.next)
      BY <1>7 DEF PageOK
    <2>4. ASSUME NEW t \in s.given PROVE \E p \in s.places[t] : ~Before(p, page.next)
      <3>1. CASE t \in page.txs
        BY <1>1, <1>2, <2>3, <3>1
      <3>2. CASE t \in r.given
        <4>1. Halfway(r) /\ IsCursor(r.key) /\ r.key \in PagePlaces
          BY <1>1, <3>2 DEF GivenNothing, Halfway, WalkType
        <4>2. PICK p \in r.places[t] : ~Before(p, r.key)
          BY <3>2, <4>1 DEF Halfway
        <4>3. Before(page.next, r.key)
          BY <2>1, <4>1 DEF PageOK
        <4>4. t \in Txs
          BY <1>1, <3>2 DEF WalkType
        <4> QED BY <1>1, <1>2, <4>1, <4>2, <4>3, <4>4, PlacesChain
      <3> QED BY <1>1, <3>1, <3>2
    <2>5. IsCursor(page.next) /\ \A t \in Txs : s.places[t] # {}
      BY <1>1, <1>7 DEF PageOK
    <2>6. Halfway(s)
      BY <1>1, <1>5, <1>7, <2>2, <2>4, <2>5 DEF Halfway
    <2> QED BY <1>1, <1>3, <1>4, <1>7, <2>6 DEF WalkOK
  <1> QED BY <1>6, <1>7

-----------------------------------------------------------------------------
\* What is stored stays stored, and with it what a page and a walk say.
LEMMA PageStays ==
    ASSUME StoredTxs \subseteq StoredTxs', NEW key, NEW page, PageOK(key, page)
    PROVE  PageOK(key, page)'
  BY DEF PageOK, TopOf, Reached, IsCursor, Before, Highest, FirstPage, SecondPage, NotStored, End

LEMMA WalkStays ==
    ASSUME StoredTxs \subseteq StoredTxs', NEW r, WalkOK(r)
    PROVE  WalkOK(r)'
  <1>1. PageOK(r.key, r.page) => PageOK(r.key, r.page)'
    BY PageStays
  <1>2. Halfway(r) => Halfway(r)'
    BY DEF Halfway, IsCursor, FirstPage, SecondPage, End, Before, OutOfReach, PassedOver, StillToCome, NotStored
  <1> QED BY <1>1, <1>2 DEF WalkOK, OutOfReach, PassedOver, GivenNothing, FirstPage, SecondPage, NotStored

LEMMA WalksHold ==
    ASSUME walk' = [w \in Walkers |-> walk'[w]],
           \A w \in Walkers : \E s : walk'[w] = s /\ WalkOK(s)'
    PROVE  WalksOK'
  <1>1. ASSUME NEW w \in Walkers PROVE WalkOK(walk[w])' /\ walk'[w] \in WalkType
    <2>1. PICK s : walk'[w] = s /\ WalkOK(s)'
      OBVIOUS
    <2> QED BY <2>1 DEF WalkOK
  <1> QED BY <1>1 DEF WalksOK

LEMMA OneWalkGoes ==
    ASSUME WalksOK, StoredTxs \subseteq StoredTxs', NEW w \in Walkers, NEW r, Walk(w, r), WalkOK(r)
    PROVE  WalksOK'
  <1>1. walk' = [v \in Walkers |-> walk'[v]] /\ walk'[w] = r /\ \A v \in Walkers : v # w => walk'[v] = walk[v]
    BY DEF Walk, WalksOK
  <1>2. WalkOK(r)'
    BY WalkStays
  <1>3. ASSUME NEW v \in Walkers, v # w PROVE \E s : walk'[v] = s /\ WalkOK(s)'
    <2>1. PICK s : s = walk[v]
      OBVIOUS
    <2>2. WalkOK(s)
      BY <2>1 DEF WalksOK
    <2>3. WalkOK(s)'
      BY <2>2, WalkStays
    <2> QED BY <1>1, <1>3, <2>1, <2>3
  <1> QED BY <1>1, <1>2, <1>3, WalksHold

LEMMA WalksStay ==
    ASSUME WalksOK, StoredTxs \subseteq StoredTxs', UNCHANGED walk
    PROVE  WalksOK'
  <1>1. walk' = [v \in Walkers |-> walk'[v]] /\ \A v \in Walkers : walk'[v] = walk[v]
    BY DEF WalksOK
  <1>2. ASSUME NEW v \in Walkers PROVE \E s : walk'[v] = s /\ WalkOK(s)'
    <2>1. PICK s : s = walk[v]
      OBVIOUS
    <2>2. WalkOK(s)'
      BY <2>1, WalkStays DEF WalksOK
    <2> QED BY <1>1, <2>1, <2>2
  <1> QED BY <1>1, <1>2, WalksHold

LEMMA PagesStay ==
    ASSUME PagesOK, StoredTxs \subseteq StoredTxs', UNCHANGED <<pages, refresher, clock>>
    PROVE  PagesOK'
  <1>1. ASSUME NEW e \in pages PROVE CachedPageOK(e)'
    <2>1. PageOK(e.key, e.page)'
      BY PageStays DEF PagesOK, CachedPageOK
    <2> QED BY <2>1 DEF PagesOK, CachedPageOK
  <1>2. refresher.pc = "found" => PageOK(FirstPage, refresher.page)'
    <2>1. PICK p : p = refresher.page
      OBVIOUS
    <2>2. refresher.pc = "found" => PageOK(FirstPage, p)'
      BY <2>1, PageStays DEF PagesOK, FirstPage
    <2> QED BY <2>1, <2>2 DEF PageOK, Reached, TopOf, FirstPage
  <1> QED BY <1>1, <1>2 DEF PagesOK

-----------------------------------------------------------------------------
\* Steps of the clients leave the copies and what stores them.
LEMMA CopiesStay ==
    ASSUME CopiesOK, FullBounded, UNCHANGED <<clock, stamp, copies, counted, jobs>>,
           UNCHANGED pageBounds \/ Slip
    PROVE  CopiesOK' /\ FullBounded' /\ StoredTxs' = StoredTxs
  <1>1. pageScene' = pageScene /\ slips' \in 0..pageScene.slips
    <2>1. pageScene.slips \in Nat
      BY PageAssumption DEF CopiesOK, PageAssumption
    <2> QED BY <2>1 DEF Slip, pageBounds, CopiesOK
  <1>2. FullBounded'
    BY DEF FullBounded, IsFull, StoredTxs
  <1>3. CopiesOK'
    BY <1>1 DEF CopiesOK, JobOK, FullBy, IsFull, StoredTxs
  <1> QED BY <1>2, <1>3 DEF StoredTxs

LEMMA OneStepOfWalk ==
    ASSUME PageInv, NEW w \in Walkers, NEW r, Walk(w, r), WalkOK(r),
           UNCHANGED <<clock, stamp, copies, counted, jobs>>, UNCHANGED pageBounds \/ Slip,
           PagesOK', HistoryOK'
    PROVE  PageInv'
  BY CopiesStay, OneWalkGoes DEF PageInv

LEMMA HistoryStays == ASSUME HistoryOK, UNCHANGED history PROVE HistoryOK'
  BY DEF HistoryOK, BacksUp

LEMMA WalkTyped ==
    ASSUME PageInv, NEW w \in Walkers
    PROVE  WalkOK(walk[w]) /\ walk[w] \in WalkType /\ copies \in [Txs -> CopyType]
  BY DEF PageInv, WalksOK, CopiesOK

\* A client begins, or goes on to the next page.
LEMMA AskedOK ==
    ASSUME PageInv, NEW w \in Walkers, walk[w].pc \in {"idle", "more"},
           NEW key \in IF walk[w].pc = "idle" THEN pageScene.walks ELSE {walk[w].key}
    PROVE  /\ key \in PagePlaces
           /\ \A r : /\ r \in WalkType /\ r.key = key /\ r.given = walk[w].given /\ r.twice = walk[w].twice
                     /\ r.ends = walk[w].ends /\ r.top = walk[w].top /\ r.places = walk[w].places
                     => /\ (GivenNothing(r) /\ r.key \in {FirstPage, SecondPage}) \/ Halfway(r)
                        /\ r.pc \in {"idle", "more", "find"} /\ (r.pc = "find" \/ r.pc = walk[w].pc) => WalkOK(r)
  <1>1. WalkOK(walk[w]) /\ walk[w] \in WalkType
    BY WalkTyped
  <1>2. CASE walk[w].pc = "idle"
    <2>1. key \in {FirstPage, SecondPage} /\ GivenNothing(walk[w])
      BY <1>1, <1>2, PageAssumption DEF PageInv, CopiesOK, PageAssumption, WalkOK
    <2> QED BY <1>1, <1>2, <2>1 DEF WalkOK, GivenNothing, FirstPage, SecondPage, PagePlaces
  <1>3. CASE walk[w].pc = "more"
    <2>1. key = walk[w].key /\ Halfway(walk[w])
      BY <1>1, <1>3 DEF WalkOK
    <2>2. key \in PagePlaces
      BY <1>1, <2>1 DEF WalkType
    <2>3. ASSUME NEW r \in WalkType, r.key = key, r.given = walk[w].given, r.twice = walk[w].twice,
                 r.ends = walk[w].ends, r.top = walk[w].top, r.places = walk[w].places
          PROVE  Halfway(r) /\ ((r.pc = "find" \/ r.pc = walk[w].pc) => WalkOK(r))
      <3>1. Halfway(r)
        BY <2>1, <2>3 DEF Halfway, OutOfReach, PassedOver, StillToCome
      <3> QED BY <1>1, <1>3, <2>3, <3>1 DEF WalkOK
    <2> QED BY <2>2, <2>3
  <1> QED BY <1>2, <1>3

LEMMA AskPageKeeps ==
    ASSUME PageInv, NEW w \in Walkers, AskPage(w)
    PROVE  PageInv'
  <1>1. PICK key \in IF walk[w].pc = "idle" THEN pageScene.walks ELSE {walk[w].key} :
           walk[w].pc \in {"idle", "more"} /\ (PageHit(w, key) \/ PageMiss(w, key))
    BY DEF AskPage
  <1>2. WalkOK(walk[w]) /\ walk[w] \in WalkType /\ copies \in [Txs -> CopyType] /\ key \in PagePlaces
    BY <1>1, WalkTyped, AskedOK
  <1>3. /\ UNCHANGED <<pageBounds, clock, stamp, copies, pages, history, counted, jobs>>
        /\ HistoryOK' /\ StoredTxs \subseteq StoredTxs' /\ clock \in Nat
    BY HistoryStays DEF AskPage, PageInv, StoredTxs, CopiesOK
  <1>4. CASE PageHit(w, key)
    <2>1. PICK r : r = [walk[w] EXCEPT !.key = key]
      OBVIOUS
    <2>2. PICK e \in pages : e.key = key /\ Walk(w, Given(r, e.page))
      BY <1>4, <2>1 DEF PageHit
    <2>3. /\ r \in WalkType /\ r.key = key /\ r.given = walk[w].given /\ r.twice = walk[w].twice
          /\ r.ends = walk[w].ends /\ r.top = walk[w].top /\ r.places = walk[w].places /\ r.pc = walk[w].pc
      BY <1>2, <2>1 DEF WalkType
    <2>4. WalkOK(r) /\ ((GivenNothing(r) /\ r.key \in {FirstPage, SecondPage}) \/ Halfway(r))
      BY <1>1, <2>3, AskedOK
    <2>5. PICK s : s = Given(r, e.page)
      OBVIOUS
    <2>6. PageOK(r.key, e.page)
      BY <2>2, <2>3 DEF PageInv, PagesOK, CachedPageOK
    <2>7. WalkOK(s)
      BY <2>4, <2>5, <2>6, GivenOK
    <2>8. PagesOK'
      <3>1. CASE UNCHANGED refresher
        BY <1>3, <3>1, PagesStay DEF PageInv
      <3>2. CASE refresher' = [NotRefreshing EXCEPT !.pc = "find", !.since = clock]
        <4>1. refresher' = [pc |-> "find", page |-> NoPage, since |-> clock]
          BY <3>2 DEF NotRefreshing
        <4>2. ASSUME NEW d \in pages PROVE CachedPageOK(d)'
          <5>1. PageOK(d.key, d.page)'
            BY <1>3, PageStays DEF PageInv, PagesOK, CachedPageOK
          <5> QED BY <1>3, <5>1 DEF PageInv, PagesOK, CachedPageOK
        <4> QED BY <1>3, <4>1, <4>2 DEF PageInv, PagesOK
      <3> QED BY <1>4, <3>1, <3>2 DEF PageHit
    <2>9. Walk(w, s)
      BY <2>2, <2>5
    <2> QED BY <1>3, <2>7, <2>8, <2>9, OneStepOfWalk
  <1>5. CASE PageMiss(w, key)
    <2>1. PICK r : r = [walk[w] EXCEPT !.pc = "find", !.key = key, !.since = clock]
      OBVIOUS
    <2>2. /\ r \in WalkType /\ r.key = key /\ r.given = walk[w].given /\ r.twice = walk[w].twice
          /\ r.ends = walk[w].ends /\ r.top = walk[w].top /\ r.places = walk[w].places /\ r.pc = "find"
      BY <1>2, <1>3, <2>1 DEF WalkType, WalkPcs
    <2>3. WalkOK(r)
      BY <1>1, <2>2, AskedOK
    <2>4. Walk(w, r) /\ UNCHANGED refresher
      BY <1>5, <2>1 DEF PageMiss
    <2>5. PagesOK'
      BY <1>3, <2>4, PagesStay DEF PageInv
    <2> QED BY <1>3, <2>3, <2>4, <2>5, OneStepOfWalk
  <1> QED BY <1>1, <1>4, <1>5

-----------------------------------------------------------------------------
\* A client finds a page and is given it, with what is remembered of it.
LEMMA SameWalk ==
    ASSUME NEW r, WalkOK(r), NEW s \in WalkType, s.key = r.key, s.given = r.given, s.twice = r.twice,
           s.ends = r.ends, s.top = r.top, s.places = r.places
    PROVE  /\ Halfway(r) => Halfway(s)
           /\ GivenNothing(r) => GivenNothing(s)
           /\ \A t \in Txs : /\ IsFiniteSet(s.places[t])
                             /\ \A p \in s.places[t] : p = NotStored \/ p[1] = HeightOf[t]
           /\ \A t \in s.twice : \E p, q \in s.places[t] : p # q
  BY DEF WalkOK, Halfway, GivenNothing, OutOfReach, PassedOver, StillToCome

LEMMA FindPageKeeps ==
    ASSUME PageInv, NEW w \in Walkers, FindPage(w)
    PROVE  PageInv'
  <1>1. WalkOK(walk[w]) /\ walk[w] \in WalkType /\ copies \in [Txs -> CopyType] /\ walk[w].key \in PagePlaces
    BY WalkTyped DEF WalkType
  <1>2. PICK page \in IF walk[w].key = FirstPage THEN LatestPages ELSE PagesAfter(walk[w].key) :
           Walk(w, [walk[w] EXCEPT !.pc = "found", !.page = page])
    BY DEF FindPage
  <1>3. PageOK(walk[w].key, page)
    <2>1. CASE walk[w].key = FirstPage
      BY <1>1, <1>2, <2>1, LatestPagesOK
    <2>2. CASE walk[w].key = SecondPage
      BY <1>1, <1>2, <2>2, SecondPagesOK DEF FirstPage, SecondPage
    <2>3. CASE IsCursor(walk[w].key)
      BY <1>1, <1>2, <2>3, PagesBelowOK DEF IsCursor
    <2> QED BY <2>1, <2>2, <2>3 DEF IsCursor
  <1>4. PICK r : r = [walk[w] EXCEPT !.pc = "found", !.page = page]
    OBVIOUS
  <1>5. /\ r \in WalkType /\ r.key = walk[w].key /\ r.given = walk[w].given /\ r.twice = walk[w].twice
        /\ r.ends = walk[w].ends /\ r.top = walk[w].top /\ r.places = walk[w].places /\ r.pc = "found" /\ r.page = page
    <2>1. page \in PageType
      BY <1>3 DEF PageOK
    <2> QED BY <1>1, <1>4, <2>1 DEF WalkType, WalkPcs
  <1>6. WalkOK(r)
    <2>1. (GivenNothing(walk[w]) /\ walk[w].key \in {FirstPage, SecondPage}) \/ Halfway(walk[w])
      BY <1>1 DEF FindPage, WalkOK
    <2> QED BY <1>1, <1>3, <1>5, <2>1, SameWalk DEF WalkOK
  <1>7. /\ UNCHANGED <<pageBounds, clock, stamp, copies, pages, history, refresher, counted, jobs>>
        /\ HistoryOK' /\ StoredTxs \subseteq StoredTxs'
    BY HistoryStays DEF FindPage, PageInv, StoredTxs
  <1>8. PagesOK'
    BY <1>7, PagesStay DEF PageInv
  <1> QED BY <1>2, <1>4, <1>6, <1>7, <1>8, OneStepOfWalk

LEMMA RecallOK ==
    ASSUME NEW old, \A h, g \in old : h.cursor = g.cursor => h = g,
           \A h \in old : h.prev = End \/ h.prev[1] >= h.cursor[1],
           NEW cursor, NEW prev, IsCursor(cursor) /\ cursor # End => prev = End \/ prev[1] >= cursor[1]
    PROVE  /\ \A h, g \in Recall(old, cursor, prev) : h.cursor = g.cursor => h = g
           /\ \A h \in Recall(old, cursor, prev) : h.prev = End \/ h.prev[1] >= h.cursor[1]
  BY DEF Recall

LEMMA PutKeeps ==
    ASSUME PagesOK, clock \in Nat, NEW key, NEW page, PageOK(key, page), Put(key, page),
           UNCHANGED <<clock, copies>>
    PROVE  (\A e \in pages' : CachedPageOK(e)') /\ \A e, d \in pages' : d.key = e.key => d = e
  <1>1. PICK ttl : ttl = IF key = FirstPage THEN HotTTL ELSE WarmTTL
    OBVIOUS
  <1>2. ttl \in Nat \ {0}
    BY <1>1, PageAssumption DEF PageAssumption
  <1>3. PICK n : n = [key |-> key, page |-> page, until |-> clock + ttl]
    OBVIOUS
  <1>4. pages' = {e \in pages : e.key # key} \cup {n} /\ n.key = key /\ n.page = page /\ n.until = clock + ttl
    BY <1>1, <1>3 DEF Put
  <1>5. \A e, d \in pages' : d.key = e.key => d = e
    BY <1>4 DEF PagesOK
  <1>6. StoredTxs \subseteq StoredTxs'
    BY DEF StoredTxs
  <1>7. ASSUME NEW e \in pages PROVE CachedPageOK(e)'
    <2>1. PageOK(e.key, e.page)'
      BY <1>6, PageStays DEF PagesOK, CachedPageOK
    <2> QED BY <2>1 DEF PagesOK, CachedPageOK
  <1>8. CachedPageOK(n)'
    <2>1. PageOK(n.key, n.page)'
      BY <1>4, <1>6, PageStays
    <2>2. n.until - clock \in 1..ttl /\ n.until \in Nat
      BY <1>2, <1>4
    <2>3. ttl = IF n.key = FirstPage THEN HotTTL ELSE WarmTTL
      BY <1>1, <1>4
    <2> QED BY <2>1, <2>2, <2>3 DEF CachedPageOK
  <1> QED BY <1>4, <1>5, <1>7, <1>8

LEMMA RefresherStays ==
    ASSUME PagesOK, UNCHANGED <<copies, refresher>>
    PROVE  /\ refresher'.pc \in {"idle", "find", "found"}
           /\ refresher' = [pc |-> refresher'.pc, page |-> refresher'.page, since |-> refresher'.since]
           /\ (refresher.pc = "found" => PageOK(FirstPage, refresher.page))'
  <1>1. PICK p : p = refresher.page
    OBVIOUS
  <1>2. StoredTxs \subseteq StoredTxs'
    BY DEF StoredTxs
  <1>3. refresher.pc = "found" => PageOK(FirstPage, p)'
    BY <1>1, <1>2, PageStays DEF PagesOK, FirstPage
  <1>4. (refresher.pc = "found" => PageOK(FirstPage, refresher.page))'
    BY <1>1, <1>3 DEF PageOK, Reached, TopOf, FirstPage
  <1> QED BY <1>4 DEF PagesOK

LEMMA FillFinishKeeps ==
    ASSUME PageInv, NEW w \in Walkers, walk[w].pc \in {"found", "prev"}, NEW prev,
           prev = End \/ (walk[w].pc = "found" /\ prev \in Remembered(walk[w].key)) \/ prev[1] >= walk[w].key[1],
           Finish(w, prev), UNCHANGED <<clock, stamp, copies, refresher, counted, jobs>>,
           UNCHANGED pageBounds \/ Slip
    PROVE  PageInv'
  <1>1. PICK r : r = walk[w]
    OBVIOUS
  <1>2. /\ WalkOK(r) /\ r \in WalkType /\ r.pc \in {"found", "prev"} /\ PageOK(r.key, r.page)
        /\ (GivenNothing(r) /\ r.key \in {FirstPage, SecondPage}) \/ Halfway(r)
    BY <1>1, WalkTyped DEF WalkOK
  <1>3. PICK s : s = Given(r, r.page)
    OBVIOUS
  <1>4. WalkOK(s)
    BY <1>2, <1>3, GivenOK
  <1>5. /\ Walk(w, s) /\ Put(r.key, r.page)
        /\ history' = Recall(Recall(history, r.page.next, IF IsCursor(r.key) THEN r.key ELSE End), r.key, prev)
    BY <1>1, <1>3 DEF Finish
  <1>6. PagesOK'
    BY <1>2, <1>5, PutKeeps, RefresherStays DEF PageInv, CopiesOK, PagesOK
  <1>7. HistoryOK'
    <2>1. PICK mid : mid = Recall(history, r.page.next, IF IsCursor(r.key) THEN r.key ELSE End)
      OBVIOUS
    <2>2. IsCursor(r.page.next) /\ r.page.next # End =>
             (IF IsCursor(r.key) THEN r.key ELSE End) = End \/ r.key[1] >= r.page.next[1]
      <3>1. ASSUME r.page.next # End, IsCursor(r.key) PROVE r.key[1] >= r.page.next[1]
        <4>1. PICK u \in r.page.txs : r.page.next = r.page.places[u]
          BY <1>2, <3>1 DEF PageOK
        <4>2. Before(r.page.next, r.key)
          BY <1>2, <3>1, <4>1 DEF PageOK
        <4>3. r.page.next \in PagePlaces /\ r.key \in PagePlaces
          BY <1>2, PageFacts DEF WalkType
        <4> QED BY <4>2, <4>3, PlacesOrder
      <3> QED BY <3>1
    <2>3. /\ \A h, g \in history : h.cursor = g.cursor => h = g
          /\ \A h \in history : h.prev = End \/ h.prev[1] >= h.cursor[1]
      BY DEF PageInv, HistoryOK, BacksUp
    <2>4. /\ \A h, g \in mid : h.cursor = g.cursor => h = g
          /\ \A h \in mid : h.prev = End \/ h.prev[1] >= h.cursor[1]
      <3>1. PICK p : p = IF IsCursor(r.key) THEN r.key ELSE End
        OBVIOUS
      <3>2. IsCursor(r.page.next) /\ r.page.next # End => p = End \/ p[1] >= r.page.next[1]
        BY <2>2, <3>1
      <3> QED BY <2>1, <2>3, <3>1, <3>2, RecallOK
    <2>5. prev = End \/ prev[1] >= r.key[1]
      BY <1>1, <2>3 DEF Remembered
    <2>6. history' = Recall(mid, r.key, prev)
      BY <1>5, <2>1
    <2> QED BY <2>4, <2>5, <2>6, RecallOK DEF HistoryOK, BacksUp
  <1> QED BY <1>4, <1>5, <1>6, <1>7, OneStepOfWalk

LEMMA AnswerPageKeeps ==
    ASSUME PageInv, NEW w \in Walkers, AnswerPage(w)
    PROVE  PageInv'
  <1>1. /\ UNCHANGED <<pageBounds, clock, stamp, copies, refresher, counted, jobs>> /\ walk[w].pc = "found"
        /\ StoredTxs \subseteq StoredTxs'
    BY DEF AnswerPage, StoredTxs
  <1>2. CASE /\ IsCursor(walk[w].key) /\ walk[w].page.txs # {} /\ UNCHANGED <<pages, history>>
             /\ Walk(w, [walk[w] EXCEPT !.pc = "prev", !.since = clock])
    <2>1. PICK r : r = [walk[w] EXCEPT !.pc = "prev", !.since = clock]
      OBVIOUS
    <2>2. WalkOK(walk[w]) /\ walk[w] \in WalkType
      BY WalkTyped
    <2>3. /\ r \in WalkType /\ r.key = walk[w].key /\ r.given = walk[w].given /\ r.twice = walk[w].twice
          /\ r.ends = walk[w].ends /\ r.top = walk[w].top /\ r.places = walk[w].places /\ r.pc = "prev"
          /\ r.page = walk[w].page
      BY <2>1, <2>2 DEF WalkType, WalkPcs, PageInv, CopiesOK
    <2>4. Halfway(walk[w]) /\ PageOK(walk[w].key, walk[w].page)
      BY <1>1, <1>2, <2>2 DEF WalkOK, IsCursor
    <2>5. WalkOK(r)
      BY <1>2, <2>2, <2>3, <2>4, SameWalk DEF WalkOK
    <2>6. PagesOK' /\ HistoryOK'
      BY <1>1, <1>2, PagesStay, HistoryStays DEF PageInv
    <2> QED BY <1>1, <1>2, <2>1, <2>5, <2>6, OneStepOfWalk
  <1>3. CASE Finish(w, IF Remembered(walk[w].key) = {} THEN End ELSE CHOOSE p \in Remembered(walk[w].key) : TRUE)
    <2>1. PICK prev : prev = IF Remembered(walk[w].key) = {} THEN End ELSE CHOOSE p \in Remembered(walk[w].key) : TRUE
      OBVIOUS
    <2>2. prev = End \/ prev \in Remembered(walk[w].key)
      BY <2>1
    <2> QED BY <1>1, <1>3, <2>1, <2>2, FillFinishKeeps
  <1> QED BY <1>2, <1>3 DEF AnswerPage

\* The newest above the page is not below the height of its cursor: something
\* is stored there still.
LEMMA PrevIsUp ==
    ASSUME copies \in [Txs -> CopyType], NEW r \in WalkType, Halfway(r), PageOK(r.key, r.page), r.page.txs # {},
           NEW newer, newer = {t \in StoredTxs : Before(Highest({r.page.places[u] : u \in r.page.txs}), Position(t))},
           newer # {}
    PROVE  Highest(Positions(newer))[1] >= r.key[1]
  <1> DEFINE S == {r.page.places[u] : u \in r.page.txs}
  <1>1. S \in SUBSET PagePlaces /\ IsFiniteSet(S) /\ S # {}
    <2>1. r.page.txs \in SUBSET Txs /\ \A t \in r.page.txs : r.page.places[t] \in PagePlaces
      BY PageFacts
    <2>2. S \in SUBSET PagePlaces /\ IsFiniteSet(S)
      BY <2>1, PositionsFinite
    <2> QED BY <2>2
  <1>2. Highest(S) \in S
    <2> HIDE DEF S
    <2> QED BY <1>1, Extremes
  <1>3. PICK h : h = Highest(S)
    OBVIOUS
  <1>4. h \in PagePlaces /\ r.key \in PagePlaces /\ Before(h, r.key)
    BY <1>1, <1>2, <1>3 DEF PageOK, Halfway, WalkType
  <1>5. newer \in SUBSET Txs /\ \A t \in newer : t \in StoredTxs /\ Before(h, Position(t))
    BY <1>3, StoredPlaces
  <1>6. /\ Highest(Positions(newer)) \in Positions(newer) /\ Positions(newer) \in SUBSET PagePlaces
        /\ \A q \in Positions(newer) : ~Before(Highest(Positions(newer)), q)
    <2>1. PICK ps : ps = [t \in Txs |-> Position(t)]
      OBVIOUS
    <2>2. Positions(newer) = {ps[t] : t \in newer} /\ \A t \in newer : ps[t] \in PagePlaces
      BY <1>5, <2>1, StoredPlaces DEF Positions
    <2>3. Positions(newer) \in SUBSET PagePlaces /\ IsFiniteSet(Positions(newer))
      <3> HIDE DEF S
      <3>1. {ps[t] : t \in newer} \in SUBSET PagePlaces /\ IsFiniteSet({ps[t] : t \in newer})
        BY <1>5, <2>2, PositionsFinite
      <3> QED BY <2>2, <3>1
    <2>4. Positions(newer) # {}
      BY DEF Positions
    <2> QED BY <2>3, <2>4, Extremes
  <1>7. PICK m : m = Highest(Positions(newer))
    OBVIOUS
  <1>8. m \in PagePlaces /\ Before(h, m) /\ \A t \in newer : ~Before(m, Position(t))
    <2>1. \E t \in newer : m = Position(t)
      BY <1>6, <1>7 DEF Positions
    <2>2. \A t \in newer : ~Before(m, Position(t))
      BY <1>6, <1>7 DEF Positions
    <2> QED BY <1>5, <1>6, <1>7, <2>1, <2>2
  <1>9. PICK t \in StoredTxs : HeightOf[t] = r.key[1]
    BY DEF Halfway
  <1>10. Position(t) \in PagePlaces /\ Position(t)[1] = r.key[1]
    BY <1>9, StoredPlaces
  <1>11. CASE h[1] = r.key[1]
    BY <1>4, <1>7, <1>8, <1>11, PlacesOrder
  <1>12. CASE h[1] # r.key[1]
    <2>1. h[1] < r.key[1]
      BY <1>4, <1>12, PlacesOrder
    <2>2. Before(h, Position(t))
      BY <1>10, <2>1 DEF Before
    <2>3. t \in newer
      BY <1>3, <1>9, <2>2
    <2> QED BY <1>7, <1>8, <1>10, <2>3, PlacesOrder
  <1> QED BY <1>11, <1>12

LEMMA FindPrevKeeps ==
    ASSUME PageInv, NEW w \in Walkers, FindPrev(w)
    PROVE  PageInv'
  <1>1. UNCHANGED <<clock, stamp, copies, refresher, counted, jobs>> /\ walk[w].pc = "prev"
    BY DEF FindPrev
  <1>2. PICK r : r = walk[w]
    OBVIOUS
  <1>3. PICK newer : newer = {t \in StoredTxs : Before(Highest({r.page.places[u] : u \in r.page.txs}), Position(t))}
    OBVIOUS
  <1>4. \/ Finish(w, IF newer = {} THEN End ELSE Highest(Positions(newer))) /\ UNCHANGED pageBounds
        \/ Slip /\ Finish(w, End)
    BY <1>2, <1>3 DEF FindPrev
  <1>5. WalkOK(r) /\ r \in WalkType /\ copies \in [Txs -> CopyType] /\ Halfway(r) /\ PageOK(r.key, r.page)
        /\ r.page.txs # {}
    BY <1>1, <1>2, WalkTyped DEF WalkOK
  <1>6. PICK prev : prev = IF newer = {} THEN End ELSE Highest(Positions(newer))
    OBVIOUS
  <1>7. prev = End \/ prev[1] >= r.key[1]
    BY <1>3, <1>5, <1>6, PrevIsUp
  <1>8. (Finish(w, prev) /\ UNCHANGED pageBounds) \/ (Slip /\ Finish(w, End))
    BY <1>4, <1>6
  <1> QED BY <1>1, <1>2, <1>7, <1>8, FillFinishKeeps

LEMMA NoWalkTyped ==
    ASSUME NEW pc \in WalkPcs, NEW r, r = [NoWalk EXCEPT !.pc = pc]
    PROVE  r \in WalkType /\ r.pc = pc /\ GivenNothing(r) /\ r.twice = {} /\ \A t \in Txs : r.places[t] = {}
  <1>1. NoPage \in PageType
    <2>1. End \in PagePlaces /\ NotStored \in PagePlaces
      BY DEF End, NotStored, PagePlaces
    <2> QED BY <2>1 DEF NoPage, PageType
  <1>2. FirstPage \in PagePlaces
    BY DEF FirstPage, PagePlaces
  <1> QED BY <1>1, <1>2, AboveTyped DEF NoWalk, WalkType, GivenNothing

LEMMA FailedOK == WalkOK([NoWalk EXCEPT !.pc = "failed"]) /\ WalkOK(NoWalk)
  <1>1. ASSUME NEW r, r \in {[NoWalk EXCEPT !.pc = "failed"], NoWalk} PROVE WalkOK(r)
    <2>1. r \in WalkType /\ r.pc \in {"failed", "idle"} /\ GivenNothing(r) /\ r.twice = {}
          /\ \A t \in Txs : r.places[t] = {}
      <3>1. NoWalk = [NoWalk EXCEPT !.pc = "idle"] /\ {"failed", "idle"} \subseteq WalkPcs
        BY DEF NoWalk, WalkPcs
      <3> QED BY <1>1, <3>1, NoWalkTyped
    <2> QED BY <2>1, FS_EmptySet DEF WalkOK
  <1> QED BY <1>1

LEMMA PageFailsKeeps ==
    ASSUME PageInv, NEW w \in Walkers, PageFails(w)
    PROVE  PageInv'
  <1>1. /\ UNCHANGED <<clock, stamp, copies, pages, history, refresher, counted, jobs>> /\ Slip
        /\ Walk(w, [NoWalk EXCEPT !.pc = "failed"]) /\ StoredTxs \subseteq StoredTxs'
    BY DEF PageFails, StoredTxs
  <1>2. PagesOK' /\ HistoryOK'
    BY <1>1, PagesStay, HistoryStays DEF PageInv
  <1> QED BY <1>1, <1>2, FailedOK, OneStepOfWalk

LEMMA RefreshKeeps ==
    ASSUME PageInv, RefreshPage
    PROVE  PageInv'
  <1>1. /\ UNCHANGED <<clock, stamp, copies, history, counted, walk, jobs>> /\ (UNCHANGED pageBounds \/ Slip)
        /\ StoredTxs \subseteq StoredTxs' /\ clock \in Nat /\ copies \in [Txs -> CopyType]
    BY DEF RefreshPage, StoredTxs, PageInv, CopiesOK
  <1>2. CopiesOK' /\ FullBounded' /\ WalksOK' /\ HistoryOK'
    BY <1>1, CopiesStay, WalksStay, HistoryStays DEF PageInv
  <1>3. PagesOK'
    <2>1. UNCHANGED pages => \A e \in pages' : CachedPageOK(e)'
      <3>1. ASSUME NEW e \in pages PROVE CachedPageOK(e)'
        <4>1. PageOK(e.key, e.page)'
          BY <1>1, PageStays DEF PageInv, PagesOK, CachedPageOK
        <4> QED BY <1>1, <4>1 DEF PageInv, PagesOK, CachedPageOK
      <3> QED BY <3>1
    <2>2. ASSUME UNCHANGED pages, NEW page \in LatestPages, refresher' = [refresher EXCEPT !.pc = "found", !.page = page]
          PROVE  PagesOK'
      <3>1. PageOK(FirstPage, page)
        BY <1>1, LatestPagesOK
      <3>2. refresher' = [pc |-> "found", page |-> page, since |-> refresher.since]
        BY <2>2 DEF PageInv, PagesOK
      <3>3. PageOK(FirstPage, page)'
        BY <1>1, <3>1, PageStays DEF FirstPage
      <3>4. refresher'.pc = "found" /\ refresher'.page = page
            /\ refresher' = [pc |-> refresher'.pc, page |-> refresher'.page, since |-> refresher'.since]
        BY <3>2
      <3>5. PageOK(FirstPage, refresher.page)'
        <4>1. refresher'.page = page
          BY <3>4
        <4> QED BY <3>3, <4>1 DEF PageOK, Reached, TopOf, FirstPage
      <3> QED BY <2>1, <2>2, <3>4, <3>5 DEF PageInv, PagesOK
    <2>3. ASSUME refresher.pc = "found", refresher' = NotRefreshing, Put(FirstPage, refresher.page)
          PROVE  PagesOK'
      <3>1. (\A e \in pages' : CachedPageOK(e)') /\ \A e, d \in pages' : d.key = e.key => d = e
        BY <1>1, <2>3, PutKeeps DEF PageInv, PagesOK
      <3>2. refresher'.pc = "idle"
            /\ refresher' = [pc |-> refresher'.pc, page |-> refresher'.page, since |-> refresher'.since]
        BY <2>3 DEF NotRefreshing
      <3> QED BY <3>1, <3>2 DEF PagesOK
    <2>4. ASSUME UNCHANGED pages, refresher' = NotRefreshing PROVE PagesOK'
      <3>1. refresher'.pc = "idle"
            /\ refresher' = [pc |-> refresher'.pc, page |-> refresher'.page, since |-> refresher'.since]
        BY <2>4 DEF NotRefreshing
      <3> QED BY <2>1, <2>4, <3>1 DEF PageInv, PagesOK
    <2> QED BY <2>2, <2>3, <2>4 DEF RefreshPage
  <1> QED BY <1>2, <1>3 DEF PageInv

-----------------------------------------------------------------------------
\* Transactions are stored.
LEMMA FullByFewer ==
    ASSUME CopiesOK, NEW x, NEW y, \A t \in LiteTxs : copies[t].at <= x => copies[t].at <= y
    PROVE  /\ FullBy(x) \subseteq FullBy(y) /\ IsFiniteSet(FullBy(y))
           /\ Cardinality(FullBy(x)) \in Nat /\ Cardinality(FullBy(y)) \in Nat
           /\ Cardinality(FullBy(x)) <= Cardinality(FullBy(y))
  <1>1. FullBy(x) \subseteq FullBy(y) /\ FullBy(y) \in SUBSET Txs
    BY PageAssumption DEF FullBy, PageAssumption
  <1> QED BY <1>1, TxsFinite, FS_Subset, FS_CardinalityType

LEMMA LiteTyped ==
    ASSUME CopiesOK
    PROVE  /\ LiteTxs \subseteq Txs /\ {MaxFull, CountTTL, DbLag} \subseteq Nat \ {0}
           /\ \A t \in Txs : copies[t] \in CopyType /\ copies[t].at \in Nat /\ copies[t].time \in Int
           /\ clock \in Nat /\ stamp \in Nat /\ counted.n \in Nat /\ counted.until \in Nat
           /\ \A s \in SUBSET LiteTxs : IsFiniteSet(s) /\ Cardinality(s) \in Nat
  BY PageAssumption, TxsFinite DEF CopiesOK, PageAssumption, CopyType

\* saveTx's decision rests on a count not older than half a minute.
LEMMA DecidedOK ==
    ASSUME CopiesOK, NEW r \in JobType, r.todo # <<>>, NEW s, s = Decided(r)
    PROVE  JobOK(s) /\ s.time = r.time
  <1>1. /\ clock \in Nat /\ DbLag \in Nat /\ CountTTL \in Nat \ {0} /\ MaxFull \in Nat
        /\ counted.n \in Nat /\ counted.until \in Nat /\ Cardinality(FullBy(counted.until - CountTTL - 1)) <= counted.n
    BY LiteTyped DEF CopiesOK
  <1>2. CASE Head(r.todo) \notin LiteTxs
    <2>1. s = [r EXCEPT !.pc = "write", !.full = TRUE, !.guess = FALSE, !.since = clock]
      BY <1>2 DEF Decided
    <2>2. s \in JobType /\ s.todo = r.todo /\ s.since = clock /\ s.pc = "write" /\ s.time = r.time
      BY <1>1, <2>1 DEF JobType, JobPcs
    <2> QED BY <1>1, <1>2, <2>2 DEF JobOK
  <1>3. CASE Head(r.todo) \in LiteTxs /\ counted.until > clock
    <2>1. PICK full : full = (counted.n < MaxFull)
      OBVIOUS
    <2>2. full \in BOOLEAN
      BY <2>1
    <2>3. s = [r EXCEPT !.pc = "write", !.full = full, !.guess = FALSE, !.since = clock]
      BY <1>3, <2>1, Zenon DEF Decided
    <2>4. s \in JobType /\ s.todo = r.todo /\ s.since = clock /\ s.pc = "write" /\ s.full = full /\ s.time = r.time
      BY <1>1, <2>2, <2>3 DEF JobType, JobPcs
    <2>5. full => Cardinality(FullBy(clock - CountTTL)) < MaxFull
      <3>1. \A t \in LiteTxs : copies[t].at <= clock - CountTTL => copies[t].at <= counted.until - CountTTL - 1
        BY <1>1, <1>3, LiteTyped
      <3>2. /\ Cardinality(FullBy(clock - CountTTL)) <= Cardinality(FullBy(counted.until - CountTTL - 1))
            /\ Cardinality(FullBy(clock - CountTTL)) \in Nat
            /\ Cardinality(FullBy(counted.until - CountTTL - 1)) \in Nat
        BY <3>1, FullByFewer
      <3>3. full => counted.n < MaxFull
        BY <2>1, Zenon
      <3> QED BY <1>1, <3>2, <3>3
    <2> QED BY <1>1, <2>4, <2>5 DEF JobOK
  <1>4. CASE Head(r.todo) \in LiteTxs /\ ~(counted.until > clock)
    <2>1. s = [r EXCEPT !.pc = "count", !.since = clock]
      BY <1>4 DEF Decided
    <2>2. s \in JobType /\ s.todo = r.todo /\ s.since = clock /\ s.pc = "count" /\ s.time = r.time
      BY <1>1, <2>1 DEF JobType, JobPcs
    <2> QED BY <1>1, <2>2 DEF JobOK
  <1> QED BY <1>2, <1>3, <1>4

LEMMA NoJobOK ==
    ASSUME NEW pc \in {"off", "done"}, NEW r, r = [NoJob EXCEPT !.pc = pc]
    PROVE  r \in JobType /\ JobOK(r) /\ r.time = 0
  <1>1. <<>> \in Seq(Txs)
    OBVIOUS
  <1>2. r \in JobType /\ r.time = 0 /\ r.pc = pc
    BY <1>1 DEF NoJob, JobType, JobPcs
  <1> QED BY <1>2 DEF JobOK

LEMMA TakesOK ==
    ASSUME CopiesOK, NEW j \in pageScene.jobs, NEW todo \in Seq(Txs), Takes(j, todo)
    PROVE  /\ stamp' \in Nat /\ stamp' >= stamp
           /\ \E r : Job(j, r) /\ JobOK(r) /\ r.time <= stamp'
  <1>1. stamp \in Nat
    BY LiteTyped
  <1>2. CASE todo = <<>>
    <2>1. Job(j, [NoJob EXCEPT !.pc = "done"]) /\ stamp' = stamp
      BY <1>2 DEF Takes
    <2> QED BY <1>1, <2>1, NoJobOK
  <1>3. CASE todo # <<>>
    <2>1. PICK time \in IF j.kind = "ask" THEN {0} ELSE {stamp, stamp + 1} :
             Job(j, Decided([NoJob EXCEPT !.todo = todo, !.time = time])) /\ stamp' = Max({stamp, time})
      BY <1>3 DEF Takes
    <2>2. PICK r : r = [NoJob EXCEPT !.todo = todo, !.time = time]
      OBVIOUS
    <2>3. time \in Nat
      BY <1>1, <2>1
    <2>4. r \in JobType /\ r.todo = todo /\ r.time = time
      BY <2>2, <2>3 DEF NoJob, JobType, JobPcs
    <2>5. PICK s : s = Decided(r)
      OBVIOUS
    <2>6. JobOK(s) /\ s.time = time
      BY <1>3, <2>4, <2>5, DecidedOK
    <2>7. stamp' \in Nat /\ stamp' >= stamp /\ time <= stamp'
      BY <1>1, <2>1, <2>3, MinMaxOfTwo
    <2> QED BY <2>1, <2>2, <2>5, <2>6, <2>7
  <1> QED BY <1>2, <1>3

\* Of what was full before now, nothing is added.
Lasting == \A x \in Int : x < clock => FullBy(x)' \subseteq FullBy(x)

LEMMA JobStays ==
    ASSUME CopiesOK, Lasting, UNCHANGED clock, NEW r, JobOK(r)
    PROVE  JobOK(r)'
  <1>1. CASE r.pc = "write" /\ Head(r.todo) \in LiteTxs /\ r.full /\ ~r.guess
    <2>1. PICK x : x = r.since - CountTTL
      OBVIOUS
    <2>2. x \in Int /\ x < clock /\ Cardinality(FullBy(x)) < MaxFull
      BY <1>1, <2>1, LiteTyped DEF JobOK, JobType
    <2>3. FullBy(x)' \subseteq FullBy(x) /\ FullBy(x) \in SUBSET LiteTxs
      BY <2>2 DEF Lasting, FullBy
    <2>4. IsFiniteSet(FullBy(x)) /\ Cardinality(FullBy(x)) \in Nat
      BY <2>3, LiteTyped
    <2>5. PICK fewer : fewer = FullBy(x)'
      OBVIOUS
    <2>6. Cardinality(fewer) <= Cardinality(FullBy(x)) /\ Cardinality(fewer) \in Nat
      BY <2>3, <2>4, <2>5, FS_Subset, FS_CardinalityType
    <2>7. Cardinality(fewer) < MaxFull
      BY <2>2, <2>4, <2>6, LiteTyped
    <2>8. Cardinality(FullBy(r.since - CountTTL))' < MaxFull
      BY <2>1, <2>5, <2>7 DEF FullBy
    <2> QED BY <1>1, <2>8 DEF JobOK
  <1>2. CASE ~(r.pc = "write" /\ Head(r.todo) \in LiteTxs /\ r.full /\ ~r.guess)
    BY <1>2 DEF JobOK
  <1> QED BY <1>1, <1>2

LEMMA JobsHold ==
    ASSUME NEW Js, jobs' = [j \in Js |-> jobs'[j]], \A j \in Js : \E s : jobs'[j] = s /\ JobOK(s)'
    PROVE  jobs' \in [Js -> JobType] /\ \A j \in Js : JobOK(jobs[j])'
  <1>1. ASSUME NEW j \in Js PROVE JobOK(jobs[j])' /\ jobs'[j] \in JobType
    <2>1. PICK s : jobs'[j] = s /\ JobOK(s)'
      OBVIOUS
    <2> QED BY <2>1 DEF JobOK, FullBy
  <1> QED BY <1>1

LEMMA CopiesKeep ==
    ASSUME CopiesOK, UNCHANGED clock, UNCHANGED pageBounds \/ Slip, copies' \in [Txs -> CopyType],
           stamp' \in Nat, stamp' >= stamp, Lasting,
           \A t \in Txs : /\ copies'[t].time \in -1..stamp' /\ copies'[t].at <= clock
                          /\ copies'[t].content => copies'[t].time >= 0,
           NEW j \in pageScene.jobs, NEW r, Job(j, r), JobOK(r), r.time <= stamp',
           UNCHANGED counted \/ /\ UNCHANGED copies /\ counted'.n \in Nat /\ counted'.until \in Nat
                                /\ counted'.until <= clock + CountTTL
                                /\ Cardinality(FullBy(counted'.until - CountTTL - 1)) <= counted'.n
    PROVE  CopiesOK'
  <1>1. pageScene' = pageScene /\ slips' \in 0..pageScene.slips
    <2>1. pageScene.slips \in Nat
      BY PageAssumption DEF CopiesOK, PageAssumption
    <2> QED BY <2>1 DEF Slip, pageBounds, CopiesOK
  <1>2. /\ jobs' = [i \in pageScene.jobs |-> jobs'[i]] /\ jobs'[j] = r
        /\ \A i \in pageScene.jobs : i # j => jobs'[i] = jobs[i]
    BY DEF Job, CopiesOK
  <1>3. ASSUME NEW i \in pageScene.jobs PROVE (\E s : jobs'[i] = s /\ JobOK(s)') /\ jobs'[i].time <= stamp'
    <2>1. CASE i = j
      <3>1. JobOK(r)'
        BY JobStays
      <3> QED BY <1>2, <2>1, <3>1
    <2>2. CASE i # j
      <3>1. PICK s : s = jobs[i]
        OBVIOUS
      <3>2. JobOK(s) /\ s.time <= stamp /\ s.time \in Nat
        BY <3>1 DEF CopiesOK, JobOK, JobType
      <3>3. JobOK(s)'
        BY <3>2, JobStays
      <3>4. stamp \in Nat
        BY LiteTyped
      <3> QED BY <1>2, <2>2, <3>1, <3>2, <3>3, <3>4
    <2> QED BY <2>1, <2>2
  <1>4. jobs' \in [pageScene.jobs -> JobType] /\ \A i \in pageScene.jobs : JobOK(jobs[i])'
    BY <1>2, <1>3, JobsHold
  <1>5. counted'.n \in Nat /\ counted'.until \in Nat /\ counted'.until <= clock + CountTTL
    BY DEF CopiesOK
  <1>6. Cardinality(FullBy(counted.until - CountTTL - 1))' <= counted'.n
    <2>1. CASE UNCHANGED counted
      <3>1. PICK x : x = counted.until - CountTTL - 1
        OBVIOUS
      <3>2. x \in Int /\ x < clock /\ Cardinality(FullBy(x)) <= counted.n
        BY <3>1, LiteTyped DEF CopiesOK
      <3>3. FullBy(x)' \subseteq FullBy(x) /\ FullBy(x) \in SUBSET LiteTxs
        BY <3>2 DEF Lasting, FullBy
      <3>4. IsFiniteSet(FullBy(x)) /\ Cardinality(FullBy(x)) \in Nat
        BY <3>3, LiteTyped
      <3>5. PICK fewer : fewer = FullBy(x)'
        OBVIOUS
      <3>6. Cardinality(fewer) <= Cardinality(FullBy(x)) /\ Cardinality(fewer) \in Nat
        BY <3>3, <3>4, <3>5, FS_Subset, FS_CardinalityType
      <3>7. Cardinality(fewer) <= counted.n
        BY <3>2, <3>4, <3>6, LiteTyped
      <3>8. FullBy(counted.until - CountTTL - 1)' = fewer
        BY <2>1, <3>1, <3>5 DEF FullBy
      <3> QED BY <2>1, <3>7, <3>8
    <2>2. CASE UNCHANGED copies /\ Cardinality(FullBy(counted'.until - CountTTL - 1)) <= counted'.n
      <3>1. FullBy(counted.until - CountTTL - 1)' = FullBy(counted'.until - CountTTL - 1)
        BY <2>2 DEF FullBy, IsFull, StoredTxs
      <3> QED BY <2>2, <3>1
    <2> QED BY <2>1, <2>2
  <1>7. \A t \in Txs : copies'[t].content => t \in StoredTxs'
    BY DEF StoredTxs
  <1>8. clock' \in Nat
    BY DEF CopiesOK
  <1> QED BY <1>1, <1>3, <1>4, <1>5, <1>6, <1>7, <1>8 DEF CopiesOK

LEMMA JobStepKeeps ==
    ASSUME PageInv, NEW j \in pageScene.jobs, UNCHANGED <<clock, copies, pages, history, refresher, walk>>,
           UNCHANGED pageBounds \/ Slip, stamp' \in Nat, stamp' >= stamp,
           NEW r, Job(j, r), JobOK(r), r.time <= stamp',
           UNCHANGED counted \/ /\ counted'.n \in Nat /\ counted'.until \in Nat
                                /\ counted'.until <= clock + CountTTL
                                /\ Cardinality(FullBy(counted'.until - CountTTL - 1)) <= counted'.n
    PROVE  PageInv'
  <1>1. CopiesOK /\ StoredTxs' = StoredTxs
    BY DEF PageInv, StoredTxs
  <1>2. Lasting
    BY DEF Lasting, FullBy, IsFull, StoredTxs
  <1>3. \A t \in Txs : /\ copies'[t].time \in -1..stamp' /\ copies'[t].at <= clock
                       /\ copies'[t].content => copies'[t].time >= 0
    BY <1>1, LiteTyped DEF CopiesOK, StoredTxs
  <1>4. CopiesOK'
    <2>1. copies' \in [Txs -> CopyType]
      BY <1>1 DEF CopiesOK
    <2> QED BY <1>1, <1>2, <1>3, <2>1, CopiesKeep
  <1>5. FullBounded'
    BY DEF PageInv, FullBounded, IsFull, StoredTxs
  <1> QED BY <1>1, <1>4, <1>5, PagesStay, HistoryStays, WalksStay DEF PageInv

JobFrame == UNCHANGED <<clock, copies, pages, history, refresher, walk>>

LEMMA JobTyped ==
    ASSUME PageInv, NEW j \in pageScene.jobs
    PROVE  /\ CopiesOK /\ jobs[j] \in JobType /\ JobOK(jobs[j]) /\ jobs[j].time <= stamp
           /\ j.txs \in Seq(Txs) /\ stamp \in Nat /\ clock \in Nat /\ DOMAIN jobs = pageScene.jobs
  BY PageAssumption DEF PageInv, CopiesOK, PageAssumption

LEMMA TakesKeeps ==
    ASSUME PageInv, NEW j \in pageScene.jobs, NEW todo \in Seq(Txs), Takes(j, todo), JobFrame,
           UNCHANGED counted, UNCHANGED pageBounds \/ Slip
    PROVE  PageInv'
  <1>1. PICK r : Job(j, r) /\ JobOK(r) /\ r.time <= stamp'
    BY TakesOK, JobTyped
  <1>2. stamp' \in Nat /\ stamp' >= stamp
    BY TakesOK, JobTyped
  <1> QED BY <1>1, <1>2, JobStepKeeps DEF JobFrame

\* A call that waits for an answer, from now on
LEMMA WaitingOK ==
    ASSUME PageInv, NEW r \in JobType, r.since = clock, r.pc \in {"look", "fetch"}
    PROVE  JobOK(r)
  BY LiteTyped DEF PageInv, JobOK

LEMMA JobBeginsKeeps ==
    ASSUME PageInv, NEW j \in pageScene.jobs, JobBegins(j)
    PROVE  PageInv'
  <1>1. JobFrame /\ UNCHANGED <<pageBounds, counted>>
    BY DEF JobBegins, JobFrame
  <1>2. CASE Takes(j, j.txs)
    BY <1>1, <1>2, TakesKeeps, JobTyped
  <1>3. CASE Job(j, [NoJob EXCEPT !.pc = "look", !.since = clock]) /\ UNCHANGED stamp
    <2>1. PICK r : r = [NoJob EXCEPT !.pc = "look", !.since = clock]
      OBVIOUS
    <2>2. r \in JobType /\ r.since = clock /\ r.pc = "look" /\ r.time = 0
      <3>1. <<>> \in Seq(Txs)
        OBVIOUS
      <3> QED BY <2>1, <3>1, JobTyped DEF NoJob, JobType, JobPcs
    <2>3. JobOK(r) /\ Job(j, r)
      BY <1>3, <2>1, <2>2, WaitingOK
    <2>4. stamp' \in Nat /\ stamp' >= stamp /\ r.time <= stamp'
      BY <1>3, <2>2, JobTyped
    <2> QED BY <1>1, <2>3, <2>4, JobStepKeeps DEF JobFrame
  <1> QED BY <1>2, <1>3 DEF JobBegins

LEMMA LookUpKeeps ==
    ASSUME PageInv, NEW j \in pageScene.jobs, LookUp(j)
    PROVE  PageInv'
  <1>1. PICK pc : pc = IF \E i \in DOMAIN j.txs : j.txs[i] \in StoredTxs THEN "done" ELSE "fetch"
    OBVIOUS
  <1>2. PICK r : r = [jobs[j] EXCEPT !.pc = pc, !.since = clock]
    OBVIOUS
  <1>3. pc \in {"done", "fetch"} /\ Job(j, r) /\ JobFrame /\ UNCHANGED <<pageBounds, stamp, counted>>
    BY <1>1, <1>2 DEF LookUp, JobFrame
  <1>4. r \in JobType /\ r.since = clock /\ r.pc = pc /\ r.time = jobs[j].time
    BY <1>2, <1>3, JobTyped DEF JobType, JobPcs
  <1>5. JobOK(r)
    <2>1. CASE pc = "done"
      BY <1>4, <2>1 DEF JobOK
    <2>2. CASE pc = "fetch"
      BY <1>4, <2>2, WaitingOK
    <2> QED BY <1>3, <2>1, <2>2
  <1> QED BY <1>3, <1>4, <1>5, JobTyped, JobStepKeeps DEF JobFrame

LEMMA FetchTxsKeeps ==
    ASSUME PageInv, NEW j \in pageScene.jobs, FetchTxs(j)
    PROVE  PageInv'
  <1>1. JobFrame /\ UNCHANGED counted
    BY DEF FetchTxs, JobFrame
  <1>2. <<>> \in Seq(Txs)
    OBVIOUS
  <1>3. (Takes(j, j.txs) /\ UNCHANGED pageBounds) \/ (Slip /\ Takes(j, <<>>))
    BY DEF FetchTxs
  <1> QED BY <1>1, <1>2, <1>3, TakesKeeps, JobTyped

LEMMA CountFullKeeps ==
    ASSUME PageInv, NEW j \in pageScene.jobs, CountFull(j)
    PROVE  PageInv'
  <1> DEFINE all == {t \in LiteTxs : IsFull(t)}
  <1>1. JobFrame /\ UNCHANGED stamp /\ jobs[j].pc = "count"
    BY DEF CountFull, JobFrame
  <1>2. PICK n : n = Cardinality(all)
    OBVIOUS
  <1>3. n \in Nat /\ \A x : Cardinality(FullBy(x)) \in Nat /\ Cardinality(FullBy(x)) <= n
    <2>1. all \in SUBSET LiteTxs /\ \A x : FullBy(x) \subseteq all
      BY DEF FullBy
    <2>2. IsFiniteSet(all) /\ Cardinality(all) \in Nat
      BY <2>1, LiteTyped DEF PageInv
    <2> HIDE DEF all
    <2> QED BY <1>2, <2>1, <2>2, FS_Subset, FS_CardinalityType
  <1>4. /\ CountTTL \in Nat \ {0} /\ MaxFull \in Nat /\ clock \in Nat /\ DbLag \in Nat
        /\ jobs[j].todo # <<>>
    BY <1>1, LiteTyped, JobTyped DEF PageInv, JobOK
  <1>5. CASE /\ counted' = [n |-> n, until |-> clock + CountTTL] /\ UNCHANGED pageBounds
             /\ Job(j, [jobs[j] EXCEPT !.pc = "write", !.full = n < MaxFull, !.guess = FALSE, !.since = clock])
    <2>1. PICK full : full = (n < MaxFull)
      OBVIOUS
    <2>2. PICK r : r = [jobs[j] EXCEPT !.pc = "write", !.full = full, !.guess = FALSE, !.since = clock]
      OBVIOUS
    <2>3. /\ r \in JobType /\ r.todo = jobs[j].todo /\ r.since = clock /\ r.pc = "write" /\ r.full = full
          /\ r.time = jobs[j].time
      <3>1. full \in BOOLEAN
        BY <2>1
      <3> HIDE DEF all
      <3> QED BY <1>4, <2>2, <3>1, JobTyped DEF JobType, JobPcs
    <2>4. full => n < MaxFull
      BY <2>1, Zenon
    <2>5. full => Cardinality(FullBy(clock - CountTTL)) < MaxFull
      BY <1>3, <1>4, <2>4
    <2>6. JobOK(r)
      BY <1>4, <2>3, <2>5 DEF JobOK
    <2>7. /\ counted'.n = n /\ counted'.until = clock + CountTTL
          /\ Cardinality(FullBy(counted'.until - CountTTL - 1)) <= counted'.n
      BY <1>3, <1>5
    <2>8. Job(j, r)
      BY <1>5, <2>1, <2>2
    <2> QED BY <1>1, <1>3, <1>4, <1>5, <2>3, <2>6, <2>7, <2>8, JobTyped, JobStepKeeps DEF JobFrame
  <1>6. CASE /\ Slip /\ UNCHANGED counted
             /\ Job(j, [jobs[j] EXCEPT !.pc = "write", !.full = TRUE, !.guess = TRUE, !.since = clock])
    <2>1. PICK r : r = [jobs[j] EXCEPT !.pc = "write", !.full = TRUE, !.guess = TRUE, !.since = clock]
      OBVIOUS
    <2>2. /\ r \in JobType /\ r.todo = jobs[j].todo /\ r.since = clock /\ r.pc = "write" /\ r.guess
          /\ r.time = jobs[j].time
      BY <1>4, <2>1, JobTyped DEF JobType, JobPcs
    <2>3. JobOK(r)
      BY <1>4, <2>2 DEF JobOK
    <2>4. stamp' \in Nat /\ stamp' >= stamp /\ r.time <= stamp' /\ Job(j, r)
      BY <1>1, <1>6, <2>1, <2>2, JobTyped
    <2> QED BY <1>1, <1>6, <2>3, <2>4, JobStepKeeps DEF JobFrame
  <1> QED BY <1>2, <1>5, <1>6 DEF CountFull

-----------------------------------------------------------------------------
\* A copy is written: in full, with what there is, only where a few are.
Saves(t, r, c) == c = Saved(t, r) /\ copies' = [copies EXCEPT ![t] = c]

LEMMA SavedFields ==
    ASSUME PageInv, NEW t \in Txs, NEW r \in JobType, r.time <= stamp, NEW c, Saves(t, r, c)
    PROVE  /\ c \in CopyType /\ c.time = r.time /\ c.at <= clock
           /\ copies' \in [Txs -> CopyType] /\ copies'[t] = c /\ \A u \in Txs \ {t} : copies'[u] = copies[u]
           /\ StoredTxs' = StoredTxs \cup {t}
           /\ c.content /\ ~c.lite => r.full /\ \/ IsFull(t) /\ c.at = copies[t].at /\ c.guess = copies[t].guess
                                                \/ c.at = clock /\ c.guess = r.guess
  <1>1. /\ copies \in [Txs -> CopyType] /\ copies[t] \in CopyType /\ clock \in Nat /\ copies[t].at <= clock
        /\ copies[t].content => t \in StoredTxs
        /\ r.time \in Nat /\ r.full \in BOOLEAN /\ r.guess \in BOOLEAN
    BY DEF PageInv, CopiesOK, JobType
  <1>2. PICK full : full = (r.full /\ ~(copies[t].content /\ ~copies[t].lite))
    OBVIOUS
  <1>3. PICK at : at = IF full THEN clock ELSE copies[t].at
    OBVIOUS
  <1>4. PICK guess : guess = IF full THEN r.guess ELSE copies[t].guess
    OBVIOUS
  <1>5. PICK content : content = (copies[t].content \/ r.full)
    OBVIOUS
  <1>6. PICK lite : lite = ~r.full
    OBVIOUS
  <1>7. c = [time |-> r.time, content |-> content, lite |-> lite, at |-> at, guess |-> guess]
    BY <1>2, <1>3, <1>4, <1>5, <1>6 DEF Saved, Saves
  <1>8. full \in BOOLEAN /\ content \in BOOLEAN /\ lite \in BOOLEAN
    BY <1>2, <1>5, <1>6
  <1>9. at \in Nat /\ at <= clock
    BY <1>1, <1>3, <1>8 DEF CopyType
  <1>10. guess \in BOOLEAN
    <2>1. copies[t].guess \in BOOLEAN
      BY <1>1 DEF CopyType
    <2> QED BY <1>1, <1>4, <1>8, <2>1
  <1>11. c \in CopyType /\ c.time = r.time /\ c.at = at /\ c.guess = guess /\ c.content = content /\ c.lite = lite
    BY <1>1, <1>7, <1>8, <1>9, <1>10 DEF CopyType
  <1>12. copies' \in [Txs -> CopyType] /\ copies'[t] = c /\ \A u \in Txs \ {t} : copies'[u] = copies[u]
    BY <1>1, <1>11 DEF Saves
  <1>13. StoredTxs' = StoredTxs \cup {t}
    BY <1>1, <1>11, <1>12 DEF StoredTxs
  <1>14. c.content /\ ~c.lite => r.full
    BY <1>1, <1>6, <1>11
  <1>15. full => at = clock /\ guess = r.guess
    BY <1>3, <1>4, Zenon
  <1>16. ~full => at = copies[t].at /\ guess = copies[t].guess
    BY <1>3, <1>4, Zenon
  <1>17. r.full /\ ~full => IsFull(t)
    BY <1>1, <1>2, Zenon DEF IsFull
  <1> QED BY <1>9, <1>11, <1>12, <1>13, <1>14, <1>15, <1>16, <1>17

LEMMA SavedKeeps ==
    ASSUME PageInv, NEW j \in pageScene.jobs, jobs[j].pc = "write", NEW t, t = Head(jobs[j].todo),
           copies' = [copies EXCEPT ![t] = Saved(t, jobs[j])], UNCHANGED clock
    PROVE  /\ copies' \in [Txs -> CopyType] /\ StoredTxs \subseteq StoredTxs' /\ Lasting /\ FullBounded'
           /\ \A u \in Txs : /\ copies'[u].time \in -1..stamp /\ copies'[u].at <= clock
                             /\ copies'[u].content => copies'[u].time >= 0
  <1>1. PICK r : r = jobs[j]
    OBVIOUS
  <1>2. /\ r \in JobType /\ JobOK(r) /\ r.time <= stamp /\ r.time \in Nat /\ stamp \in Nat /\ r.pc = "write"
        /\ r.since \in Nat /\ clock \in Nat /\ t \in Txs
    <2>1. r \in JobType /\ JobOK(r) /\ r.time <= stamp /\ stamp \in Nat /\ clock \in Nat
      BY <1>1, JobTyped
    <2>2. r.todo # <<>> /\ r.todo \in Seq(Txs)
      BY <1>1, <2>1 DEF JobOK, JobType
    <2>3. Head(r.todo) \in Txs
      BY <2>2
    <2> QED BY <1>1, <2>1, <2>3 DEF JobType
  <1>3. PICK c : c = Saved(t, r)
    OBVIOUS
  <1>4. Saves(t, r, c)
    BY <1>1, <1>3 DEF Saves
  <1>5. /\ c \in CopyType /\ c.time = r.time /\ c.at <= clock
        /\ copies' \in [Txs -> CopyType] /\ copies'[t] = c /\ \A u \in Txs \ {t} : copies'[u] = copies[u]
        /\ StoredTxs' = StoredTxs \cup {t}
        /\ c.content /\ ~c.lite => r.full /\ \/ IsFull(t) /\ c.at = copies[t].at /\ c.guess = copies[t].guess
                                             \/ c.at = clock /\ c.guess = r.guess
    BY <1>2, <1>4, SavedFields
  <1>6. ASSUME NEW u \in Txs
        PROVE  /\ copies'[u].time \in -1..stamp /\ copies'[u].at <= clock
               /\ copies'[u].content => copies'[u].time >= 0
    <2>1. CASE u = t
      BY <1>2, <1>5, <2>1
    <2>2. CASE u # t
      BY <1>5, <2>2 DEF PageInv, CopiesOK, StoredTxs
    <2> QED BY <2>1, <2>2
  <1>11. ASSUME NEW u \in LiteTxs, IsFull(u)'
         PROVE  \/ IsFull(u) /\ copies'[u].at = copies[u].at /\ copies'[u].guess = copies[u].guess
                \/ u = t /\ r.full /\ c.at = clock /\ c.guess = r.guess
    <2>1. u \in Txs /\ u \in StoredTxs' /\ copies'[u].content /\ ~copies'[u].lite
      BY <1>11, LiteTyped DEF PageInv, IsFull
    <2>2. CASE u = t
      BY <1>5, <2>1, <2>2
    <2>3. CASE u # t
      BY <1>5, <2>1, <2>3 DEF IsFull
    <2> QED BY <2>2, <2>3
  <1>7. ASSUME NEW u \in LiteTxs, IsFull(u)', copies'[u].at < clock
        PROVE  IsFull(u) /\ copies'[u].at = copies[u].at /\ copies'[u].guess = copies[u].guess
    <2>1. u \in Txs
      BY LiteTyped DEF PageInv
    <2>2. CASE u = t /\ c.at = clock
      BY <1>2, <1>5, <1>7, <2>2
    <2>3. CASE IsFull(u) /\ copies'[u].at = copies[u].at /\ copies'[u].guess = copies[u].guess
      BY <2>3
    <2>4. (u = t /\ c.at = clock) \/ (IsFull(u) /\ copies'[u].at = copies[u].at /\ copies'[u].guess = copies[u].guess)
      BY <1>7, <1>11
    <2> QED BY <2>2, <2>3, <2>4
  <1>8. Lasting
    <2>1. ASSUME NEW x \in Int, x < clock, NEW u \in LiteTxs, IsFull(u)', copies'[u].at <= x
          PROVE  IsFull(u) /\ copies[u].at <= x
      <3>1. copies'[u].at \in Nat
        BY <1>5, LiteTyped DEF PageInv, CopyType
      <3> QED BY <1>2, <1>7, <2>1, <3>1
    <2> QED BY <2>1 DEF Lasting, FullBy
  <1>9. ASSUME NEW v \in LiteTxs, IsFull(v)', copies'[v].at > 0, ~copies'[v].guess
        PROVE  Cardinality({u \in LiteTxs \ {v} : IsFull(u)' /\ copies'[u].at <= copies'[v].at - CountTTL - DbLag}) < MaxFull
    <2> DEFINE late == copies'[v].at - CountTTL - DbLag
               after == {u \in LiteTxs \ {v} : IsFull(u)' /\ copies'[u].at <= late}
    <2>1. v \in Txs /\ copies'[v].at \in Nat /\ copies'[v].at <= clock /\ {CountTTL, DbLag} \subseteq Nat \ {0}
          /\ MaxFull \in Nat
      BY <1>5, <1>6, LiteTyped DEF PageInv, CopyType
    <2>2. late \in Int /\ late < clock /\ \A u \in LiteTxs : copies'[u].at \in Nat
      <3>1. \A u \in LiteTxs : copies'[u].at \in Nat
        BY <1>5, LiteTyped DEF PageInv, CopyType
      <3> QED BY <1>2, <2>1, <3>1
    <2>3. \A u \in after : u \in LiteTxs \ {v} /\ IsFull(u) /\ copies[u].at <= late
      <3> SUFFICES ASSUME NEW u \in after PROVE u \in LiteTxs \ {v} /\ IsFull(u) /\ copies[u].at <= late
        OBVIOUS
      <3>1. u \in LiteTxs \ {v} /\ IsFull(u)' /\ copies'[u].at <= late /\ copies'[u].at < clock
        <4> HIDE DEF late
        <4> QED BY <1>2, <2>2
      <3> QED BY <1>7, <3>1
    <2>4. CASE v = t /\ c.at = clock /\ c.guess = r.guess /\ r.full
      <3>1. Cardinality(FullBy(r.since - CountTTL)) < MaxFull
        BY <1>1, <1>2, <1>5, <1>9, <2>4 DEF JobOK
      <3>2. late <= r.since - CountTTL
        BY <1>2, <1>5, <2>1, <2>4 DEF JobOK
      <3>3. after \subseteq FullBy(r.since - CountTTL)
        <4>1. ASSUME NEW u \in after PROVE u \in LiteTxs /\ IsFull(u) /\ copies[u].at <= r.since - CountTTL
          <5>1. u \in LiteTxs /\ IsFull(u) /\ copies[u].at <= late /\ copies[u].at \in Nat
            <6>1. u \in LiteTxs /\ IsFull(u) /\ copies[u].at <= late
              BY <2>3
            <6> QED BY <6>1, LiteTyped DEF PageInv
          <5> HIDE DEF late
          <5> QED BY <1>2, <2>1, <2>2, <3>2, <5>1
        <4> HIDE DEF after
        <4> QED BY <4>1 DEF FullBy
      <3>4. FullBy(r.since - CountTTL) \in SUBSET LiteTxs
        BY DEF FullBy
      <3> HIDE DEF after
      <3>5. Cardinality(after) <= Cardinality(FullBy(r.since - CountTTL)) /\ Cardinality(after) \in Nat
            /\ Cardinality(FullBy(r.since - CountTTL)) \in Nat
        BY <3>3, <3>4, LiteTyped, FS_Subset, FS_CardinalityType DEF PageInv
      <3>6. Cardinality(after) < MaxFull
        BY <2>1, <3>1, <3>5
      <3> QED BY <3>6 DEF after
    <2>5. CASE IsFull(v) /\ copies'[v].at = copies[v].at /\ copies'[v].guess = copies[v].guess
      <3> DEFINE old == {u \in LiteTxs \ {v} : IsFull(u) /\ copies[u].at <= copies[v].at - CountTTL - DbLag}
      <3>1. Cardinality(old) < MaxFull
        BY <1>9, <2>5 DEF PageInv, FullBounded
      <3>2. after \subseteq old
        BY <2>3, <2>5
      <3>3. old \in SUBSET LiteTxs
        OBVIOUS
      <3> HIDE DEF after, old
      <3>4. Cardinality(after) <= Cardinality(old) /\ Cardinality(after) \in Nat /\ Cardinality(old) \in Nat
        BY <3>2, <3>3, LiteTyped, FS_Subset, FS_CardinalityType DEF PageInv
      <3>5. Cardinality(after) < MaxFull
        BY <2>1, <3>1, <3>4
      <3> QED BY <3>5 DEF after
    <2>6. (v = t /\ c.at = clock /\ c.guess = r.guess /\ r.full)
          \/ (IsFull(v) /\ copies'[v].at = copies[v].at /\ copies'[v].guess = copies[v].guess)
      BY <1>9, <1>11
    <2> QED BY <2>4, <2>5, <2>6
  <1>10. FullBounded'
    BY <1>9 DEF FullBounded
  <1> QED BY <1>5, <1>6, <1>8, <1>10

LEMMA WriteTxKeeps ==
    ASSUME PageInv, NEW j \in pageScene.jobs, WriteTx(j)
    PROVE  PageInv'
  <1>1. /\ jobs[j].pc = "write" /\ jobs[j] \in JobType /\ jobs[j].todo # <<>> /\ jobs[j].todo \in Seq(Txs)
        /\ CopiesOK /\ stamp \in Nat /\ jobs[j].time <= stamp /\ jobs[j].time \in Nat
        /\ UNCHANGED <<clock, pages, history, refresher, counted, walk>>
    BY JobTyped DEF WriteTx, JobOK, JobType
  <1>2. PICK t : t = Head(jobs[j].todo)
    OBVIOUS
  <1>3. PICK rest : rest = Tail(jobs[j].todo)
    OBVIOUS
  <1>4. rest \in Seq(Txs)
    BY <1>1, <1>3
  <1>5. CASE Slip /\ Takes(j, rest) /\ UNCHANGED copies
    BY <1>1, <1>4, <1>5, TakesKeeps DEF JobFrame
  <1>6. CASE /\ copies' = [copies EXCEPT ![t] = Saved(t, jobs[j])] /\ UNCHANGED pageBounds
             /\ \/ Job(j, Decided([jobs[j] EXCEPT !.again = TRUE])) /\ UNCHANGED stamp
                \/ Takes(j, rest)
    <2>1. /\ copies' \in [Txs -> CopyType] /\ StoredTxs \subseteq StoredTxs' /\ Lasting /\ FullBounded'
          /\ \A u \in Txs : /\ copies'[u].time \in -1..stamp /\ copies'[u].at <= clock
                            /\ copies'[u].content => copies'[u].time >= 0
      BY <1>1, <1>2, <1>6, SavedKeeps
    <2>2. stamp' \in Nat /\ stamp' >= stamp /\ \E r : Job(j, r) /\ JobOK(r) /\ r.time <= stamp'
      <3>1. CASE Job(j, Decided([jobs[j] EXCEPT !.again = TRUE])) /\ UNCHANGED stamp
        <4>1. PICK r : r = [jobs[j] EXCEPT !.again = TRUE]
          OBVIOUS
        <4>2. r \in JobType /\ r.todo # <<>> /\ r.time = jobs[j].time
          BY <1>1, <4>1 DEF JobType
        <4>3. PICK s : s = Decided(r)
          OBVIOUS
        <4>4. JobOK(s) /\ s.time = jobs[j].time
          BY <1>1, <4>2, <4>3, DecidedOK
        <4> QED BY <1>1, <3>1, <4>1, <4>3, <4>4
      <3>2. CASE Takes(j, rest)
        BY <1>1, <1>4, <3>2, TakesOK
      <3> QED BY <1>6, <3>1, <3>2
    <2>3. CopiesOK'
      <3>1. PICK r : Job(j, r) /\ JobOK(r) /\ r.time <= stamp'
        BY <2>2
      <3>2. \A u \in Txs : /\ copies'[u].time \in -1..stamp' /\ copies'[u].at <= clock
                           /\ copies'[u].content => copies'[u].time >= 0
        BY <1>1, <2>1, <2>2
      <3> QED BY <1>1, <1>6, <2>1, <2>2, <3>1, <3>2, CopiesKeep
    <2> QED BY <1>1, <2>1, <2>3, PagesStay, HistoryStays, WalksStay DEF PageInv
  <1> QED BY <1>2, <1>3, <1>5, <1>6 DEF WriteTx

-----------------------------------------------------------------------------
\* Time, a restart and the start.
LEMMA PageTickKeeps ==
    ASSUME PageInv, PageTick
    PROVE  PageInv'
  <1>1. /\ UNCHANGED <<pageBounds, stamp, copies, history, refresher, counted, walk, jobs>> /\ clock' = clock + 1
        /\ pages' = {e \in pages : e.until > clock + 1}
        /\ \A j \in DOMAIN jobs : jobs[j].pc \notin {"off", "done"} => clock - jobs[j].since < DbLag
        /\ StoredTxs' = StoredTxs
    BY DEF PageTick, Due, StoredTxs
  <1>2. CopiesOK /\ clock \in Nat /\ DbLag \in Nat
    BY LiteTyped DEF PageInv
  <1>3. CopiesOK'
    <2>1. ASSUME NEW j \in pageScene.jobs PROVE JobOK(jobs[j])' /\ jobs'[j].time <= stamp'
      <3>1. JobOK(jobs[j]) /\ jobs[j].time <= stamp /\ DOMAIN jobs = pageScene.jobs /\ jobs[j].since \in Nat
        BY <1>2 DEF CopiesOK, JobType
      <3>2. jobs[j].pc \notin {"off", "done"} => jobs[j].since <= clock + 1 /\ clock + 1 <= jobs[j].since + DbLag
        BY <1>1, <1>2, <3>1 DEF JobOK
      <3> QED BY <1>1, <3>1, <3>2 DEF JobOK, FullBy, IsFull
    <2>2. /\ \A t \in Txs : /\ copies[t].time \in -1..stamp /\ copies[t].at <= clock + 1
                            /\ copies[t].content => t \in StoredTxs
          /\ counted.until <= clock + 1 + CountTTL
      BY <1>2, LiteTyped DEF CopiesOK
    <2> QED BY <1>1, <1>2, <2>1, <2>2 DEF CopiesOK, pageBounds, FullBy, IsFull
  <1>4. PagesOK'
    <2>1. ASSUME NEW e \in pages' PROVE CachedPageOK(e)'
      <3>1. e \in pages /\ e.until > clock + 1 /\ CachedPageOK(e)
        BY <1>1, <2>1 DEF PageInv, PagesOK
      <3>2. PageOK(e.key, e.page)'
        BY <1>1, <3>1, PageStays DEF CachedPageOK
      <3>3. PICK ttl : ttl = IF e.key = FirstPage THEN HotTTL ELSE WarmTTL
        OBVIOUS
      <3>4. ttl \in Nat /\ e.until \in Nat /\ e.until - clock \in 1..ttl
        BY <3>1, <3>3, PageAssumption DEF PageAssumption, CachedPageOK
      <3>5. e.until - (clock + 1) \in 1..ttl
        BY <1>2, <3>1, <3>4
      <3> QED BY <1>1, <3>2, <3>3, <3>4, <3>5 DEF CachedPageOK
    <2>2. \A e, d \in pages' : d.key = e.key => d = e
      BY <1>1 DEF PageInv, PagesOK
    <2> QED BY <1>1, <2>1, <2>2, RefresherStays DEF PageInv, PagesOK
  <1>5. FullBounded'
    BY <1>1 DEF PageInv, FullBounded, IsFull
  <1> QED BY <1>1, <1>3, <1>4, <1>5, WalksStay, HistoryStays DEF PageInv

LEMMA PageForgetsKeeps ==
    ASSUME PageInv, PageForgets
    PROVE  PageInv'
  <1>1. /\ pages' = {} /\ history' = {} /\ refresher' = NotRefreshing /\ counted' = [n |-> 0, until |-> 0]
        /\ UNCHANGED <<pageBounds, clock, stamp, copies>> /\ StoredTxs' = StoredTxs /\ StoredTxs \subseteq StoredTxs'
    BY DEF PageForgets, StoredTxs
  <1>2. CopiesOK /\ stamp \in Nat /\ DOMAIN jobs = pageScene.jobs
    BY LiteTyped DEF PageInv, CopiesOK
  <1>3. CopiesOK'
    <2>1. jobs' = [j \in pageScene.jobs |-> IF jobs[j].pc = "off" THEN NoJob ELSE [NoJob EXCEPT !.pc = "done"]]
      BY <1>2 DEF PageForgets
    <2>2. ASSUME NEW j \in pageScene.jobs PROVE (\E s : jobs'[j] = s /\ JobOK(s)') /\ jobs'[j].time <= stamp'
      <3>1. PICK r : r = jobs'[j]
        OBVIOUS
      <3>2. r = [NoJob EXCEPT !.pc = "off"] \/ r = [NoJob EXCEPT !.pc = "done"]
        <4>1. NoJob = [NoJob EXCEPT !.pc = "off"]
          BY DEF NoJob
        <4> QED BY <2>1, <3>1, <4>1
      <3>3. r.time = 0 /\ r \in JobType /\ r.pc \in {"off", "done"}
        <4>1. ASSUME NEW pc \in {"off", "done"}, r = [NoJob EXCEPT !.pc = pc] PROVE r.pc = pc
          BY <4>1 DEF NoJob
        <4> QED BY <3>2, <4>1, NoJobOK
      <3>4. JobOK(r)'
        BY <3>3 DEF JobOK
      <3> QED BY <1>1, <1>2, <3>1, <3>3, <3>4
    <2>3. jobs' \in [pageScene.jobs -> JobType] /\ \A j \in pageScene.jobs : JobOK(jobs[j])'
      <3>1. jobs' = [j \in pageScene.jobs |-> jobs'[j]]
        BY <2>1
      <3> QED BY <2>2, <3>1, JobsHold
    <2>4. Cardinality(FullBy(counted.until - CountTTL - 1))' <= 0
      <3>1. FullBy(counted.until - CountTTL - 1)' = {}
        <4>1. ASSUME NEW t \in LiteTxs PROVE ~(copies[t].at <= 0 - CountTTL - 1)
          BY <1>2, LiteTyped
        <4> QED BY <1>1, <4>1 DEF FullBy
      <3> QED BY <3>1, FS_EmptySet
    <2>5. counted'.n = 0 /\ counted'.until = 0 /\ 0 <= clock + CountTTL
      BY <1>1, <1>2, LiteTyped
    <2> QED BY <1>1, <1>2, <2>2, <2>3, <2>4, <2>5 DEF CopiesOK, pageBounds
  <1>4. PagesOK' /\ HistoryOK'
    <2>1. refresher'.pc = "idle"
          /\ refresher' = [pc |-> refresher'.pc, page |-> refresher'.page, since |-> refresher'.since]
      BY <1>1 DEF NotRefreshing
    <2> QED BY <1>1, <2>1 DEF PagesOK, HistoryOK, BacksUp
  <1>5. WalksOK'
    <2>1. walk' = [w \in Walkers |-> IF walk[w].pc \in {"find", "found", "prev"}
                                     THEN [NoWalk EXCEPT !.pc = "failed"] ELSE walk[w]]
      BY DEF PageForgets
    <2>2. ASSUME NEW w \in Walkers PROVE \E s : walk'[w] = s /\ WalkOK(s)'
      <3>1. PICK s : s = IF walk[w].pc \in {"find", "found", "prev"}
                         THEN [NoWalk EXCEPT !.pc = "failed"] ELSE walk[w]
        OBVIOUS
      <3>2. WalkOK(s)
        BY <3>1, FailedOK DEF PageInv, WalksOK
      <3>3. WalkOK(s)'
        BY <1>1, <3>2, WalkStays
      <3> QED BY <2>1, <3>1, <3>3
    <2>3. walk' = [w \in Walkers |-> walk'[w]]
      BY <2>1
    <2> QED BY <2>2, <2>3, WalksHold
  <1>6. FullBounded'
    BY <1>1 DEF PageInv, FullBounded, IsFull
  <1> QED BY <1>3, <1>4, <1>5, <1>6 DEF PageInv

LEMMA PagesStart ==
    ASSUME PageInit
    PROVE  PageInv
  <1>1. /\ pageScene \in PageScenes /\ slips = pageScene.slips /\ pageScene.slips \in Nat
        /\ clock = 1 /\ stamp = 1 /\ pages = {} /\ history = {} /\ refresher = NotRefreshing
        /\ counted = [n |-> 0, until |-> 0]
        /\ walk = [w \in Walkers |-> NoWalk] /\ jobs = [j \in pageScene.jobs |-> NoJob]
    BY PageAssumption DEF PageInit, PageAssumption
  <1>2. PICK first : first = [NoCopy EXCEPT !.time = 1, !.content = TRUE]
    OBVIOUS
  <1>3. /\ first \in CopyType /\ first.time = 1 /\ first.at = 0
        /\ NoCopy \in CopyType /\ NoCopy.time = -1 /\ NoCopy.at = 0 /\ ~NoCopy.content
    <2>1. first = [time |-> 1, content |-> TRUE, lite |-> FALSE, at |-> 0, guess |-> FALSE]
      BY <1>2 DEF NoCopy
    <2>2. first \in CopyType
      BY <2>1 DEF CopyType
    <2>3. NoCopy \in CopyType
      <3>1. -1 \in Int /\ 0 \in Nat
        OBVIOUS
      <3> QED BY <3>1 DEF NoCopy, CopyType
    <2> QED BY <2>1, <2>2, <2>3 DEF NoCopy
  <1>4. copies \in [Txs -> CopyType] /\ \A t \in Txs : copies[t] \in {first, NoCopy}
    <2>1. copies = [t \in Txs |-> IF t \in pageScene.stored THEN first ELSE NoCopy]
      BY <1>2 DEF PageInit
    <2> QED BY <1>3, <2>1
  <1>5. \A t \in Txs : copies[t].time \in -1..1 /\ copies[t].at = 0 /\ (copies[t].content => copies[t].time >= 0)
    BY <1>3, <1>4
  <1>6. /\ LiteTxs \subseteq Txs /\ CountTTL \in Nat
    BY PageAssumption DEF PageAssumption
  <1>7. FullBy(0 - CountTTL - 1) = {}
    <2>1. \A t \in LiteTxs : ~(copies[t].at <= 0 - CountTTL - 1)
      BY <1>5, <1>6
    <2> QED BY <2>1 DEF FullBy
  <1>8. NoJob \in JobType /\ JobOK(NoJob) /\ NoJob.time = 0
    <2>1. NoJob = [NoJob EXCEPT !.pc = "off"]
      BY DEF NoJob
    <2> QED BY <2>1, NoJobOK
  <1>9. CopiesOK
    <2>1. jobs \in [pageScene.jobs -> JobType] /\ \A j \in pageScene.jobs : JobOK(jobs[j]) /\ jobs[j].time <= stamp
      <3>1. \A j \in pageScene.jobs : jobs[j] = NoJob
        BY <1>1
      <3> QED BY <1>1, <1>8, <3>1
    <2>2. Cardinality(FullBy(counted.until - CountTTL - 1)) = 0
      BY <1>1, <1>7, FS_EmptySet
    <2>3. \A t \in Txs : copies[t].content => t \in StoredTxs
      BY <1>5 DEF StoredTxs
    <2> QED BY <1>1, <1>4, <1>5, <1>6, <2>1, <2>2, <2>3 DEF CopiesOK
  <1>10. PagesOK /\ HistoryOK
    <2>1. refresher.pc = "idle" /\ refresher = [pc |-> refresher.pc, page |-> refresher.page, since |-> refresher.since]
      BY <1>1 DEF NotRefreshing
    <2> QED BY <1>1, <2>1 DEF PagesOK, HistoryOK, BacksUp
  <1>11. WalksOK
    BY <1>1, FailedOK DEF WalksOK, WalkOK
  <1>12. FullBounded
    BY <1>5, <1>6 DEF FullBounded
  <1> QED BY <1>9, <1>10, <1>11, <1>12 DEF PageInv

LEMMA PageStutterKeeps ==
    ASSUME PageInv, UNCHANGED pageVars
    PROVE  PageInv'
  <1>1. UNCHANGED <<pageBounds, clock, stamp, copies, pages, history, refresher, counted, walk, jobs>>
        /\ StoredTxs \subseteq StoredTxs'
    BY DEF pageVars, StoredTxs
  <1> QED BY <1>1, CopiesStay, PagesStay, WalksStay, HistoryStays DEF PageInv

LEMMA PageSteps ==
    ASSUME PageInv, PageNext \/ PageForgets \/ UNCHANGED pageVars
    PROVE  PageInv'
  <1>1. DOMAIN jobs = pageScene.jobs
    BY DEF PageInv, CopiesOK
  <1>2. ASSUME NEW w \in Walkers, AskPage(w) \/ FindPage(w) \/ AnswerPage(w) \/ FindPrev(w) \/ PageFails(w)
        PROVE  PageInv'
    BY <1>2, AskPageKeeps, FindPageKeeps, AnswerPageKeeps, FindPrevKeeps, PageFailsKeeps
  <1>3. ASSUME NEW j \in pageScene.jobs, JobBegins(j) \/ LookUp(j) \/ FetchTxs(j) \/ CountFull(j) \/ WriteTx(j)
        PROVE  PageInv'
    BY <1>3, JobBeginsKeeps, LookUpKeeps, FetchTxsKeeps, CountFullKeeps, WriteTxKeeps
  <1> QED BY <1>1, <1>2, <1>3, RefreshKeeps, PageTickKeeps, PageForgetsKeeps, PageStutterKeeps DEF PageNext

\* What the invariant says of the pages.
LEMMA TxPagesAreHeld ==
    ASSUME PageInv
    PROVE  TxPagesHold
  <1>1. PageTypeOK
    <2>1. \A t \in Txs : copies[t].time \in -1..stamp /\ copies[t].at \in 0..clock
      BY LiteTyped DEF PageInv, CopiesOK
    <2>2. \A j \in DOMAIN jobs : /\ jobs[j].pc \in {"off", "look", "fetch", "count", "write", "done"}
                                 /\ jobs[j].pc \in {"count", "write"} => jobs[j].todo # <<>>
      BY DEF PageInv, CopiesOK, JobOK, JobType, JobPcs
    <2>3. \A w \in Walkers : walk[w].pc \in {"idle", "find", "found", "prev", "more", "end", "failed"}
      BY WalkTyped DEF WalkType, WalkPcs
    <2>4. \A e \in pages : Cardinality(e.page.txs) <= Limit
      BY DEF PageInv, PagesOK, CachedPageOK, PageOK
    <2>5. \A e \in pages : e.until - clock \in 1..(IF e.key = FirstPage THEN HotTTL ELSE WarmTTL)
      BY DEF PageInv, PagesOK, CachedPageOK
    <2> QED BY <2>1, <2>2, <2>3, <2>4, <2>5 DEF PageTypeOK, PageInv, CopiesOK, PagesOK, HistoryOK
  <1>2. WalksComplete
    <2>1. ASSUME NEW w \in Walkers, NEW t \in Txs, \E p, q \in walk[w].places[t] : p # q
          PROVE  Cardinality(walk[w].places[t]) > 1
      <3>1. IsFiniteSet(walk[w].places[t])
        BY WalkTyped DEF WalkOK
      <3> QED BY <2>1, <3>1, TwoElements
    <2>2. ASSUME NEW w \in Walkers, NEW t \in walk[w].twice PROVE Cardinality(walk[w].places[t]) > 1
      <3>1. t \in Txs /\ \E p, q \in walk[w].places[t] : p # q
        BY <2>2, WalkTyped DEF WalkOK, WalkType
      <3> QED BY <2>1, <3>1
    <2>3. ASSUME NEW w \in Walkers, walk[w].pc = "end", NEW t \in Txs \ walk[w].given
          PROVE  \/ NotStored \in walk[w].places[t]
                 \/ \E p \in walk[w].places[t] : ~Before(p, walk[w].top)
                 \/ /\ HeightOf[t] \in {e[1] : e \in walk[w].ends}
                    /\ Cardinality(walk[w].places[t]) > 1 \/ walk[w].places[t] \subseteq walk[w].ends
      <3>1. OutOfReach(walk[w], t) \/ PassedOver(walk[w], t)
        BY <2>3, WalkTyped DEF WalkOK
      <3>2. CASE OutOfReach(walk[w], t)
        BY <3>2 DEF OutOfReach
      <3>3. CASE PassedOver(walk[w], t)
        BY <2>1, <3>3 DEF PassedOver
      <3> QED BY <3>1, <3>2, <3>3
    <2> QED BY <2>2, <2>3 DEF WalksComplete
  <1> QED BY <1>1, <1>2 DEF TxPagesHold, PageInv, HistoryOK

-----------------------------------------------------------------------------
(* Reads: the plans.                                                         *)

\* A key that is read by fetches is fetched without reading others, and its
\* errors reach the reader.
Leaf(k) == k \in Readable /\ SourcesOf(k) = {} /\ Plans[k].error = "throw" /\ Makers(k) = {k}
StageOK(s) ==
    /\ s.own \in BOOLEAN /\ s.lenient \in BOOLEAN /\ s.enough \in BOOLEAN
    /\ s.reads \in Seq(Readable) /\ \A i, j \in DOMAIN s.reads : s.reads[i] = s.reads[j] => i = j
    /\ Pieces(s) # {} /\ \A i \in ReadBy(s) : Leaf(i)
PlanOK(k) ==
    /\ Plans[k].ttl \in Nat \ {0} /\ Plans[k].shared \in BOOLEAN /\ Plans[k].early \in BOOLEAN
    /\ Plans[k].error \in {"throw", "default", "answer"}
    /\ Len(Plans[k].stages) \in Nat \ {0} /\ DOMAIN Plans[k].stages = 1..Len(Plans[k].stages)
    /\ \A n \in DOMAIN Plans[k].stages : StageOK(Stage(k, n))

-----------------------------------------------------------------------------
(* Reads: who awaits whom.                                                   *)

Callers == Users \cup Fetches
Commands == [op : {"get", "set"}, by : Callers, key : Keys]
ReaderType == [by : Callers, key : Readable, on : 0..MaxFetches]
ReplyType == [to : Callers, key : Readable, ok : BOOLEAN, whole : BOOLEAN, asOf : Int]
FetchType == [key : Keys, at : {"work", "store"}, stage : Nat, left : SUBSET (Keys \cup {"own"}),
              whole : BOOLEAN, asOf : Int, began : Nat, done : Nat, by : Nat]

GetOf(b, k) == [op |-> "get", by |-> b, key |-> k]
SetOf(f, k) == [op |-> "set", by |-> f, key |-> k]
Wants(b, k, g) == [by |-> b, key |-> k, on |-> g]
Sent(w) == {w[i] : i \in DOMAIN w}
Once(w) == w \in Seq(Commands) /\ \A i, j \in DOMAIN w : w[i] = w[j] => i = j

\* A command has somebody who waits for its answer, and the other way round.
WireOK(w, rs, fs) ==
    /\ Once(w)
    /\ \A c \in Sent(w) :
          IF c.op = "get" THEN Wants(c.by, c.key, 0) \in rs
          ELSE c.by \in Fetches /\ fs[c.by].at = "store" /\ fs[c.by].key = c.key
    /\ \A r \in rs : r.on = 0 => GetOf(r.by, r.key) \in Sent(w)
    /\ \A f \in Fetches : fs[f].at = "store" => SetOf(f, fs[f].key) \in Sent(w)

\* A read waits for its command, for a fetch of its key, or has been answered.
ReadersOK(rs, ps, fs) ==
    /\ rs \subseteq ReaderType /\ ps \subseteq ReplyType
    /\ fs \in [Fetches -> FetchType \cup {NoFetch}]
    /\ \A q, r \in rs : q.by = r.by /\ q.key = r.key => q = r
    /\ \A p, q \in ps : p.to = q.to /\ p.key = q.key => p = q
    /\ \A p \in ps, r \in rs : p.to # r.by \/ p.key # r.key
    /\ \A r \in rs : r.on # 0 => fs[r.on].key = r.key

\* A fetch awaits what its stage has asked for and nothing else.
Awaits(rs, ps, f, k) ==
    (\E r \in rs : r.by = f /\ r.key = k) \/ (\E p \in ps : p.to = f /\ p.key = k)
TiesOK(rs, ps, fs) ==
    \A f \in Fetches : fs[f].at = "work" =>
        /\ fs[f].stage \in DOMAIN Plans[fs[f].key].stages
        /\ fs[f].left \subseteq Pieces(Stage(fs[f].key, fs[f].stage))
        /\ \A k \in Keys : k \in fs[f].left <=> Awaits(rs, ps, f, k)
Busy(fs) == \A f \in Fetches : fs[f].at = "work" => fs[f].left # {}

FlightOK(fl, fs) ==
    /\ fl \in [Keys -> 0..MaxFetches]
    /\ \A f \in Fetches : fs[f] # NoFetch /\ Shared(fs[f].key) => fl[fs[f].key] = f
    /\ \A k \in Keys : fl[k] # 0 => fs[fl[k]].key = k

-----------------------------------------------------------------------------
(* Reads: how old, and how complete.                                         *)

AsOfOK(k, asOf, began) == asOf >= began \/ \E i \in SourcesOf(k) : asOf >= began - AgeOf(i)
FetchOK(r, t) ==
    r # NoFetch =>
        /\ r.began <= t /\ t <= r.began + Lag /\ AsOfOK(r.key, r.asOf, r.began)
        /\ r.whole \/ MayLack(r.key)
        /\ r.done <= t
ReplyOK(p, t) ==
    p.ok => \E j \in Makers(p.key) :
                /\ Within(t - p.asOf, j)
                /\ p.whole \/ MayLack(j) \/ Plans[j].error = "answer"
KeptType == [asOf : Int, whole : BOOLEAN, fetched : Nat, until : Nat]
KeptOK(k, e, t) ==
    e # Nothing =>
        /\ t < e.until
        /\ \E j \in Makers(k) : /\ AsOfOK(j, e.asOf, e.until - Plans[j].ttl - Lag)
                                /\ e.whole \/ MayLack(j)
EntriesKept(es, t) ==
    /\ es \in [Keys -> KeptType]
    /\ \A k \in Keys : es[k].fetched <= t /\ KeptOK(k, es[k], t)
\* What is kept under a shared key was fetched before the fetch under way began.
LaterOK(es, fs) ==
    \A f \in Fetches : fs[f] # NoFetch /\ Shared(fs[f].key) => es[fs[f].key].fetched <= fs[f].began

BoundsOK ==
    /\ readScene \in ReadScenes /\ mishaps \in 0..readScene.mishaps /\ asked \in 0..readScene.budget
    /\ now \in 1..readScene.upto

Linked(w, rs, ps, fs) == WireOK(w, rs, fs) /\ ReadersOK(rs, ps, fs) /\ TiesOK(rs, ps, fs)
ReadsAre(w, rs, ps, fs, fl, es, t) ==
    /\ Linked(w, rs, ps, fs) /\ FlightOK(fl, fs) /\ (\A f \in Fetches : FetchOK(fs[f], t))
    /\ (\A p \in ps : ReplyOK(p, t)) /\ EntriesKept(es, t) /\ LaterOK(es, fs)
ReadInv ==
    BoundsOK /\ ReadsAre(wire, readers, replies, fetches, flight, entries, now) /\ Busy(fetches)

\* The keys, and the plan of each.
LEMMA KeysAre ==
    Keys = {
        "fpBsn", "fpActive", "fpAll", "totalPower", "fpDetails", "fpPower", "fpDelegations",
        "allDelegations", "bsnParams", "bsnList", "bsnList10", "bsnList100", "bsnRegistry", "bsnTypes",
        "zcParams", "zcFinalized", "zcAll", "zcByIds", "zcStatus", "zcEpoch", "zcProviders", "rewards",
        "rewardsSummary", "stats", "params", "points", "pointsUpdate", "dbProvider", "dbProviders", "dbTop",
        "dbGroups", "dbStaker", "dbStakers"}
  BY DEF Keys, Plans

LEMMA PlansAre ==
    /\ Plans["fpBsn"] = BsnProviders /\ Plans["fpActive"] = ActiveProviders
    /\ Plans["fpAll"] = AllProviders /\ Plans["totalPower"] = TotalPower
    /\ Plans["fpDetails"] = ProviderDetails /\ Plans["fpPower"] = ProviderPower
    /\ Plans["fpDelegations"] = DelegationStats /\ Plans["allDelegations"] = AllDelegationStats
    /\ Plans["bsnParams"] = ConsumerParams /\ Plans["bsnList"] = ConsumerList
    /\ Plans["bsnList10"] = ConsumerList /\ Plans["bsnList100"] = ConsumerList
    /\ Plans["bsnRegistry"] = ConsumerRegistry /\ Plans["bsnTypes"] = TypeCounts
    /\ Plans["zcParams"] = ConciergeParams /\ Plans["zcFinalized"] = Finalized
    /\ Plans["zcAll"] = AllFinalized /\ Plans["zcByIds"] = FinalizedByIds
    /\ Plans["zcStatus"] = FinalizationStatus /\ Plans["zcEpoch"] = CurrentEpoch
    /\ Plans["zcProviders"] = ProvidersOfBsn /\ Plans["rewards"] = Rewards
    /\ Plans["rewardsSummary"] = RewardsSummary /\ Plans["stats"] = OverallStats
    /\ Plans["params"] = AllParams /\ Plans["points"] = Points
    /\ Plans["pointsUpdate"] = PointsUpdate /\ Plans["dbProvider"] = QueriedProvider
    /\ Plans["dbProviders"] = QueriedProviders /\ Plans["dbTop"] = QueriedTop
    /\ Plans["dbGroups"] = QueriedGroups /\ Plans["dbStaker"] = QueriedStaker
    /\ Plans["dbStakers"] = QueriedStakers
  BY DEF Plans

\* What is read, and where it is stored.
LEMMA KeyFacts ==
    /\ "own" \notin Keys /\ "none" \notin Keys /\ Readable \subseteq Keys
    /\ \A k \in Keys : StoredAs(k) \in Readable /\ k \in Makers(StoredAs(k))
    /\ \A k \in Keys : k # "pointsUpdate" => k \in Readable
    /\ \A k \in Readable : StoredAs(k) = k
    /\ \A k \in Readable : k # "points" => Makers(k) = {k}
    /\ Timed \subseteq Keys
  <1>1. "own" \notin Keys /\ "none" \notin Keys /\ "points" \in Keys /\ Timed \subseteq Keys
    BY KeysAre DEF Timed
  <1>2. \A k \in Keys : k # "pointsUpdate" => k \in Readable
    BY DEF Readable, StoredAs
  <1>3. \A k \in Readable : k \in Keys /\ StoredAs(k) = k
    BY DEF Readable
  <1>4. \A k \in Keys : StoredAs(k) \in Readable
    BY <1>1, <1>2 DEF StoredAs, Readable
  <1>5. \A k \in Keys : k \in Makers(StoredAs(k))
    BY DEF Makers
  <1>6. \A k \in Readable : k # "points" => Makers(k) = {k}
    BY <1>3 DEF Makers, StoredAs
  <1> QED BY <1>1, <1>2, <1>3, <1>4, <1>5, <1>6

\* A stage of requests of its own
LEMMA OwnStages ==
    \A s \in {Own, Lenient(Own), Enough(Own)} : StageOK(s) /\ ReadBy(s) = {}
  <1> SUFFICES ASSUME NEW s \in {Own, Lenient(Own), Enough(Own)} PROVE StageOK(s) /\ ReadBy(s) = {}
    OBVIOUS
  <1>1. s.own = TRUE /\ s.reads = <<>> /\ s.lenient \in BOOLEAN /\ s.enough \in BOOLEAN
    <2>1. /\ Own.own = TRUE /\ Own.reads = <<>> /\ Own.lenient = FALSE /\ Own.enough = FALSE
          /\ Lenient(Own).own = TRUE /\ Lenient(Own).reads = <<>>
          /\ Lenient(Own).lenient = TRUE /\ Lenient(Own).enough = FALSE
          /\ Enough(Own).own = TRUE /\ Enough(Own).reads = <<>>
          /\ Enough(Own).lenient = FALSE /\ Enough(Own).enough = TRUE
      BY DEF Own, Lenient, Enough
    <2> QED BY <2>1
  <1>2. s.reads \in Seq(Readable) /\ DOMAIN s.reads = {}
    BY <1>1
  <1>3. ReadBy(s) = {}
    BY <1>2 DEF ReadBy
  <1> QED BY <1>1, <1>2, <1>3 DEF StageOK, Pieces

\* A stage that reads a key
LEMMA ReadStages ==
    ASSUME NEW k \in Keys, Leaf(k)
    PROVE  \A s \in {With(k), Reads(<<k>>), Lenient(Reads(<<k>>))} : StageOK(s)
  <1> SUFFICES ASSUME NEW s \in {With(k), Reads(<<k>>), Lenient(Reads(<<k>>))} PROVE StageOK(s)
    OBVIOUS
  <1>1. s.own \in BOOLEAN /\ s.reads = <<k>> /\ s.lenient \in BOOLEAN /\ s.enough \in BOOLEAN
    BY DEF Own, With, Reads, Lenient
  <1>2. k \in Readable
    BY DEF Leaf
  <1>3. s.reads \in Seq(Readable) /\ DOMAIN s.reads = {1} /\ s.reads[1] = k
    <2>1. DOMAIN <<k>> = 1..1 /\ <<k>>[1] = k /\ <<k>> \in Seq(Readable)
      BY <1>2
    <2> QED BY <1>1, <2>1
  <1>4. ReadBy(s) = {k}
    BY <1>3 DEF ReadBy
  <1> QED BY <1>1, <1>3, <1>4 DEF StageOK, Pieces

LEMMA ReadTwoStage ==
    ASSUME NEW j \in Keys, NEW k \in Keys, Leaf(j), Leaf(k), j # k
    PROVE  StageOK(Reads(<<j, k>>))
  <1> DEFINE s == Reads(<<j, k>>)
  <1>1. s.own \in BOOLEAN /\ s.reads = <<j, k>> /\ s.lenient \in BOOLEAN /\ s.enough \in BOOLEAN
    BY DEF Own, Reads
  <1>2. j \in Readable /\ k \in Readable
    BY DEF Leaf
  <1>3. s.reads \in Seq(Readable) /\ DOMAIN s.reads = {1, 2} /\ s.reads[1] = j /\ s.reads[2] = k
    <2>1. DOMAIN <<j, k>> = 1..2 /\ <<j, k>>[1] = j /\ <<j, k>>[2] = k /\ <<j, k>> \in Seq(Readable)
      BY <1>2
    <2>2. 1..2 = {1, 2}
      OBVIOUS
    <2> QED BY <1>1, <2>1, <2>2
  <1>4. ReadBy(s) = {j, k}
    BY <1>3 DEF ReadBy
  <1> QED BY <1>1, <1>3, <1>4 DEF StageOK, Pieces

\* Plans of one, two and three stages
StagesOK(stages) ==
    Len(stages) \in Nat \ {0} /\ DOMAIN stages = 1..Len(stages) /\ \A n \in DOMAIN stages : StageOK(stages[n])
LEMMA ShortPlans ==
    ASSUME NEW r, NEW s, NEW t, StageOK(r), StageOK(s), StageOK(t)
    PROVE  StagesOK(<<r>>) /\ StagesOK(<<r, s>>) /\ StagesOK(<<r, s, t>>)
  <1>1. Len(<<r>>) = 1 /\ DOMAIN <<r>> = 1..1 /\ <<r>>[1] = r
    OBVIOUS
  <1>2. Len(<<r, s>>) = 2 /\ DOMAIN <<r, s>> = 1..2 /\ <<r, s>>[1] = r /\ <<r, s>>[2] = s
    OBVIOUS
  <1>3. /\ Len(<<r, s, t>>) = 3 /\ DOMAIN <<r, s, t>> = 1..3
        /\ <<r, s, t>>[1] = r /\ <<r, s, t>>[2] = s /\ <<r, s, t>>[3] = t
    OBVIOUS
  <1>4. \A n \in 1..2 : n = 1 \/ n = 2
    OBVIOUS
  <1>5. \A n \in 1..3 : n = 1 \/ n = 2 \/ n = 3
    OBVIOUS
  <1> QED BY <1>1, <1>2, <1>3, <1>4, <1>5 DEF StagesOK

FieldsOK(p) ==
    /\ p.ttl \in Nat \ {0} /\ p.shared \in BOOLEAN /\ p.early \in BOOLEAN
    /\ p.error \in {"throw", "default", "answer"}
LEMMA PlanFields ==
    ASSUME NEW s, NEW n \in Nat \ {0}
    PROVE  \A p \in {Strict(s, n), Lax(s, n), Plain(Strict(s, n)), Answering(Plain(Strict(s, n))),
                     [Strict(s, n) EXCEPT !.early = TRUE]} : p.stages = s /\ FieldsOK(p)
  <1>1. Strict(s, n).stages = s /\ FieldsOK(Strict(s, n))
    BY DEF Strict, FieldsOK
  <1>2. Lax(s, n).stages = s /\ FieldsOK(Lax(s, n))
    BY DEF Strict, Lax, FieldsOK
  <1>3. Plain(Strict(s, n)).stages = s /\ FieldsOK(Plain(Strict(s, n)))
    BY DEF Strict, Plain, FieldsOK
  <1>4. Answering(Plain(Strict(s, n))).stages = s /\ FieldsOK(Answering(Plain(Strict(s, n))))
    BY DEF Strict, Plain, Answering, FieldsOK
  <1>5. [Strict(s, n) EXCEPT !.early = TRUE].stages = s /\ FieldsOK([Strict(s, n) EXCEPT !.early = TRUE])
    BY DEF Strict, FieldsOK
  <1> QED BY <1>1, <1>2, <1>3, <1>4, <1>5

\* What fetches read is fetched without reading.
Leaves == {"fpActive", "totalPower", "bsnList", "bsnList10", "bsnList100", "zcFinalized",
           "fpBsn", "rewards", "fpAll", "dbProviders"}
LEMMA LeafFacts == \A k \in Leaves : k \in Keys /\ Leaf(k)
  <1>1. \A k \in Leaves : k \in Readable /\ Makers(k) = {k}
    BY KeysAre, KeyFacts DEF Leaves
  <1>2. /\ DOMAIN <<Own>> = 1..1 /\ <<Own>>[1] = Own
        /\ DOMAIN <<Own, Lenient(Own)>> = 1..2 /\ <<Own, Lenient(Own)>>[1] = Own
        /\ <<Own, Lenient(Own)>>[2] = Lenient(Own)
        /\ DOMAIN <<Height, Own>> = 1..2 /\ <<Height, Own>>[1] = Height /\ <<Height, Own>>[2] = Own
    OBVIOUS
  <1>3. \A n \in 1..2 : n = 1 \/ n = 2
    OBVIOUS
  <1>h. ReadBy(Height) = {}
    BY OwnStages DEF Height
  <1>4. \A stages \in {<<Own>>, <<Own, Lenient(Own)>>, <<Height, Own>>} : \A n \in DOMAIN stages : ReadBy(stages[n]) = {}
    BY <1>2, <1>3, <1>h, OwnStages
  <1>5. \A k \in Leaves : /\ Plans[k].stages \in {<<Own>>, <<Own, Lenient(Own)>>, <<Height, Own>>}
                          /\ Plans[k].error = "throw"
    <2>1. \A s, n : /\ Strict(s, n).stages = s /\ Strict(s, n).error = "throw"
                    /\ Plain(Strict(s, n)).stages = s /\ Plain(Strict(s, n)).error = "throw"
      BY DEF Strict, Plain
    <2> QED BY <2>1, PlansAre DEF Leaves, BsnProviders, ActiveProviders, AllProviders, TotalPower, ConsumerList, Finalized, Rewards, QueriedProviders
  <1>6. \A k \in Leaves : SourcesOf(k) = {}
    BY <1>4, <1>5 DEF SourcesOf, Stage
  <1> QED BY <1>1, <1>5, <1>6, KeyFacts DEF Leaf

GoodPlan(p) == FieldsOK(p) /\ StagesOK(p.stages)

\* Every plan is as it should be.
LEMMA AllPlansGood == \A k \in Keys : GoodPlan(Plans[k])
  <1>1. \A k \in Leaves : \A s \in {With(k), Reads(<<k>>), Lenient(Reads(<<k>>))} : StageOK(s)
    BY LeafFacts, ReadStages
  <1>2. StageOK(Reads(<<"fpAll", "fpActive">>))
    <2>1. "fpAll" \in Leaves /\ "fpActive" \in Leaves /\ "fpAll" # "fpActive"
      BY DEF Leaves
    <2> QED BY <2>1, LeafFacts, ReadTwoStage
  <1>3. StageOK(Own) /\ StageOK(Lenient(Own)) /\ StageOK(Enough(Own))
    BY OwnStages
  <1>4. StagesOK(<<Own>>)
    BY <1>1, <1>2, <1>3, ShortPlans DEF Leaves
  <1>5. StagesOK(<<With("fpActive")>>)
    BY <1>1, <1>2, <1>3, ShortPlans DEF Leaves
  <1>6. StagesOK(<<With("totalPower")>>)
    BY <1>1, <1>2, <1>3, ShortPlans DEF Leaves
  <1>7. StagesOK(<<Own, Lenient(Own)>>)
    BY <1>1, <1>2, <1>3, ShortPlans DEF Leaves
  <1>8. StagesOK(<<Reads(<<"bsnList">>)>>)
    BY <1>1, <1>2, <1>3, ShortPlans DEF Leaves
  <1>9. StagesOK(<<Reads(<<"bsnList100">>), Lenient(Reads(<<"zcFinalized">>))>>)
    BY <1>1, <1>2, <1>3, ShortPlans DEF Leaves
  <1>10. StagesOK(<<Reads(<<"zcFinalized">>)>>)
    BY <1>1, <1>2, <1>3, ShortPlans DEF Leaves
  <1>11. StagesOK(<<Enough(Own), Reads(<<"bsnList10">>), Lenient(Reads(<<"zcFinalized">>))>>)
    BY <1>1, <1>2, <1>3, ShortPlans DEF Leaves
  <1>12. StagesOK(<<Reads(<<"fpBsn">>)>>)
    BY <1>1, <1>2, <1>3, ShortPlans DEF Leaves
  <1>13. StagesOK(<<Reads(<<"fpActive">>), Lenient(Reads(<<"rewards">>))>>)
    BY <1>1, <1>2, <1>3, ShortPlans DEF Leaves
  <1>14. StagesOK(<<Own, Reads(<<"fpAll", "fpActive">>), Own>>)
    BY <1>1, <1>2, <1>3, ShortPlans DEF Leaves
  <1>15. StagesOK(<<Own, Own>>)
    BY <1>1, <1>2, <1>3, ShortPlans DEF Leaves
  <1>16. StagesOK(<<Own, Reads(<<"dbProviders">>), Own>>)
    BY <1>1, <1>2, <1>3, ShortPlans DEF Leaves
  <1>17. ASSUME NEW s, StagesOK(s), NEW m \in 1..3
        PROVE  /\ GoodPlan(Strict(s, m)) /\ GoodPlan(Lax(s, m)) /\ GoodPlan(Plain(Strict(s, m)))
               /\ GoodPlan(Answering(Plain(Strict(s, m)))) /\ GoodPlan([Strict(s, m) EXCEPT !.early = TRUE])
    BY <1>17, PlanFields DEF GoodPlan
  <1>h. StagesOK(<<Height, Own>>)
    BY <1>3, ShortPlans DEF Height
  <1>31. GoodPlan(BsnProviders) /\ GoodPlan(ActiveProviders) /\ GoodPlan(TotalPower)
    BY <1>h, <1>17, 1 \in 1..3 DEF BsnProviders, ActiveProviders, TotalPower
  <1>18. /\ GoodPlan(AllProviders) /\ GoodPlan(DelegationStats) /\ GoodPlan(AllDelegationStats)
        /\ GoodPlan(ConsumerParams) /\ GoodPlan(ConciergeParams) /\ GoodPlan(Finalized) /\ GoodPlan(Rewards)
        /\ GoodPlan(Points) /\ GoodPlan(QueriedProvider) /\ GoodPlan(QueriedProviders)
        /\ GoodPlan(QueriedTop) /\ GoodPlan(QueriedGroups) /\ GoodPlan(QueriedStaker)
        /\ GoodPlan(QueriedStakers)
    BY <1>4, <1>17, 1 \in 1..3, 2 \in 1..3, 3 \in 1..3 DEF AllProviders, DelegationStats,
    AllDelegationStats, ConsumerParams, ConciergeParams, Finalized, Rewards, Points, QueriedProvider, QueriedProviders, QueriedTop, QueriedGroups, QueriedStaker, QueriedStakers
  <1>19. /\ GoodPlan(ProviderDetails)
    BY <1>5, <1>17, 1 \in 1..3, 2 \in 1..3, 3 \in 1..3 DEF ProviderDetails
  <1>20. /\ GoodPlan(ProviderPower)
    BY <1>6, <1>17, 1 \in 1..3, 2 \in 1..3, 3 \in 1..3 DEF ProviderPower
  <1>21. /\ GoodPlan(ConsumerList) /\ GoodPlan(ConsumerRegistry)
    BY <1>7, <1>17, 1 \in 1..3, 2 \in 1..3, 3 \in 1..3 DEF ConsumerList, ConsumerRegistry
  <1>22. /\ GoodPlan(TypeCounts)
    BY <1>8, <1>17, 1 \in 1..3, 2 \in 1..3, 3 \in 1..3 DEF TypeCounts
  <1>23. /\ GoodPlan(AllFinalized)
    BY <1>9, <1>17, 1 \in 1..3, 2 \in 1..3, 3 \in 1..3 DEF AllFinalized
  <1>24. /\ GoodPlan(FinalizedByIds) /\ GoodPlan(FinalizationStatus)
    BY <1>10, <1>17, 1 \in 1..3, 2 \in 1..3, 3 \in 1..3 DEF FinalizedByIds, FinalizationStatus
  <1>25. /\ GoodPlan(CurrentEpoch)
    BY <1>11, <1>17, 1 \in 1..3, 2 \in 1..3, 3 \in 1..3 DEF CurrentEpoch
  <1>26. /\ GoodPlan(ProvidersOfBsn)
    BY <1>12, <1>17, 1 \in 1..3, 2 \in 1..3, 3 \in 1..3 DEF ProvidersOfBsn
  <1>27. /\ GoodPlan(RewardsSummary)
    BY <1>13, <1>17, 1 \in 1..3, 2 \in 1..3, 3 \in 1..3 DEF RewardsSummary
  <1>28. /\ GoodPlan(OverallStats)
    BY <1>14, <1>17, 1 \in 1..3, 2 \in 1..3, 3 \in 1..3 DEF OverallStats
  <1>29. /\ GoodPlan(AllParams)
    BY <1>15, <1>17, 1 \in 1..3, 2 \in 1..3, 3 \in 1..3 DEF AllParams
  <1>30. /\ GoodPlan(PointsUpdate)
    BY <1>16, <1>17, 1 \in 1..3, 2 \in 1..3, 3 \in 1..3 DEF PointsUpdate
  <1> QED BY <1>18, <1>19, <1>20, <1>21, <1>22, <1>23, <1>24, <1>25, <1>26, <1>27, <1>28, <1>29, <1>30, <1>31, KeysAre, PlansAre

LEMMA PlanFacts ==
    \A k \in Keys : /\ PlanOK(k) /\ \A i \in SourcesOf(k) : Leaf(i)
                    /\ Shared(k) => k \in Readable /\ StoredAs(k) = k /\ Makers(k) = {k}
  <1>1. \A k \in Keys : PlanOK(k)
    BY AllPlansGood DEF PlanOK, GoodPlan, FieldsOK, StagesOK, Stage
  <1>2. \A k \in Keys : \A i \in SourcesOf(k) : Leaf(i)
    BY <1>1 DEF SourcesOf, PlanOK, StageOK
  <1>3. ~ Shared("points") /\ ~ Shared("pointsUpdate")
    <2>1. \A p : Plain(p).shared = [p EXCEPT !.shared = FALSE].shared /\ Answering(Plain(p)).shared = Plain(p).shared
      BY DEF Plain, Answering, Strict
    <2> QED BY PlansAre DEF Shared, Points, PointsUpdate, Plain, Answering, Strict
  <1> QED BY <1>1, <1>2, <1>3, KeyFacts

-----------------------------------------------------------------------------
(* Reads: the connection to Redis.                                           *)

LEMMA TailSends ==
    ASSUME NEW w, Once(w), w # <<>>
    PROVE  Once(Tail(w)) /\ Sent(Tail(w)) = Sent(w) \ {Head(w)} /\ Head(w) \in Sent(w) /\ Head(w) \in Commands
  <1>1. w \in Seq(Commands) /\ Len(w) \in Nat \ {0} /\ DOMAIN w = 1..Len(w) /\ Head(w) = w[1]
    BY DEF Once
  <1>2. /\ Tail(w) \in Seq(Commands) /\ Len(Tail(w)) = Len(w) - 1 /\ DOMAIN Tail(w) = 1..(Len(w) - 1)
        /\ \A i \in 1..(Len(w) - 1) : Tail(w)[i] = w[i + 1]
    BY <1>1
  <1>3. \A i, j \in 1..(Len(w) - 1) : Tail(w)[i] = Tail(w)[j] => i = j
    <2> SUFFICES ASSUME NEW i \in 1..(Len(w) - 1), NEW j \in 1..(Len(w) - 1), Tail(w)[i] = Tail(w)[j]
                 PROVE  i = j
      OBVIOUS
    <2>1. w[i + 1] = w[j + 1] /\ i + 1 \in DOMAIN w /\ j + 1 \in DOMAIN w
      BY <1>1, <1>2
    <2>2. i + 1 = j + 1
      BY <2>1 DEF Once
    <2> QED BY <2>2
  <1>4. Head(w) \in Sent(w) /\ Head(w) \in Commands
    BY <1>1 DEF Sent
  <1>5. ASSUME NEW c \in Sent(Tail(w)) PROVE c \in Sent(w) \ {Head(w)}
    <2>1. PICK i \in 1..(Len(w) - 1) : c = w[i + 1]
      BY <1>2, <1>5 DEF Sent
    <2>2. i + 1 \in DOMAIN w /\ 1 \in DOMAIN w /\ i + 1 # 1
      BY <1>1
    <2> QED BY <1>1, <2>1, <2>2 DEF Sent, Once
  <1>6. ASSUME NEW c \in Sent(w) \ {Head(w)} PROVE c \in Sent(Tail(w))
    <2>1. PICK i \in 1..Len(w) : c = w[i]
      BY <1>1, <1>6 DEF Sent
    <2>2. i - 1 \in 1..(Len(w) - 1)
      BY <1>1, <1>6, <2>1
    <2>3. Tail(w)[i - 1] = c
      BY <1>2, <2>1, <2>2
    <2> QED BY <1>2, <2>2, <2>3 DEF Sent
  <1> QED BY <1>2, <1>3, <1>4, <1>5, <1>6 DEF Once

LEMMA AppendSends ==
    ASSUME NEW w, Once(w), NEW c \in Commands, c \notin Sent(w)
    PROVE  Once(Append(w, c)) /\ Sent(Append(w, c)) = Sent(w) \cup {c}
  <1>1. w \in Seq(Commands) /\ Len(w) \in Nat /\ DOMAIN w = 1..Len(w)
    BY DEF Once
  <1>2. /\ Append(w, c) \in Seq(Commands) /\ DOMAIN Append(w, c) = 1..(Len(w) + 1)
        /\ \A i \in 1..Len(w) : Append(w, c)[i] = w[i]
        /\ Append(w, c)[Len(w) + 1] = c
    BY <1>1
  <1>3. \A i \in 1..(Len(w) + 1) : i \in 1..Len(w) \/ i = Len(w) + 1
    BY <1>1
  <1>4. \A i \in 1..Len(w) : w[i] # c /\ i \in 1..(Len(w) + 1)
    BY <1>1 DEF Sent
  <1>5. Sent(Append(w, c)) = Sent(w) \cup {c}
    BY <1>1, <1>2, <1>3, <1>4 DEF Sent
  <1>6. \A i, j \in 1..(Len(w) + 1) : Append(w, c)[i] = Append(w, c)[j] => i = j
    BY <1>1, <1>2, <1>3, <1>4 DEF Once
  <1> QED BY <1>2, <1>5, <1>6 DEF Once

LEMMA GetsSent ==
    ASSUME NEW w, Once(w), NEW f \in Fetches, NEW s, StageOK(s), \A k \in Keys : GetOf(f, k) \notin Sent(w)
    PROVE  /\ Once(w \o Gets(f, s)) /\ Sent(w \o Gets(f, s)) = Sent(w) \cup {GetOf(f, k) : k \in ReadBy(s)}
           /\ ReadBy(s) \subseteq Readable
  <1> DEFINE g == Gets(f, s)
             n == Len(s.reads)
  <1>1. n \in Nat /\ DOMAIN s.reads = 1..n /\ \A i \in 1..n : s.reads[i] \in Readable
    BY DEF StageOK
  <1>2. DOMAIN g = 1..n /\ \A i \in 1..n : g[i] = GetOf(f, s.reads[i]) /\ g[i] \in Commands
    BY <1>1, KeyFacts DEF Gets, GetOf, Commands, Callers
  <1>3. g \in Seq(Commands) /\ Len(g) = n
    <2>1. g \in [1..n -> Commands]
      BY <1>1, <1>2 DEF Gets
    <2> QED BY <1>1, <2>1
  <1>4. w \in Seq(Commands) /\ Len(w) \in Nat /\ DOMAIN w = 1..Len(w)
    BY DEF Once
  <1> HIDE DEF g, n
  <1>5. /\ w \o g \in Seq(Commands) /\ DOMAIN (w \o g) = 1..(Len(w) + n)
        /\ \A i \in 1..Len(w) : (w \o g)[i] = w[i]
        /\ \A i \in 1..n : (w \o g)[Len(w) + i] = g[i]
    BY <1>1, <1>3, <1>4
  <1>6. ASSUME NEW i \in 1..(Len(w) + n) PROVE i \in 1..Len(w) \/ \E j \in 1..n : i = Len(w) + j
    <2>1. i \in 1..Len(w) \/ (i - Len(w) \in 1..n /\ i = Len(w) + (i - Len(w)))
      BY <1>1, <1>4
    <2> QED BY <2>1
  <1>7. \A i, j \in 1..n : g[i] = g[j] => i = j
    <2>1. \A a, b : GetOf(f, a).key = a
      BY DEF GetOf
    <2>2. \A i, j \in 1..n : s.reads[i] = s.reads[j] => i = j
      BY <1>1 DEF StageOK
    <2> QED BY <1>2, <2>1, <2>2
  <1>8. \A i \in 1..Len(w) : \A j \in 1..n : w[i] # g[j]
    <2>1. \A j \in 1..n : g[j] \notin Sent(w)
      BY <1>1, <1>2, KeyFacts
    <2> QED BY <1>4, <2>1 DEF Sent
  <1>9. \A i, j \in 1..(Len(w) + n) : (w \o g)[i] = (w \o g)[j] => i = j
    <2> SUFFICES ASSUME NEW i \in 1..(Len(w) + n), NEW j \in 1..(Len(w) + n), (w \o g)[i] = (w \o g)[j]
                 PROVE  i = j
      OBVIOUS
    <2>1. CASE i \in 1..Len(w) /\ j \in 1..Len(w)
      BY <1>4, <1>5, <2>1 DEF Once
    <2>2. ASSUME NEW a \in 1..n, NEW b \in 1..n, i = Len(w) + a, j = Len(w) + b PROVE i = j
      <3>1. (w \o g)[i] = g[a] /\ (w \o g)[j] = g[b]
        BY <1>5, <2>2
      <3>2. a = b
        BY <1>7, <3>1
      <3> QED BY <2>2, <3>2
    <2>3. ASSUME NEW a \in 1..n, i = Len(w) + a, j \in 1..Len(w) PROVE FALSE
      BY <1>5, <1>8, <2>3
    <2>4. ASSUME NEW b \in 1..n, i \in 1..Len(w), j = Len(w) + b PROVE FALSE
      BY <1>5, <1>8, <2>4
    <2> QED BY <1>6, <2>1, <2>2, <2>3, <2>4
  <1>10. ReadBy(s) = {s.reads[i] : i \in 1..n}
    BY <1>1 DEF ReadBy
  <1>11. Sent(w \o g) = Sent(w) \cup {GetOf(f, k) : k \in ReadBy(s)}
    <2>1. \A i \in 1..Len(w) : i \in 1..(Len(w) + n)
      BY <1>1, <1>4
    <2>2. \A i \in 1..n : Len(w) + i \in 1..(Len(w) + n)
      BY <1>1, <1>4
    <2>3. \A x : x \in Sent(w \o g) <=> (\E i \in 1..Len(w) : x = w[i]) \/ (\E i \in 1..n : x = g[i])
      <3>1. \A x : x \in Sent(w \o g) <=> \E i \in 1..(Len(w) + n) : x = (w \o g)[i]
        BY <1>5 DEF Sent
      <3>2. \A i \in 1..(Len(w) + n) : (\E j \in 1..Len(w) : (w \o g)[i] = w[j])
                                       \/ (\E j \in 1..n : (w \o g)[i] = g[j])
        BY <1>5, <1>6
      <3>3. \A i \in 1..Len(w) : \E j \in 1..(Len(w) + n) : w[i] = (w \o g)[j]
        BY <1>5, <2>1
      <3>4. \A i \in 1..n : \E j \in 1..(Len(w) + n) : g[i] = (w \o g)[j]
        BY <1>5, <2>2
      <3> SUFFICES ASSUME NEW x
                   PROVE  x \in Sent(w \o g) <=> (\E i \in 1..Len(w) : x = w[i]) \/ (\E i \in 1..n : x = g[i])
        OBVIOUS
      <3>5. x \in Sent(w \o g) => (\E i \in 1..Len(w) : x = w[i]) \/ (\E i \in 1..n : x = g[i])
        <4> SUFFICES ASSUME x \in Sent(w \o g)
                     PROVE  (\E i \in 1..Len(w) : x = w[i]) \/ (\E i \in 1..n : x = g[i])
          OBVIOUS
        <4>1. PICK i \in 1..(Len(w) + n) : x = (w \o g)[i]
          BY <3>1
        <4>2. (\E j \in 1..Len(w) : (w \o g)[i] = w[j]) \/ (\E j \in 1..n : (w \o g)[i] = g[j])
          BY <3>2
        <4> QED BY <4>1, <4>2
      <3>6. (\E i \in 1..Len(w) : x = w[i]) => x \in Sent(w \o g)
        BY <3>1, <3>3, Zenon
      <3>7. (\E i \in 1..n : x = g[i]) => x \in Sent(w \o g)
        BY <3>1, <3>4, Zenon
      <3> QED BY <3>5, <3>6, <3>7
    <2>4. \A x : x \in Sent(w) <=> \E i \in 1..Len(w) : x = w[i]
      BY <1>4 DEF Sent
    <2>5. \A x : x \in {GetOf(f, k) : k \in ReadBy(s)} <=> \E i \in 1..n : x = g[i]
      BY <1>2, <1>10
    <2> QED BY <2>3, <2>4, <2>5
  <1>12. ReadBy(s) \subseteq Readable
    BY <1>1, <1>10
  <1> QED BY <1>5, <1>9, <1>11, <1>12 DEF Once, g

-----------------------------------------------------------------------------
(* Reads: what the operations do to who awaits whom.                         *)

LEMMA FetchFacts ==
    /\ MaxFetches \in Nat \ {0} /\ Fetches \subseteq Nat \ {0} /\ Fetches \subseteq Callers /\ Users \subseteq Callers
    /\ Callers \subseteq Nat /\ 0 \notin Callers /\ \A u \in Users : u \notin Fetches
    /\ \A f \in Fetches : f \in 0..MaxFetches
    /\ \A g \in 0..MaxFetches : g # 0 => g \in Fetches
    /\ Lag \in Nat \ {0}
  BY ReadAssumption DEF ReadAssumption, Fetches, Callers

LEMMA NoFetchFields ==
    /\ NoFetch.key = "none" /\ NoFetch.at = "idle" /\ NoFetch.key \notin Keys /\ NoFetch \notin FetchType
  <1>1. NoFetch.key = "none" /\ NoFetch.at = "idle"
    BY DEF NoFetch
  <1>2. \A r \in FetchType : r.key \in Keys
    BY DEF FetchType
  <1> QED BY <1>1, <1>2, KeyFacts

LEMMA FetchFields ==
    ASSUME NEW r \in FetchType \cup {NoFetch}, r # NoFetch
    PROVE  /\ r \in FetchType /\ r.key \in Keys /\ r.at \in {"work", "store"} /\ r.stage \in Nat
           /\ r.left \subseteq Keys \cup {"own"} /\ r.whole \in BOOLEAN /\ r.asOf \in Int
           /\ r.began \in Nat /\ r.done \in Nat /\ r.by \in Nat
  BY DEF FetchType

\* A fetch that is at work, or stores, is one.
LEMMA AtWork ==
    ASSUME NEW r \in FetchType \cup {NoFetch}, r.at = "work" \/ r.at = "store" \/ r.key \in Keys
    PROVE  r # NoFetch /\ r \in FetchType
  BY NoFetchFields

\* What a stage asks for is read and is a key.
LEMMA StageReads ==
    ASSUME NEW s, StageOK(s)
    PROVE  /\ ReadBy(s) \subseteq Readable /\ ReadBy(s) \subseteq Keys
           /\ \A k \in Keys : k \in Pieces(s) <=> k \in ReadBy(s)
  <1>1. ReadBy(s) \subseteq Readable
    BY DEF StageOK, ReadBy
  <1> QED BY <1>1, KeyFacts DEF Pieces

Begun(k, t, by) ==
    [key |-> k, at |-> "work", stage |-> 1, left |-> Pieces(Stage(k, 1)), whole |-> TRUE, asOf |-> t, began |-> t,
     done |-> 0, by |-> by]
LEMMA BegunFields ==
    ASSUME NEW k \in Keys, NEW t \in Nat, NEW by \in Nat, NEW x, x = Begun(k, t, by)
    PROVE  /\ x \in FetchType /\ x # NoFetch
           /\ x.key = k /\ x.at = "work" /\ x.stage = 1
           /\ x.left = Pieces(Stage(k, 1)) /\ x.asOf = t /\ x.began = t
           /\ x.done = 0
           /\ StageOK(Stage(k, 1)) /\ 1 \in DOMAIN Plans[k].stages
  <1>1. PlanOK(k)
    BY PlanFacts
  <1>2. 1 \in DOMAIN Plans[k].stages /\ StageOK(Stage(k, 1))
    BY <1>1 DEF PlanOK
  <1>3. ReadBy(Stage(k, 1)) \subseteq Keys
    BY <1>2, StageReads
  <1>4. Pieces(Stage(k, 1)) \subseteq Keys \cup {"own"}
    BY <1>3 DEF Pieces
  <1>5. /\ x.key = k /\ x.at = "work" /\ x.stage = 1
        /\ x.left = Pieces(Stage(k, 1)) /\ x.asOf = t /\ x.began = t
        /\ x.done = 0
    BY DEF Begun
  <1>6. x \in FetchType
    <2>1. Pieces(Stage(k, 1)) \in SUBSET (Keys \cup {"own"}) /\ t \in Int
      BY <1>4
    <2> QED BY <2>1 DEF Begun, FetchType
  <1> QED BY <1>2, <1>5, <1>6, NoFetchFields

\* The reads of a stage, asked for by a fetch that awaits nothing
LEMMA AskingKeeps ==
    ASSUME NEW w, NEW rs, NEW ps, NEW fs, NEW f \in Fetches, NEW s, StageOK(s), NEW fs1, NEW x \in FetchType,
           WireOK(w, rs, fs), ReadersOK(rs, ps, fs), TiesOK(rs, ps, fs),
           \A r \in rs : r.by # f, \A p \in ps : p.to # f,
           fs1 = [fs EXCEPT ![f] = x], x.at = "work", fs[f].at # "store", \A r \in rs : r.on = f => r.key = x.key,
           x.stage \in DOMAIN Plans[x.key].stages, s = Stage(x.key, x.stage), x.left = Pieces(s)
    PROVE  Linked(w \o Gets(f, s), rs \cup Asking(f, s), ps, fs1)
  <1> DEFINE rs1 == rs \cup Asking(f, s)
             w1 == w \o Gets(f, s)
  <1>1. /\ fs1 \in [Fetches -> FetchType \cup {NoFetch}] /\ fs1[f] = x
        /\ \A g \in Fetches : g # f => fs1[g] = fs[g]
        /\ rs \subseteq ReaderType /\ ps \subseteq ReplyType
    BY DEF ReadersOK
  <1>2. \A k \in Keys : GetOf(f, k) \notin Sent(w)
    <2> SUFFICES ASSUME NEW k \in Keys, GetOf(f, k) \in Sent(w) PROVE FALSE
      OBVIOUS
    <2>1. Wants(f, k, 0) \in rs
      BY DEF WireOK, GetOf
    <2> QED BY <2>1 DEF Wants
  <1>3. /\ Once(w1) /\ Sent(w1) = Sent(w) \cup {GetOf(f, k) : k \in ReadBy(s)}
    BY <1>2, GetsSent DEF WireOK
  <1>4. Asking(f, s) = {Wants(f, k, 0) : k \in ReadBy(s)}
    BY DEF Asking, Wants
  <1> HIDE DEF w1
  <1>5. ReadBy(s) \subseteq Readable /\ ReadBy(s) \subseteq Keys /\ \A k \in Keys : k \in Pieces(s) <=> k \in ReadBy(s)
    BY StageReads
  <1>6. \A k \in ReadBy(s) : /\ Wants(f, k, 0) \in ReaderType /\ Wants(f, k, 0).by = f
                             /\ Wants(f, k, 0).key = k /\ Wants(f, k, 0).on = 0
                             /\ GetOf(f, k).op = "get" /\ GetOf(f, k).by = f /\ GetOf(f, k).key = k
    BY <1>5, FetchFacts DEF Wants, ReaderType, GetOf
  <1>7. WireOK(w1, rs1, fs1)
    <2>1. ASSUME NEW c \in Sent(w1)
          PROVE  IF c.op = "get" THEN Wants(c.by, c.key, 0) \in rs1
                 ELSE c.by \in Fetches /\ fs1[c.by].at = "store" /\ fs1[c.by].key = c.key
      <3>1. CASE c \in Sent(w)
        BY <1>1, <3>1 DEF WireOK
      <3>2. CASE c \notin Sent(w)
        BY <1>3, <1>4, <1>6, <2>1, <3>2
      <3> QED BY <3>1, <3>2
    <2>2. ASSUME NEW r \in rs1, r.on = 0 PROVE GetOf(r.by, r.key) \in Sent(w1)
      BY <1>3, <1>4, <1>6, <2>2 DEF WireOK
    <2>3. ASSUME NEW g \in Fetches, fs1[g].at = "store" PROVE SetOf(g, fs1[g].key) \in Sent(w1)
      BY <1>1, <1>3, <2>3 DEF WireOK
    <2> QED BY <1>3, <2>1, <2>2, <2>3 DEF WireOK
  <1>8. ReadersOK(rs1, ps, fs1)
    <2>1. rs1 \subseteq ReaderType
      BY <1>1, <1>4, <1>6
    <2>2. \A q, r \in rs1 : q.by = r.by /\ q.key = r.key => q = r
      BY <1>4, <1>6 DEF ReadersOK
    <2>3. \A p \in ps, r \in rs1 : p.to # r.by \/ p.key # r.key
      BY <1>4, <1>6 DEF ReadersOK
    <2>4. ASSUME NEW r \in rs1, r.on # 0 PROVE fs1[r.on].key = r.key
      <3>1. r \in rs /\ r.on \in Fetches
        BY <1>1, <1>4, <1>6, <2>4, FetchFacts DEF ReaderType
      <3>2. r.on # f => fs1[r.on].key = r.key
        BY <1>1, <2>4, <3>1 DEF ReadersOK
      <3> QED BY <1>1, <3>1, <3>2
    <2> QED BY <1>1, <2>1, <2>2, <2>3, <2>4 DEF ReadersOK
  <1>9. TiesOK(rs1, ps, fs1)
    <2>1. ASSUME NEW k \in Keys PROVE Awaits(rs1, ps, f, k) <=> k \in ReadBy(s)
      BY <1>4, <1>6 DEF Awaits
    <2>2. ASSUME NEW g \in Fetches, g # f, NEW k \in Keys PROVE Awaits(rs1, ps, g, k) <=> Awaits(rs, ps, g, k)
      BY <1>4, <1>6, <2>2 DEF Awaits
    <2> HIDE DEF rs1
    <2> QED BY <1>1, <1>5, <2>1, <2>2 DEF TiesOK
  <1> QED BY <1>7, <1>8, <1>9 DEF Linked, w1

\* fetchAndCache begins.
Begins(x, k) == \E t \in Nat, by \in Nat : x = Begun(k, t, by)
CanStart(f, k, rs, ps, fs, fl) ==
    /\ fs[f] = NoFetch /\ (\A r \in rs : r.by # f) /\ (\A p \in ps : p.to # f) /\ (Shared(k) => fl[k] = 0)
InMap(fl, k, f) == IF Plans[k].shared THEN [fl EXCEPT ![k] = f] ELSE fl
LEMMA StartsLinked ==
    ASSUME NEW w, NEW rs, NEW ps, NEW fs, NEW fl, Linked(w, rs, ps, fs), FlightOK(fl, fs),
           NEW f \in Fetches, NEW k \in Keys, CanStart(f, k, rs, ps, fs, fl), NEW x, Begins(x, k),
           NEW fs1, fs1 = [fs EXCEPT ![f] = x],
           NEW fl1, fl1 = InMap(fl, k, f)
    PROVE  /\ Linked(w \o Gets(f, Stage(k, 1)), rs \cup Asking(f, Stage(k, 1)), ps, fs1)
           /\ FlightOK(fl1, fs1)
  <1> /\ fs[f] = NoFetch /\ (\A r \in rs : r.by # f) /\ (\A p \in ps : p.to # f) /\ (Shared(k) => fl[k] = 0)
    BY DEF CanStart
  <1>1. /\ x \in FetchType /\ x # NoFetch /\ x.key = k /\ x.at = "work" /\ x.stage = 1 /\ x.left = Pieces(Stage(k, 1))
        /\ StageOK(Stage(k, 1)) /\ 1 \in DOMAIN Plans[k].stages
    BY BegunFields DEF Begins
  <1>2. fs1 = [fs EXCEPT ![f] = x]
    OBVIOUS
  <1>3. rs \subseteq ReaderType /\ fs \in [Fetches -> FetchType \cup {NoFetch}]
    BY DEF Linked, ReadersOK
  <1>4. \A r \in rs : r.on = f => r.key = x.key
    <2>1. \A r \in rs : r.key \in Keys
      BY <1>3, KeyFacts DEF ReaderType
    <2>2. \A r \in rs : r.on = f => r.key = NoFetch.key
      BY FetchFacts DEF Linked, ReadersOK
    <2> QED BY <2>1, <2>2, NoFetchFields
  <1>5. Linked(w \o Gets(f, Stage(k, 1)), rs \cup Asking(f, Stage(k, 1)), ps, fs1)
    <2>1. fs[f].at # "store" /\ Stage(k, 1) = Stage(x.key, x.stage)
      BY <1>1, NoFetchFields
    <2>2. x.stage \in DOMAIN Plans[x.key].stages
      BY <1>1
    <2> QED BY <1>1, <1>2, <1>4, <2>1, <2>2, AskingKeeps DEF Linked
  <1>6. fs1[f] = x /\ \A g \in Fetches : g # f => fs1[g] = fs[g]
    BY <1>2, <1>3
  <1>7. \A g \in Fetches : fs[g].key = k /\ Shared(k) => FALSE
    <2> SUFFICES ASSUME NEW g \in Fetches, fs[g].key = k, Shared(k) PROVE FALSE
      OBVIOUS
    <2>1. fs[g] # NoFetch
      BY NoFetchFields
    <2>2. fl[k] = g
      BY <2>1 DEF FlightOK
    <2> QED BY <2>2, FetchFacts
  <1>8. FlightOK(fl1, fs1)
    <2>1. fl \in [Keys -> 0..MaxFetches] /\ f \in 0..MaxFetches
      BY FetchFacts DEF FlightOK
    <2>2. fl1 \in [Keys -> 0..MaxFetches]
      BY <2>1 DEF InMap
    <2>3. \A j \in Keys : fl1[j] = IF j = k /\ Shared(k) THEN f ELSE fl[j]
      BY <2>1 DEF Shared, InMap
    <2>4. ASSUME NEW g \in Fetches, fs1[g] # NoFetch, Shared(fs1[g].key) PROVE fl1[fs1[g].key] = g
      <3>1. CASE g = f
        BY <1>1, <1>6, <2>3, <2>4, <3>1
      <3>2. CASE g # f
        <4>1. fs[g] # NoFetch /\ Shared(fs[g].key) /\ fs[g] \in FetchType
          BY <1>3, <1>6, <2>4, <3>2
        <4>2. fs[g].key \in Keys /\ fs[g].key # k /\ fl[fs[g].key] = g
          BY <1>7, <4>1 DEF FetchType, FlightOK
        <4> QED BY <1>6, <2>3, <3>2, <4>2
      <3> QED BY <3>1, <3>2
    <2>5. ASSUME NEW j \in Keys, fl1[j] # 0 PROVE fs1[fl1[j]].key = j
      <3>1. CASE j = k /\ Shared(k)
        BY <1>1, <1>6, <2>3, <3>1
      <3>2. CASE ~(j = k /\ Shared(k))
        <4>1. fl1[j] = fl[j] /\ fl[j] \in Fetches /\ fs[fl[j]].key = j
          BY <2>1, <2>3, <2>5, <3>2, FetchFacts DEF FlightOK
        <4>2. fl[j] # f
          BY <4>1, NoFetchFields
        <4> QED BY <1>6, <4>1, <4>2
      <3> QED BY <3>1, <3>2
    <2> QED BY <2>2, <2>4, <2>5 DEF FlightOK
  <1> QED BY <1>5, <1>8

LEMMA StartsBusy ==
    ASSUME NEW fs, fs \in [Fetches -> FetchType \cup {NoFetch}], Busy(fs), NEW f \in Fetches, NEW k \in Keys,
           NEW x, Begins(x, k), NEW fs1, fs1 = [fs EXCEPT ![f] = x]
    PROVE  Busy(fs1)
  <1>1. x.left # {}
    BY BegunFields DEF Begins, StageOK
  <1> QED BY <1>1 DEF Busy

\* The reader of the command that Redis answers next
LEMMA HeadReader ==
    ASSUME NEW w, NEW rs, NEW ps, NEW fs, Linked(w, rs, ps, fs), w # <<>>, Head(w).op = "get"
    PROVE  LET c == Head(w)
               a == Wants(c.by, c.key, 0)
           IN  /\ a \in rs /\ a.by = c.by /\ a.key = c.key /\ a.on = 0 /\ c.by \in Callers /\ c.key \in Readable
               /\ \A r \in rs : r.by = c.by /\ r.key = c.key => r = a
               /\ \A p \in ps : p.to # c.by \/ p.key # c.key
               /\ WireOK(Tail(w), rs \ {a}, fs)
  <1> DEFINE c == Head(w)
             a == Wants(c.by, c.key, 0)
  <1>1. /\ Once(Tail(w)) /\ Sent(Tail(w)) = Sent(w) \ {c} /\ c \in Sent(w) /\ c \in Commands
    BY TailSends DEF Linked, WireOK
  <1> HIDE DEF c
  <1>2. a \in rs /\ a.by = c.by /\ a.key = c.key /\ a.on = 0
    BY <1>1 DEF Linked, WireOK, Wants, c
  <1>3. rs \subseteq ReaderType
    BY DEF Linked, ReadersOK
  <1>4. c.by \in Callers /\ c.key \in Readable
    BY <1>2, <1>3 DEF ReaderType
  <1>5. /\ \A r \in rs : r.by = c.by /\ r.key = c.key => r = a
        /\ \A p \in ps : p.to # c.by \/ p.key # c.key
    BY <1>2 DEF Linked, ReadersOK
  <1>6. ASSUME NEW d \in Sent(w), d # c
        PROVE  IF d.op = "get" THEN Wants(d.by, d.key, 0) \in rs \ {a}
               ELSE d.by \in Fetches /\ fs[d.by].at = "store" /\ fs[d.by].key = d.key
    <2>1. CASE d.op # "get"
      BY <2>1 DEF Linked, WireOK
    <2>2. CASE d.op = "get"
      <3>1. Wants(d.by, d.key, 0) \in rs
        BY <2>2 DEF Linked, WireOK
      <3>2. d \in Commands
        BY DEF Linked, WireOK, Once, Sent
      <3>3. d.by # c.by \/ d.key # c.key
        BY <1>1, <1>6, <2>2, <3>2 DEF Commands, c
      <3>4. Wants(d.by, d.key, 0).by = d.by /\ Wants(d.by, d.key, 0).key = d.key
        BY DEF Wants
      <3> QED BY <1>2, <2>2, <3>1, <3>3, <3>4
    <2> QED BY <2>1, <2>2
  <1>7. ASSUME NEW r \in rs \ {a}, r.on = 0 PROVE GetOf(r.by, r.key) \in Sent(Tail(w))
    <2>1. GetOf(r.by, r.key) \in Sent(w)
      BY <1>7 DEF Linked, WireOK
    <2>2. GetOf(r.by, r.key).by = r.by /\ GetOf(r.by, r.key).key = r.key
      BY DEF GetOf
    <2> QED BY <1>1, <1>5, <2>1, <2>2
  <1>8. ASSUME NEW f \in Fetches, fs[f].at = "store" PROVE SetOf(f, fs[f].key) \in Sent(Tail(w))
    <2>1. SetOf(f, fs[f].key) \in Sent(w) /\ SetOf(f, fs[f].key).op = "set"
      BY <1>8 DEF Linked, WireOK, SetOf
    <2> QED BY <1>1, <2>1 DEF c
  <1>9. WireOK(Tail(w), rs \ {a}, fs)
    BY <1>1, <1>6, <1>7, <1>8 DEF WireOK
  <1> QED BY <1>2, <1>4, <1>5, <1>9 DEF c

\* Its reader is told, or joins a fetch of the key.
LEMMA HeadAnswered ==
    ASSUME NEW w, NEW rs, NEW ps, NEW fs, Linked(w, rs, ps, fs), w # <<>>, Head(w).op = "get",
           NEW p \in ReplyType, p.to = Head(w).by, p.key = Head(w).key
    PROVE  Linked(Tail(w), rs \ {Wants(Head(w).by, Head(w).key, 0)}, ps \cup {p}, fs)
  <1> DEFINE a == Wants(Head(w).by, Head(w).key, 0)
  <1>1. /\ a \in rs /\ a.by = p.to /\ a.key = p.key /\ a.on = 0
        /\ \A r \in rs : r.by = p.to /\ r.key = p.key => r = a
        /\ \A q \in ps : q.to # p.to \/ q.key # p.key
        /\ WireOK(Tail(w), rs \ {a}, fs)
    BY HeadReader
  <1> HIDE DEF a
  <1>2. ReadersOK(rs \ {a}, ps \cup {p}, fs)
    BY <1>1 DEF Linked, ReadersOK
  <1>3. \A g, k : Awaits(rs \ {a}, ps \cup {p}, g, k) <=> Awaits(rs, ps, g, k)
    BY <1>1 DEF Awaits
  <1>4. TiesOK(rs \ {a}, ps \cup {p}, fs)
    BY <1>3 DEF Linked, TiesOK
  <1> QED BY <1>1, <1>2, <1>4 DEF Linked, a

LEMMA HeadJoined ==
    ASSUME NEW w, NEW rs, NEW ps, NEW fs, Linked(w, rs, ps, fs), w # <<>>, Head(w).op = "get",
           NEW g \in Fetches, fs[g].key = Head(w).key
    PROVE  Linked(Tail(w), (rs \ {Wants(Head(w).by, Head(w).key, 0)}) \cup {Wants(Head(w).by, Head(w).key, g)}, ps, fs)
  <1> DEFINE a == Wants(Head(w).by, Head(w).key, 0)
             b == Wants(Head(w).by, Head(w).key, g)
  <1>1. /\ a \in rs /\ a.by = b.by /\ a.key = b.key /\ a.on = 0 /\ b.on = g /\ b.key = Head(w).key
        /\ \A r \in rs : r.by = b.by /\ r.key = b.key => r = a
        /\ \A q \in ps : q.to # b.by \/ q.key # b.key
        /\ b \in ReaderType /\ g # 0
        /\ WireOK(Tail(w), rs \ {a}, fs)
    <2>1. b.by = Head(w).by /\ b.key = Head(w).key /\ b.on = g
      BY DEF Wants
    <2>2. b \in ReaderType
      BY HeadReader, FetchFacts DEF Wants, ReaderType
    <2> QED BY <2>1, <2>2, HeadReader, FetchFacts
  <1> HIDE DEF a, b
  <1>2. ReadersOK((rs \ {a}) \cup {b}, ps, fs)
    <2>1. \A r \in (rs \ {a}) \cup {b} : r.on # 0 => fs[r.on].key = r.key
      BY <1>1 DEF Linked, ReadersOK
    <2> QED BY <1>1, <2>1 DEF Linked, ReadersOK
  <1>3. \A h, k : Awaits((rs \ {a}) \cup {b}, ps, h, k) <=> Awaits(rs, ps, h, k)
    BY <1>1 DEF Awaits
  <1>4. TiesOK((rs \ {a}) \cup {b}, ps, fs)
    BY <1>3 DEF Linked, TiesOK
  <1>5. WireOK(Tail(w), (rs \ {a}) \cup {b}, fs)
    <2>1. \A c \in Sent(Tail(w)) : c.op = "get" => Wants(c.by, c.key, 0) \in (rs \ {a}) \cup {b}
      BY <1>1 DEF WireOK
    <2>2. \A r \in (rs \ {a}) \cup {b} : r.on = 0 => GetOf(r.by, r.key) \in Sent(Tail(w))
      BY <1>1 DEF WireOK
    <2> QED BY <1>1, <2>1, <2>2 DEF WireOK
  <1> QED BY <1>2, <1>4, <1>5 DEF Linked, a, b

\* A fetch that awaits nothing has no reads and no results under way.
LEMMA NothingAwaited ==
    ASSUME NEW w, NEW rs, NEW ps, NEW fs, Linked(w, rs, ps, fs), NEW f \in Fetches, fs[f].at = "work", fs[f].left = {}
    PROVE  (\A r \in rs : r.by # f) /\ (\A p \in ps : p.to # f)
  <1>1. \A k \in Keys : ~Awaits(rs, ps, f, k)
    BY DEF Linked, TiesOK
  <1>2. (\A r \in rs : r.key \in Keys) /\ (\A p \in ps : p.key \in Keys)
    BY KeyFacts DEF Linked, ReadersOK, ReaderType, ReplyType
  <1> QED BY <1>1, <1>2 DEF Awaits

\* A piece of a fetch comes: its own, or a result.
Comes(f, q, ps, ps1) == (q = "own" /\ ps1 = ps) \/ \E p \in ps : p.to = f /\ p.key = q /\ ps1 = ps \ {p}
Shrinks(r, q, x) ==
    /\ r.at = "work" /\ q \in r.left /\ x \in FetchType /\ x.key = r.key /\ x.at = "work" /\ x.stage = r.stage
    /\ x.began = r.began /\ x.left = r.left \ {q}

LEMMA LessLinked ==
    ASSUME NEW w, NEW rs, NEW ps, NEW fs, Linked(w, rs, ps, fs), NEW f \in Fetches, NEW q, NEW x, Shrinks(fs[f], q, x),
           NEW ps1, Comes(f, q, ps, ps1), NEW fs1, fs1 = [fs EXCEPT ![f] = x]
    PROVE  Linked(w, rs, ps1, fs1)
  <1> /\ fs[f].at = "work" /\ q \in fs[f].left /\ x \in FetchType /\ x.key = fs[f].key /\ x.at = "work"
      /\ x.stage = fs[f].stage /\ x.left = fs[f].left \ {q}
      /\ ((q = "own" /\ ps1 = ps) \/ \E p \in ps : p.to = f /\ p.key = q /\ ps1 = ps \ {p})
    BY DEF Comes, Shrinks
  <1>1. /\ fs1 \in [Fetches -> FetchType \cup {NoFetch}] /\ fs1[f] = x
        /\ \A g \in Fetches : g # f => fs1[g] = fs[g]
        /\ rs \subseteq ReaderType /\ ps1 \subseteq ps
    BY DEF Linked, ReadersOK
  <1>2. \A g \in Fetches : fs1[g].at = fs[g].at /\ fs1[g].key = fs[g].key
    BY <1>1
  <1>3. WireOK(w, rs, fs1)
    BY <1>2 DEF Linked, WireOK
  <1>4. ReadersOK(rs, ps1, fs1)
    <2>1. ASSUME NEW r \in rs, r.on # 0 PROVE fs1[r.on].key = r.key
      <3>1. r.on \in Fetches
        BY <1>1, <2>1, FetchFacts DEF ReaderType
      <3> QED BY <1>2, <2>1, <3>1 DEF Linked, ReadersOK
    <2> QED BY <1>1, <2>1 DEF Linked, ReadersOK
  <1>5. ASSUME NEW g \in Fetches, g # f, NEW k \in Keys PROVE Awaits(rs, ps1, g, k) <=> Awaits(rs, ps, g, k)
    BY <1>5 DEF Awaits
  <1>6. ASSUME NEW k \in Keys PROVE k \in x.left <=> Awaits(rs, ps1, f, k)
    <2>1. k \in fs[f].left <=> Awaits(rs, ps, f, k)
      BY DEF Linked, TiesOK
    <2>2. CASE q = "own" /\ ps1 = ps
      BY <2>1, <2>2, KeyFacts
    <2>3. ASSUME NEW p \in ps, p.to = f, p.key = q, ps1 = ps \ {p} PROVE k \in x.left <=> Awaits(rs, ps1, f, k)
      <3>1. CASE k = q
        <4>1. ~Awaits(rs, ps1, f, k)
          BY <2>3, <3>1 DEF Linked, ReadersOK, Awaits
        <4> QED BY <3>1, <4>1
      <3>2. CASE k # q
        <4>1. Awaits(rs, ps1, f, k) <=> Awaits(rs, ps, f, k)
          BY <2>3, <3>2 DEF Awaits
        <4> QED BY <2>1, <3>2, <4>1
      <3> QED BY <3>1, <3>2
    <2> QED BY <2>2, <2>3
  <1>7. TiesOK(rs, ps1, fs1)
    <2> SUFFICES ASSUME NEW g \in Fetches, fs1[g].at = "work"
                 PROVE  /\ fs1[g].stage \in DOMAIN Plans[fs1[g].key].stages
                        /\ fs1[g].left \subseteq Pieces(Stage(fs1[g].key, fs1[g].stage))
                        /\ \A k \in Keys : k \in fs1[g].left <=> Awaits(rs, ps1, g, k)
      BY DEF TiesOK
    <2>1. CASE g = f
      BY <1>1, <1>6, <2>1 DEF Linked, TiesOK
    <2>2. CASE g # f
      BY <1>1, <1>5, <2>2 DEF Linked, TiesOK
    <2> QED BY <2>1, <2>2
  <1> QED BY <1>3, <1>4, <1>7 DEF Linked

\* A result comes to a user, or to a fetch that has ended.
LEMMA DropLinked ==
    ASSUME NEW w, NEW rs, NEW ps, NEW fs, Linked(w, rs, ps, fs), NEW p \in ps,
           \A f \in Fetches : p.to = f => ~(fs[f].at = "work" /\ p.key \in fs[f].left)
    PROVE  Linked(w, rs, ps \ {p}, fs)
  <1>1. ReadersOK(rs, ps \ {p}, fs)
    BY DEF Linked, ReadersOK
  <1>2. ASSUME NEW f \in Fetches, fs[f].at = "work", NEW k \in Keys
        PROVE  Awaits(rs, ps \ {p}, f, k) <=> Awaits(rs, ps, f, k)
    <2>1. p.to = f /\ p.key = k => FALSE
      <3> SUFFICES ASSUME p.to = f, p.key = k PROVE FALSE
        OBVIOUS
      <3>1. Awaits(rs, ps, f, k)
        BY DEF Awaits
      <3> QED BY <1>2, <3>1 DEF Linked, TiesOK
    <2> QED BY <2>1 DEF Awaits
  <1>3. TiesOK(rs, ps \ {p}, fs)
    BY <1>2 DEF Linked, TiesOK
  <1> QED BY <1>1, <1>3 DEF Linked

\* Who awaits a fetch is told.
LEMMA TellsLinked ==
    ASSUME NEW w, NEW rs, NEW ps, NEW fs, Linked(w, rs, ps, fs), NEW told, told \subseteq rs, \A r \in told : r.on # 0,
           NEW ok \in BOOLEAN, NEW x \in FetchType
    PROVE  Linked(w, rs \ told, ps \cup Told(told, ok, x), fs)
  <1>1. \A r \in rs : r \in ReaderType /\ r.by \in Callers /\ r.key \in Readable
    BY DEF Linked, ReadersOK, ReaderType
  <1>2. ASSUME NEW r \in told PROVE \E p \in Told(told, ok, x) : p.to = r.by /\ p.key = r.key
    <2>1. PICK p : p = [to |-> r.by, key |-> r.key, ok |-> ok, whole |-> x.whole, asOf |-> x.asOf]
      OBVIOUS
    <2>2. p \in Told(told, ok, x)
      BY <2>1 DEF Told
    <2>3. p.to = r.by /\ p.key = r.key
      BY <2>1
    <2> QED BY <2>2, <2>3
  <1>3. ASSUME NEW p \in Told(told, ok, x) PROVE p \in ReplyType /\ \E r \in told : p.to = r.by /\ p.key = r.key
    <2>1. PICK r \in told : p = [to |-> r.by, key |-> r.key, ok |-> ok, whole |-> x.whole, asOf |-> x.asOf]
      BY <1>3 DEF Told
    <2>2. x.whole \in BOOLEAN /\ x.asOf \in Int
      BY DEF FetchType
    <2> QED BY <1>1, <2>1, <2>2 DEF ReplyType
  <1>4. ASSUME NEW p \in Told(told, ok, x), NEW q \in Told(told, ok, x), p.to = q.to, p.key = q.key PROVE p = q
    <2>1. PICK a \in told : p = [to |-> a.by, key |-> a.key, ok |-> ok, whole |-> x.whole, asOf |-> x.asOf]
      BY DEF Told
    <2>2. PICK b \in told : q = [to |-> b.by, key |-> b.key, ok |-> ok, whole |-> x.whole, asOf |-> x.asOf]
      BY DEF Told
    <2>3. a.by = b.by /\ a.key = b.key
      BY <1>4, <2>1, <2>2
    <2> QED BY <2>1, <2>2, <2>3
  <1>5. \A q, r \in rs : q.by = r.by /\ q.key = r.key => q = r
    BY DEF Linked, ReadersOK
  <1>6. \A p \in ps, r \in rs : p.to # r.by \/ p.key # r.key
    BY DEF Linked, ReadersOK
  <1> DEFINE told1 == Told(told, ok, x)
  <1> HIDE DEF told1
  <1>7. ReadersOK(rs \ told, ps \cup told1, fs)
    <2>1. rs \ told \subseteq ReaderType /\ ps \cup told1 \subseteq ReplyType
      BY <1>3 DEF Linked, ReadersOK, told1
    <2>2. \A p, q \in ps \cup told1 : p.to = q.to /\ p.key = q.key => p = q
      <3> SUFFICES ASSUME NEW p \in ps \cup told1, NEW q \in ps \cup told1, p.to = q.to, p.key = q.key PROVE p = q
        OBVIOUS
      <3>1. CASE p \in ps /\ q \in ps
        BY <3>1 DEF Linked, ReadersOK
      <3>2. CASE p \in told1 /\ q \in told1
        BY <1>4, <3>2 DEF told1
      <3>3. CASE p \in ps /\ q \in told1
        <4>1. PICK r \in told : q.to = r.by /\ q.key = r.key
          BY <1>3, <3>3 DEF told1
        <4> QED BY <1>6, <3>3, <4>1
      <3>4. CASE q \in ps /\ p \in told1
        <4>1. PICK r \in told : p.to = r.by /\ p.key = r.key
          BY <1>3, <3>4 DEF told1
        <4> QED BY <1>6, <3>4, <4>1
      <3> QED BY <3>1, <3>2, <3>3, <3>4
    <2>3. ASSUME NEW p \in ps \cup told1, NEW r \in rs \ told PROVE p.to # r.by \/ p.key # r.key
      <3>1. CASE p \in told1
        <4>1. PICK q \in told : p.to = q.by /\ p.key = q.key
          BY <1>3, <3>1 DEF told1
        <4> QED BY <1>5, <4>1
      <3> QED BY <1>6, <3>1
    <2> QED BY <2>1, <2>2, <2>3 DEF Linked, ReadersOK
  <1>8. \A g, k : Awaits(rs \ told, ps \cup told1, g, k) <=> Awaits(rs, ps, g, k)
    <2> SUFFICES ASSUME NEW g, NEW k PROVE Awaits(rs \ told, ps \cup told1, g, k) <=> Awaits(rs, ps, g, k)
      OBVIOUS
    <2>1. (\E p \in told1 : p.to = g /\ p.key = k) <=> (\E r \in told : r.by = g /\ r.key = k)
      BY <1>2, <1>3 DEF told1
    <2> QED BY <2>1 DEF Awaits
  <1>9. TiesOK(rs \ told, ps \cup told1, fs)
    BY <1>8 DEF Linked, TiesOK
  <1>10. WireOK(w, rs \ told, fs)
    <2>1. \A b, k : Wants(b, k, 0).on = 0
      BY DEF Wants
    <2> QED BY <2>1 DEF Linked, WireOK
  <1> QED BY <1>7, <1>9, <1>10 DEF Linked, told1

\* The next stage asks.
NextStage(r, s, x) ==
    /\ r.at = "work" /\ r.left = {} /\ x \in FetchType /\ x.key = r.key /\ x.at = "work"
    /\ x.stage \in DOMAIN Plans[x.key].stages /\ s = Stage(x.key, x.stage) /\ x.left = Pieces(s)

LEMMA NextStageLinked ==
    ASSUME NEW w, NEW rs, NEW ps, NEW fs, Linked(w, rs, ps, fs), NEW f \in Fetches, NEW s, NEW x,
           NextStage(fs[f], s, x), NEW fs1, fs1 = [fs EXCEPT ![f] = x]
    PROVE  Linked(w \o Gets(f, s), rs \cup Asking(f, s), ps, fs1) /\ x.left # {}
  <1> /\ fs[f].at = "work" /\ fs[f].left = {} /\ x \in FetchType /\ x.key = fs[f].key /\ x.at = "work"
      /\ x.stage \in DOMAIN Plans[x.key].stages /\ s = Stage(x.key, x.stage) /\ x.left = Pieces(s)
    BY DEF NextStage
  <1>1. (\A r \in rs : r.by # f) /\ (\A p \in ps : p.to # f)
    BY NothingAwaited
  <1>2. StageOK(s)
    <2>1. x.key \in Keys
      BY FetchFields, NoFetchFields
    <2> QED BY <2>1, PlanFacts DEF PlanOK
  <1>3. \A r \in rs : r.on = f => r.key = x.key
    BY FetchFacts DEF Linked, ReadersOK
  <1>4. WireOK(w, rs, fs) /\ ReadersOK(rs, ps, fs) /\ TiesOK(rs, ps, fs) /\ fs[f].at # "store"
    BY DEF Linked
  <1> QED BY <1>1, <1>2, <1>3, <1>4, AskingKeeps DEF StageOK

\* A fetch that awaits nothing sends its result to Redis.
LEMMA SetLinked ==
    ASSUME NEW w, NEW rs, NEW ps, NEW fs, Linked(w, rs, ps, fs), NEW f \in Fetches, fs[f].at = "work",
           NEW x \in FetchType, x.key = fs[f].key, x.at = "store", NEW fs1, fs1 = [fs EXCEPT ![f] = x]
    PROVE  Linked(Append(w, SetOf(f, x.key)), rs, ps, fs1)
  <1> DEFINE c == SetOf(f, x.key)
  <1>1. /\ fs1 \in [Fetches -> FetchType \cup {NoFetch}] /\ fs1[f] = x
        /\ \A g \in Fetches : g # f => fs1[g] = fs[g]
        /\ rs \subseteq ReaderType
    BY DEF Linked, ReadersOK
  <1>2. c \in Commands /\ c.op = "set" /\ c.by = f /\ c.key = x.key
    BY FetchFacts, FetchFields, NoFetchFields DEF SetOf, Commands
  <1> HIDE DEF c
  <1>3. c \notin Sent(w)
    BY <1>2 DEF Linked, WireOK
  <1>4. Once(Append(w, c)) /\ Sent(Append(w, c)) = Sent(w) \cup {c}
    BY <1>2, <1>3, AppendSends DEF Linked, WireOK
  <1>5. WireOK(Append(w, c), rs, fs1)
    <2>1. ASSUME NEW d \in Sent(Append(w, c))
          PROVE  IF d.op = "get" THEN Wants(d.by, d.key, 0) \in rs
                 ELSE d.by \in Fetches /\ fs1[d.by].at = "store" /\ fs1[d.by].key = d.key
      <3>1. CASE d = c
        BY <1>1, <1>2, <3>1
      <3>2. CASE d \in Sent(w)
        <4>1. d.op # "get" => d.by \in Fetches /\ fs[d.by].at = "store" /\ fs[d.by].key = d.key
          BY <3>2 DEF Linked, WireOK
        <4>2. d.op = "get" => Wants(d.by, d.key, 0) \in rs
          BY <3>2 DEF Linked, WireOK
        <4> QED BY <1>1, <4>1, <4>2
      <3> QED BY <1>4, <3>1, <3>2
    <2>2. ASSUME NEW g \in Fetches, fs1[g].at = "store" PROVE SetOf(g, fs1[g].key) \in Sent(Append(w, c))
      <3>1. CASE g = f
        BY <1>1, <1>4, <3>1 DEF c
      <3>2. CASE g # f
        BY <1>1, <1>4, <2>2, <3>2 DEF Linked, WireOK
      <3> QED BY <3>1, <3>2
    <2>3. \A r \in rs : r.on = 0 => GetOf(r.by, r.key) \in Sent(Append(w, c))
      BY <1>4 DEF Linked, WireOK
    <2> QED BY <1>4, <2>1, <2>2, <2>3 DEF WireOK
  <1>6. ReadersOK(rs, ps, fs1)
    <2>1. ASSUME NEW r \in rs, r.on # 0 PROVE fs1[r.on].key = r.key
      <3>1. r.on \in Fetches
        BY <1>1, <2>1, FetchFacts DEF ReaderType
      <3> QED BY <1>1, <2>1, <3>1 DEF Linked, ReadersOK
    <2> QED BY <1>1, <2>1 DEF Linked, ReadersOK
  <1>7. TiesOK(rs, ps, fs1)
    BY <1>1 DEF Linked, TiesOK
  <1> QED BY <1>5, <1>6, <1>7 DEF Linked, c

\* A fetch that nobody awaits is over.
LEMMA EndsLinked ==
    ASSUME NEW w, NEW rs, NEW ps, NEW fs, Linked(w, rs, ps, fs), NEW f \in Fetches, \A r \in rs : r.on # f,
           NEW fs1, fs1 = [fs EXCEPT ![f] = NoFetch],
           NEW w1, \/ fs[f].at = "work" /\ w1 = w
                   \/ w # <<>> /\ Head(w) = SetOf(f, fs[f].key) /\ w1 = Tail(w)
    PROVE  Linked(w1, rs, ps, fs1)
  <1>1. /\ fs1 \in [Fetches -> FetchType \cup {NoFetch}] /\ fs1[f] = NoFetch
        /\ \A g \in Fetches : g # f => fs1[g] = fs[g]
        /\ rs \subseteq ReaderType
    BY DEF Linked, ReadersOK
  <1>2. /\ Once(w1) /\ Sent(w1) \subseteq Sent(w) /\ SetOf(f, fs[f].key) \notin Sent(w1)
        /\ \A d \in Sent(w) : d \in Sent(w1) \/ d = SetOf(f, fs[f].key)
    <2>1. SetOf(f, fs[f].key).op = "set" /\ SetOf(f, fs[f].key).by = f
      BY DEF SetOf
    <2>2. CASE fs[f].at = "work" /\ w1 = w
      BY <2>1, <2>2 DEF Linked, WireOK
    <2>3. CASE w # <<>> /\ Head(w) = SetOf(f, fs[f].key) /\ w1 = Tail(w)
      <3>1. Once(Tail(w)) /\ Sent(Tail(w)) = Sent(w) \ {Head(w)}
        BY <2>3, TailSends DEF Linked, WireOK
      <3> QED BY <2>3, <3>1
    <2> QED BY <2>2, <2>3
  <1>3. WireOK(w1, rs, fs1)
    <2>1. ASSUME NEW d \in Sent(w1)
          PROVE  IF d.op = "get" THEN Wants(d.by, d.key, 0) \in rs
                 ELSE d.by \in Fetches /\ fs1[d.by].at = "store" /\ fs1[d.by].key = d.key
      <3>1. d.op # "get" => d.by \in Fetches /\ fs[d.by].at = "store" /\ fs[d.by].key = d.key
        BY <1>2 DEF Linked, WireOK
      <3>2. d.op = "get" => Wants(d.by, d.key, 0) \in rs
        BY <1>2 DEF Linked, WireOK
      <3>3. CASE d.op # "get"
        <4>1. d \in Commands
          BY <1>2 DEF Once, Sent
        <4>2. d = SetOf(d.by, d.key)
          BY <3>3, <4>1 DEF Commands, SetOf
        <4>3. d.by # f
          BY <1>2, <3>1, <3>3, <4>2
        <4> QED BY <1>1, <3>1, <3>3, <4>3
      <3> QED BY <3>2, <3>3
    <2>2. ASSUME NEW g \in Fetches, fs1[g].at = "store" PROVE SetOf(g, fs1[g].key) \in Sent(w1)
      <3>1. g # f
        BY <1>1, <2>2, NoFetchFields
      <3>2. SetOf(g, fs[g].key) \in Sent(w)
        BY <1>1, <2>2, <3>1 DEF Linked, WireOK
      <3>3. SetOf(g, fs[g].key).by = g /\ SetOf(f, fs[f].key).by = f
        BY DEF SetOf
      <3> QED BY <1>1, <1>2, <3>1, <3>2, <3>3
    <2>3. ASSUME NEW r \in rs, r.on = 0 PROVE GetOf(r.by, r.key) \in Sent(w1)
      <3>1. GetOf(r.by, r.key) \in Sent(w)
        BY <2>3 DEF Linked, WireOK
      <3>2. GetOf(r.by, r.key).op = "get" /\ SetOf(f, fs[f].key).op = "set"
        BY DEF SetOf, GetOf
      <3> QED BY <1>2, <3>1, <3>2
    <2> QED BY <1>2, <2>1, <2>2, <2>3 DEF WireOK
  <1>4. ReadersOK(rs, ps, fs1)
    <2>1. ASSUME NEW r \in rs, r.on # 0 PROVE fs1[r.on].key = r.key
      <3>1. r.on \in Fetches
        BY <1>1, <2>1, FetchFacts DEF ReaderType
      <3> QED BY <1>1, <2>1, <3>1 DEF Linked, ReadersOK
    <2> QED BY <1>1, <2>1 DEF Linked, ReadersOK
  <1>5. TiesOK(rs, ps, fs1)
    BY <1>1, NoFetchFields DEF Linked, TiesOK
  <1> QED BY <1>3, <1>4, <1>5 DEF Linked

\* A caller asks.
LEMMA AskLinked ==
    ASSUME NEW w, NEW rs, NEW ps, NEW fs, Linked(w, rs, ps, fs), NEW u \in Users, NEW k \in Readable,
           \A r \in rs : r.by # u, \A p \in ps : p.to # u
    PROVE  Linked(Append(w, GetOf(u, k)), rs \cup {Wants(u, k, 0)}, ps, fs)
  <1> DEFINE a == Wants(u, k, 0)
             c == GetOf(u, k)
  <1>1. /\ a.by = u /\ a.key = k /\ a.on = 0 /\ a \in ReaderType
        /\ c \in Commands /\ c.op = "get" /\ c.by = u /\ c.key = k
    BY FetchFacts, KeyFacts DEF Wants, GetOf, ReaderType, Commands
  <1>2. c \notin Sent(w)
    <2> SUFFICES ASSUME c \in Sent(w) PROVE FALSE
      OBVIOUS
    <2>1. Wants(u, k, 0) \in rs
      BY <1>1 DEF Linked, WireOK
    <2> QED BY <1>1, <2>1
  <1> HIDE DEF c
  <1>3. Once(Append(w, c)) /\ Sent(Append(w, c)) = Sent(w) \cup {c}
    BY <1>1, <1>2, AppendSends DEF Linked, WireOK
  <1>4. WireOK(Append(w, c), rs \cup {a}, fs)
    <2>1. ASSUME NEW d \in Sent(Append(w, c))
          PROVE  IF d.op = "get" THEN Wants(d.by, d.key, 0) \in rs \cup {a}
                 ELSE d.by \in Fetches /\ fs[d.by].at = "store" /\ fs[d.by].key = d.key
      <3>1. CASE d = c
        BY <1>1, <3>1
      <3>2. CASE d \in Sent(w)
        BY <3>2 DEF Linked, WireOK
      <3> QED BY <1>3, <3>1, <3>2
    <2>2. ASSUME NEW r \in rs \cup {a}, r.on = 0 PROVE GetOf(r.by, r.key) \in Sent(Append(w, c))
      <3>1. CASE r = a
        BY <1>1, <1>3, <3>1 DEF c
      <3>2. CASE r \in rs
        BY <1>3, <2>2, <3>2 DEF Linked, WireOK
      <3> QED BY <3>1, <3>2
    <2>3. \A f \in Fetches : fs[f].at = "store" => SetOf(f, fs[f].key) \in Sent(Append(w, c))
      BY <1>3 DEF Linked, WireOK
    <2> QED BY <1>3, <2>1, <2>2, <2>3 DEF WireOK
  <1> HIDE DEF a
  <1>5. ReadersOK(rs \cup {a}, ps, fs)
    BY <1>1 DEF Linked, ReadersOK
  <1>6. ASSUME NEW f \in Fetches, NEW j PROVE Awaits(rs \cup {a}, ps, f, j) <=> Awaits(rs, ps, f, j)
    BY <1>1, FetchFacts DEF Awaits
  <1>7. TiesOK(rs \cup {a}, ps, fs)
    BY <1>6 DEF Linked, TiesOK
  <1> QED BY <1>4, <1>5, <1>7 DEF Linked, a, c

-----------------------------------------------------------------------------
(* Reads: the map of the fetches under way.                                  *)

\* A fetch goes on under its key.
LEMMA FlightKept ==
    ASSUME NEW fl, NEW fs, FlightOK(fl, fs), fs \in [Fetches -> FetchType \cup {NoFetch}], NEW f \in Fetches,
           fs[f] # NoFetch, NEW x \in FetchType, x.key = fs[f].key, NEW fs1, fs1 = [fs EXCEPT ![f] = x]
    PROVE  FlightOK(fl, fs1)
  <1>1. \A g \in Fetches : fs1[g].key = fs[g].key /\ (fs1[g] # NoFetch => fs[g] # NoFetch)
    BY NoFetchFields
  <1>2. \A k \in Keys : fl[k] # 0 => fl[k] \in Fetches
    BY FetchFacts DEF FlightOK
  <1> QED BY <1>1, <1>2 DEF FlightOK

\* A fetch is over.
Freed(fl, f) == [k \in Keys |-> IF fl[k] = f THEN 0 ELSE fl[k]]
LEMMA FlightOver ==
    ASSUME NEW fl, NEW fs, FlightOK(fl, fs), fs \in [Fetches -> FetchType \cup {NoFetch}], NEW f \in Fetches,
           NEW fs1, fs1 = [fs EXCEPT ![f] = NoFetch], NEW fl1, fl1 = Freed(fl, f)
    PROVE  FlightOK(fl1, fs1)
  <1> fl1 = [k \in Keys |-> IF fl[k] = f THEN 0 ELSE fl[k]]
    BY DEF Freed
  <1>1. \A g \in Fetches : fs1[g] = IF g = f THEN NoFetch ELSE fs[g]
    OBVIOUS
  <1>2. fl1 \in [Keys -> 0..MaxFetches]
    BY FetchFacts DEF FlightOK
  <1>3. ASSUME NEW g \in Fetches, fs1[g] # NoFetch, Shared(fs1[g].key) PROVE fl1[fs1[g].key] = g
    <2>1. g # f /\ fs[g] # NoFetch /\ fs1[g] = fs[g] /\ fs[g] \in FetchType
      BY <1>1, <1>3
    <2>2. fl[fs[g].key] = g /\ fs[g].key \in Keys
      BY <1>3, <2>1 DEF FlightOK, FetchType
    <2> QED BY <2>1, <2>2
  <1>4. ASSUME NEW k \in Keys, fl1[k] # 0 PROVE fs1[fl1[k]].key = k
    <2>1. fl1[k] = fl[k] /\ fl[k] # f /\ fl[k] # 0
      BY <1>4
    <2>2. fl[k] \in Fetches /\ fs[fl[k]].key = k
      BY <2>1, FetchFacts DEF FlightOK
    <2> QED BY <1>1, <2>1, <2>2
  <1> QED BY <1>2, <1>3, <1>4 DEF FlightOK

-----------------------------------------------------------------------------
(* Reads: ages.                                                              *)

LEMMA AgeFacts ==
    \A k \in Keys : Plans[k].ttl \in Nat \ {0} /\ AgeOf(k) \in Nat /\ AgeOf(k) >= Lag /\ SourcesOf(k) \subseteq Keys
  <1> SUFFICES ASSUME NEW k \in Keys
               PROVE  /\ Plans[k].ttl \in Nat \ {0} /\ AgeOf(k) \in Nat /\ AgeOf(k) >= Lag /\ SourcesOf(k) \subseteq Keys
    OBVIOUS
  <1>1. Plans[k].ttl \in Nat \ {0}
    BY PlanFacts DEF PlanOK
  <1>2. SourcesOf(k) \subseteq Keys
    BY PlanFacts, KeyFacts DEF Leaf
  <1> QED BY <1>1, <1>2, FetchFacts DEF AgeOf

\* What a fetch has is as old when it is answered as Within says ...
LEMMA AnsweredAge ==
    ASSUME NEW k \in Keys, NEW asOf \in Int, NEW began \in Nat, NEW t \in Nat, t <= began + Lag, AsOfOK(k, asOf, began)
    PROVE  Within(t - asOf, k)
  <1>1. AgeOf(k) \in Nat /\ AgeOf(k) >= Lag /\ SourcesOf(k) \subseteq Keys /\ Lag \in Nat
    BY AgeFacts, FetchFacts
  <1>2. CASE asOf >= began
    <2>1. t - asOf <= AgeOf(k)
      BY <1>1, <1>2
    <2> QED BY <2>1 DEF Within
  <1>3. ASSUME NEW i \in SourcesOf(k), asOf >= began - AgeOf(i) PROVE Within(t - asOf, k)
    <2>1. AgeOf(i) \in Nat
      BY <1>1, AgeFacts
    <2>2. t - asOf <= AgeOf(k) + AgeOf(i)
      BY <1>1, <1>3, <2>1
    <2> QED BY <2>2 DEF Within
  <1> QED BY <1>2, <1>3 DEF AsOfOK

\* ... and so is what is kept, as long as it is.
LEMMA KeptAge ==
    ASSUME NEW k \in Keys, NEW asOf \in Int, NEW until \in Nat, NEW t \in Nat, t < until,
           AsOfOK(k, asOf, until - Plans[k].ttl - Lag)
    PROVE  Within(t - asOf, k)
  <1>1. /\ AgeOf(k) = Plans[k].ttl - 1 + Lag /\ Plans[k].ttl \in Nat /\ SourcesOf(k) \subseteq Keys /\ Lag \in Nat
    BY AgeFacts, FetchFacts DEF AgeOf
  <1>2. CASE asOf >= until - Plans[k].ttl - Lag
    <2>1. t - asOf <= AgeOf(k)
      BY <1>1, <1>2
    <2> QED BY <2>1 DEF Within
  <1>3. ASSUME NEW i \in SourcesOf(k), asOf >= until - Plans[k].ttl - Lag - AgeOf(i) PROVE Within(t - asOf, k)
    <2>1. AgeOf(i) \in Nat
      BY <1>1, AgeFacts
    <2>2. t - asOf <= AgeOf(k) + AgeOf(i)
      BY <1>1, <1>3, <2>1
    <2> QED BY <2>2 DEF Within
  <1> QED BY <1>2, <1>3 DEF AsOfOK

\* What a fetch stores is as old as what is kept may be.
LEMMA StoredAge ==
    ASSUME NEW k \in Keys, NEW asOf \in Int, NEW began \in Nat, NEW t \in Nat, t <= began + Lag, AsOfOK(k, asOf, began)
    PROVE  AsOfOK(k, asOf, (t + Plans[k].ttl) - Plans[k].ttl - Lag)
  <1>1. Plans[k].ttl \in Nat /\ SourcesOf(k) \subseteq Keys /\ Lag \in Nat
    BY AgeFacts, FetchFacts
  <1>2. \A i \in SourcesOf(k) : AgeOf(i) \in Nat
    BY <1>1, AgeFacts
  <1> QED BY <1>1, <1>2 DEF AsOfOK

\* What a fetch of k has read of i, a leaf
LEMMA ReadAge ==
    ASSUME NEW k \in Keys, NEW i \in SourcesOf(k), NEW asOf \in Int, NEW began \in Nat, NEW t \in Nat, began <= t,
           Within(t - asOf, i)
    PROVE  AsOfOK(k, asOf, began)
  <1>1. SourcesOf(i) = {} /\ i \in Keys
    BY PlanFacts, KeyFacts DEF Leaf
  <1>2. t - asOf <= AgeOf(i) /\ AgeOf(i) \in Nat
    BY <1>1, AgeFacts DEF Within
  <1>3. asOf >= began - AgeOf(i)
    BY <1>2
  <1> QED BY <1>3 DEF AsOfOK

LEMMA LesserOf ==
    ASSUME NEW a \in Int, NEW b \in Int
    PROVE  Min({a, b}) \in {a, b}
  <1>1. \E x \in {a, b} : \A y \in {a, b} : x =< y
    OBVIOUS
  <1> QED BY <1>1 DEF Min

LEMMA UnusedIs ==
    ASSUME AllUnused # {}
    PROVE  Unused \in Fetches /\ fetches[Unused] = NoFetch /\ \A r \in readers : r.by # Unused
  <1>1. AllUnused \subseteq Fetches /\ AllUnused \subseteq Nat
    BY FetchFacts DEF AllUnused
  <1>2. PICK n \in AllUnused : \A m \in AllUnused : n <= m
    BY <1>1, LeastNumber
  <1>3. Min(AllUnused) \in AllUnused
    BY <1>2 DEF Min
  <1> QED BY <1>3 DEF Unused, AllUnused

-----------------------------------------------------------------------------
(* Reads: what a fetch has is told and kept.                                 *)

\* Complete, or answered instead of an error
Answerable(r) == r.whole \/ MayLack(r.key) \/ Plans[r.key].error = "answer"

LEMMA ToldOK ==
    ASSUME NEW told, NEW ok \in BOOLEAN, NEW r \in FetchType, NEW t \in Nat,
           \A q \in told : q.key = r.key /\ q.key \in Readable,
           ok => t <= r.began + Lag /\ AsOfOK(r.key, r.asOf, r.began) /\ Answerable(r)
    PROVE  \A p \in Told(told, ok, r) : ReplyOK(p, t)
  <1> SUFFICES ASSUME NEW p \in Told(told, ok, r), p.ok PROVE ReplyOK(p, t)
    BY DEF ReplyOK
  <1>1. PICK q \in told : p = [to |-> q.by, key |-> q.key, ok |-> ok, whole |-> r.whole, asOf |-> r.asOf]
    BY DEF Told
  <1>2. p.key = r.key /\ r.key \in Readable /\ p.asOf = r.asOf /\ p.whole = r.whole
    BY <1>1
  <1>3. ok
    BY <1>1
  <1>4. r.key \in Makers(p.key) /\ r.key \in Keys
    BY <1>2, KeyFacts
  <1>5. Within(t - p.asOf, r.key)
    BY <1>2, <1>3, <1>4, AnsweredAge DEF FetchType
  <1>6. p.whole \/ MayLack(r.key) \/ Plans[r.key].error = "answer"
    BY <1>2, <1>3 DEF Answerable
  <1> QED BY <1>4, <1>5, <1>6 DEF ReplyOK

-----------------------------------------------------------------------------
(* Reads: what the operations do, when the rest is a state that holds.       *)

Typed(fs) == fs \in [Fetches -> FetchType \cup {NoFetch}]

LEMMA LinkedTypes ==
    ASSUME NEW w, NEW rs, NEW ps, NEW fs, Linked(w, rs, ps, fs)
    PROVE  /\ Typed(fs) /\ rs \subseteq ReaderType /\ ps \subseteq ReplyType
           /\ \A r \in rs : r.on # 0 => r.on \in Fetches /\ fs[r.on].key = r.key
           /\ \A r \in rs : r.key \in Readable /\ r.by \in Callers
  BY FetchFacts DEF Linked, ReadersOK, Typed, ReaderType

\* A fetch goes on as x, with the time it began.
LEMMA GoesOn ==
    ASSUME NEW fs, Typed(fs), NEW f \in Fetches, fs[f] # NoFetch, NEW x \in FetchType, x.key = fs[f].key,
           x.began = fs[f].began, NEW fs1, fs1 = [fs EXCEPT ![f] = x], NEW t, FetchOK(x, t), NEW es, NEW fl,
           FlightOK(fl, fs), \A g \in Fetches : FetchOK(fs[g], t), LaterOK(es, fs)
    PROVE  FlightOK(fl, fs1) /\ (\A g \in Fetches : FetchOK(fs1[g], t)) /\ LaterOK(es, fs1)
  <1>1. fs1[f] = x /\ \A g \in Fetches : g # f => fs1[g] = fs[g]
    BY DEF Typed
  <1>2. FlightOK(fl, fs1)
    BY FlightKept DEF Typed
  <1>3. \A g \in Fetches : FetchOK(fs1[g], t)
    BY <1>1
  <1>4. LaterOK(es, fs1)
    BY <1>1 DEF LaterOK
  <1> QED BY <1>2, <1>3, <1>4

\* A piece of a fetch comes.
LEMMA LessHolds ==
    ASSUME NEW w, NEW rs, NEW ps, NEW fs, NEW fl, NEW es, NEW t, ReadsAre(w, rs, ps, fs, fl, es, t),
           NEW f \in Fetches, NEW q, NEW x, Shrinks(fs[f], q, x), FetchOK(x, t), NEW fs1, fs1 = [fs EXCEPT ![f] = x],
           NEW ps1, Comes(f, q, ps, ps1)
    PROVE  ReadsAre(w, rs, ps1, fs1, fl, es, t)
  <1>1. Linked(w, rs, ps1, fs1)
    <2>1. Linked(w, rs, ps, fs)
      BY DEF ReadsAre
    <2> QED BY <2>1, LessLinked
  <1>2. fs[f] # NoFetch /\ Typed(fs)
    BY LinkedTypes, NoFetchFields DEF ReadsAre, Shrinks
  <1>3. FlightOK(fl, fs1) /\ (\A g \in Fetches : FetchOK(fs1[g], t)) /\ LaterOK(es, fs1)
    BY <1>2, GoesOn DEF ReadsAre, Shrinks
  <1>4. ps1 \subseteq ps
    BY DEF Comes
  <1> QED BY <1>1, <1>3, <1>4 DEF ReadsAre

\* The result goes to Redis.
LEMMA StoresHolds ==
    ASSUME NEW fs, NEW rest, ReadsAre(wire, readers, rest, fs, flight, entries, now), now \in Nat, NEW f \in Fetches,
           fs[f].at = "work", NEW v, fs = [fetches EXCEPT ![f] = v], Typed(fetches),
           NEW r \in FetchType, r.key = fs[f].key, r.began = fs[f].began, FetchOK(r, now), Stores(f, r, rest)
    PROVE  ReadsAre(wire', readers', replies', fetches', flight', entries, now) /\ (Busy(fetches) => Busy(fetches'))
  <1>1. PICK told : told = {q \in Waiting(f) : Plans[r.key].early /\ q.by # r.by}
    OBVIOUS
  <1>2. PICK x : x = [r EXCEPT !.at = "store", !.left = {}, !.done = now]
    OBVIOUS
  <1>3. /\ fetches' = [fetches EXCEPT ![f] = x] /\ wire' = Append(wire, SetOf(f, r.key))
        /\ readers' = readers \ told /\ replies' = rest \cup Told(told, TRUE, r) /\ flight' = flight
    BY <1>1, <1>2 DEF Stores, SetOf
  <1>4. /\ x.key = r.key /\ x.at = "store" /\ x.began = r.began /\ x.asOf = r.asOf /\ x.done = now
        /\ x.whole = r.whole
    BY <1>2 DEF FetchType
  <1>5. x \in FetchType
    BY <1>2 DEF FetchType
  <1>6. r # NoFetch /\ fs[f] # NoFetch /\ Typed(fs)
    BY NoFetchFields, LinkedTypes DEF ReadsAre
  <1>7. FetchOK(x, now)
    BY <1>4, <1>6 DEF FetchOK
  <1>8. fetches' = [fs EXCEPT ![f] = x] /\ \A g \in Fetches : fetches'[g] = IF g = f THEN x ELSE fetches[g]
    BY <1>3 DEF Typed
  <1>9. told \subseteq readers /\ \A q \in told : q.on # 0 /\ q.key = r.key /\ q.key \in Readable
    <2> Linked(wire, readers, rest, fs)
      BY DEF ReadsAre
    <2>1. \A q \in readers : q.key \in Readable /\ (q.on # 0 => fs[q.on].key = q.key)
      <3>1. \A q \in readers : q.on # 0 => q.on \in Fetches /\ fs[q.on].key = q.key
        BY FetchFacts DEF Linked, ReadersOK, ReaderType
      <3>2. \A q \in readers : q.key \in Readable /\ q.by \in Callers
        BY LinkedTypes, Zenon
      <3> QED BY <3>1, <3>2
    <2>2. f # 0
      BY FetchFacts
    <2> QED BY <1>1, <2>1, <2>2 DEF Waiting
  <1>10. Linked(wire, readers', replies', fs)
    <2>2. Linked(wire, readers, rest, fs) /\ TRUE \in BOOLEAN
      BY DEF ReadsAre
    <2>3. Linked(wire, readers \ told, rest \cup Told(told, TRUE, r), fs)
      BY <1>9, <2>2, TellsLinked
    <2> QED BY <1>3, <2>3
  <1>11. Linked(wire', readers', replies', fetches')
    BY <1>3, <1>4, <1>5, <1>8, <1>10, SetLinked
  <1>12. FlightOK(flight, fetches') /\ (\A g \in Fetches : FetchOK(fetches'[g], now)) /\ LaterOK(entries, fetches')
    <2>1. FlightOK(flight, fs) /\ (\A g \in Fetches : FetchOK(fs[g], now)) /\ LaterOK(entries, fs)
      BY DEF ReadsAre
    <2>2. x.key = fs[f].key /\ x.began = fs[f].began /\ fetches' = [fs EXCEPT ![f] = x]
      BY <1>4, <1>8
    <2> QED BY <1>5, <1>6, <1>7, <2>1, <2>2, GoesOn
  <1>13. \A p \in replies' : ReplyOK(p, now)
    <2>1. now <= r.began + Lag /\ AsOfOK(r.key, r.asOf, r.began) /\ Answerable(r)
      BY <1>6 DEF FetchOK, Answerable
    <2>2. \A p \in Told(told, TRUE, r) : ReplyOK(p, now)
      BY <1>9, <2>1, ToldOK
    <2> QED BY <1>3, <2>2 DEF ReadsAre
  <1>14. Busy(fetches) => Busy(fetches')
    BY <1>4, <1>8 DEF Busy
  <1> QED BY <1>3, <1>11, <1>12, <1>13, <1>14 DEF ReadsAre

\* A fetch is over, with or without a result.
LEMMA OverHolds ==
    ASSUME NEW fs, NEW rest, NEW es, ReadsAre(wire, readers, rest, fs, flight, es, now), now \in Nat, NEW f \in Fetches,
           NEW v, fs = [fetches EXCEPT ![f] = v], Typed(fetches),
           NEW w1, \/ fs[f].at = "work" /\ w1 = wire
                   \/ wire # <<>> /\ Head(wire) = SetOf(f, fs[f].key) /\ w1 = Tail(wire),
           NEW r \in FetchType, r.key = fs[f].key, NEW ok \in BOOLEAN, Over(f, ok, r, rest),
           ok => now <= r.began + Lag /\ AsOfOK(r.key, r.asOf, r.began) /\ Answerable(r)
    PROVE  ReadsAre(w1, readers', replies', fetches', flight', es, now) /\ (Busy(fetches) => Busy(fetches'))
  <1>1. PICK told : told = Waiting(f)
    OBVIOUS
  <1>2. /\ fetches' = [fetches EXCEPT ![f] = NoFetch] /\ flight' = Freed(flight, f)
        /\ readers' = readers \ told /\ replies' = rest \cup Told(told, ok, r)
    BY <1>1 DEF Over, Freed
  <1>3. Typed(fs)
    BY LinkedTypes DEF ReadsAre
  <1>4. fetches' = [fs EXCEPT ![f] = NoFetch] /\ \A g \in Fetches : fetches'[g] = IF g = f THEN NoFetch ELSE fs[g]
    BY <1>2 DEF Typed
  <1>5. told \subseteq readers /\ \A q \in told : q.on # 0 /\ q.key = r.key /\ q.key \in Readable
    <2> Linked(wire, readers, rest, fs)
      BY DEF ReadsAre
    <2>1. \A q \in readers : q.key \in Readable /\ (q.on # 0 => fs[q.on].key = q.key)
      <3>1. \A q \in readers : q.on # 0 => q.on \in Fetches /\ fs[q.on].key = q.key
        BY FetchFacts DEF Linked, ReadersOK, ReaderType
      <3>2. \A q \in readers : q.key \in Readable /\ q.by \in Callers
        BY LinkedTypes, Zenon
      <3> QED BY <3>1, <3>2
    <2>2. f # 0
      BY FetchFacts
    <2> QED BY <1>1, <2>1, <2>2 DEF Waiting
  <1>6. Linked(wire, readers', replies', fs)
    <2>2. Linked(wire, readers, rest, fs)
      BY DEF ReadsAre
    <2>3. Linked(wire, readers \ told, rest \cup Told(told, ok, r), fs)
      BY <1>5, <2>2, TellsLinked
    <2> QED BY <1>2, <2>3
  <1>7. Linked(w1, readers', replies', fetches')
    <2>1. \A q \in readers' : q.on # f
      BY <1>1, <1>2 DEF Waiting
    <2>2. fetches' = [fs EXCEPT ![f] = NoFetch]
      BY <1>4
    <2> QED BY <1>6, <2>1, <2>2, EndsLinked
  <1>8. FlightOK(flight', fetches')
    <2>1. FlightOK(flight, fs) /\ fetches' = [fs EXCEPT ![f] = NoFetch] /\ fs \in [Fetches -> FetchType \cup {NoFetch}]
      BY <1>3, <1>4 DEF ReadsAre, Typed
    <2> QED BY <1>2, <2>1, FlightOver
  <1>9. (\A g \in Fetches : FetchOK(fetches'[g], now)) /\ LaterOK(es, fetches')
    <2>1. FetchOK(NoFetch, now)
      BY DEF FetchOK
    <2> QED BY <1>4, <2>1 DEF ReadsAre, LaterOK
  <1>10. \A p \in replies' : ReplyOK(p, now)
    <2>1. \A p \in Told(told, ok, r) : ReplyOK(p, now)
      BY <1>5, ToldOK
    <2> QED BY <1>2, <2>1 DEF ReadsAre
  <1>11. Busy(fetches) => Busy(fetches')
    <2>1. \A g \in Fetches : fetches'[g] = IF g = f THEN NoFetch ELSE fetches[g]
      BY <1>2 DEF Typed
    <2> QED BY <2>1, NoFetchFields DEF Busy
  <1> QED BY <1>7, <1>8, <1>9, <1>10, <1>11 DEF ReadsAre

\* The rest of what a fetch does when a piece has come: fs is what is under way without that piece.
LEMMA AdvancesHolds ==
    ASSUME NEW rest, NEW f \in Fetches, NEW r \in FetchType, r.at = "work", NEW fs, fs = [fetches EXCEPT ![f] = r],
           ReadsAre(wire, readers, rest, fs, flight, entries, now), now \in Nat, Typed(fetches), Busy(fetches),
           NEW last \in BOOLEAN, Advances(f, r, last, rest)
    PROVE  ReadsAre(wire', readers', replies', fetches', flight', entries, now) /\ Busy(fetches')
  <1>1. fs[f] = r /\ \A g \in Fetches : g # f => fs[g] = fetches[g]
    BY DEF Typed
  <1>2. Linked(wire, readers, rest, fs) /\ Typed(fs)
    BY LinkedTypes DEF ReadsAre
  <1>3. r # NoFetch /\ r.key \in Keys /\ r.stage \in Nat /\ r.left \subseteq Keys \cup {"own"}
    BY NoFetchFields DEF FetchType
  <1>4. FetchOK(r, now)
    BY <1>1 DEF ReadsAre
  <1>5. CASE r.left # {} /\ fetches' = [fetches EXCEPT ![f] = r] /\ replies' = rest /\ UNCHANGED <<wire, readers, flight>>
    <2>1. Busy(fs)
      BY <1>1, <1>5 DEF Busy
    <2> QED BY <1>5, <2>1
  <1>6. CASE /\ r.left = {} /\ ~last /\ r.stage < Len(Plans[r.key].stages)
             /\ fetches' = [fetches EXCEPT ![f] = [r EXCEPT !.stage = @ + 1,
                                                            !.left = Pieces(Plans[r.key].stages[r.stage + 1])]]
             /\ wire' = wire \o Gets(f, Plans[r.key].stages[r.stage + 1])
             /\ readers' = readers \cup Asking(f, Plans[r.key].stages[r.stage + 1])
             /\ replies' = rest /\ UNCHANGED flight
    <2>1. PICK s : s = Stage(r.key, r.stage + 1)
      OBVIOUS
    <2>2. s = Plans[r.key].stages[r.stage + 1]
      BY <2>1 DEF Stage
    <2>3. PICK x : x = [r EXCEPT !.stage = @ + 1, !.left = Pieces(s)]
      OBVIOUS
    <2>4. r.stage \in DOMAIN Plans[r.key].stages
      BY <1>1, <1>2 DEF Linked, TiesOK
    <2>5. r.stage + 1 \in DOMAIN Plans[r.key].stages /\ StageOK(s)
      <3>1. PlanOK(r.key)
        BY <1>3, PlanFacts
      <3>2. r.stage + 1 \in DOMAIN Plans[r.key].stages
        BY <1>3, <1>6, <2>4, <3>1 DEF PlanOK
      <3> QED BY <2>1, <3>1, <3>2 DEF PlanOK
    <2>6. Pieces(s) \subseteq Keys \cup {"own"}
      BY <2>5, StageReads DEF Pieces
    <2>7. /\ x \in FetchType /\ x.key = r.key /\ x.at = "work" /\ x.began = r.began /\ x.asOf = r.asOf
          /\ x.stage = r.stage + 1 /\ x.left = Pieces(s) /\ x.done = r.done
      <3>1. /\ x.key = r.key /\ x.at = "work" /\ x.began = r.began /\ x.asOf = r.asOf
            /\ x.stage = r.stage + 1 /\ x.left = Pieces(s) /\ x.done = r.done
        BY <2>3 DEF FetchType
      <3>2. x \in FetchType
        <4>1. r.stage + 1 \in Nat /\ Pieces(s) \in SUBSET (Keys \cup {"own"})
          BY <1>3, <2>6
        <4> QED BY <2>3, <4>1 DEF FetchType
      <3> QED BY <3>1, <3>2
    <2>8. x.whole = r.whole
      BY <2>3 DEF FetchType
    <2>9. /\ fetches' = [fs EXCEPT ![f] = x] /\ wire' = wire \o Gets(f, s) /\ readers' = readers \cup Asking(f, s)
          /\ replies' = rest /\ flight' = flight
      BY <1>6, <2>2, <2>3 DEF Typed
    <2>10. Linked(wire', readers', replies', fetches') /\ x.left # {}
      <3>1. fs[f].at = "work" /\ fs[f].left = {} /\ x.key = fs[f].key
        BY <1>1, <1>6, <2>7
      <3>2. x.stage \in DOMAIN Plans[x.key].stages /\ s = Stage(x.key, x.stage)
        BY <2>1, <2>5, <2>7
      <3>3. Linked(wire \o Gets(f, s), readers \cup Asking(f, s), rest, fetches') /\ x.left # {}
        <4>1. NextStage(fs[f], s, x)
          BY <2>7, <3>1, <3>2 DEF NextStage
        <4>2. fetches' = [fs EXCEPT ![f] = x]
          BY <2>9
        <4> QED BY <1>2, <4>1, <4>2, NextStageLinked
      <3> QED BY <2>9, <3>3
    <2>11. FetchOK(x, now)
      BY <1>3, <1>4, <2>7, <2>8 DEF FetchOK
    <2>12. FlightOK(flight, fetches') /\ (\A g \in Fetches : FetchOK(fetches'[g], now)) /\ LaterOK(entries, fetches')
      <3>1. FlightOK(flight, fs) /\ (\A g \in Fetches : FetchOK(fs[g], now)) /\ LaterOK(entries, fs)
        BY DEF ReadsAre
      <3>2. fs[f] # NoFetch /\ x.key = fs[f].key /\ x.began = fs[f].began
        BY <1>1, <1>3, <2>7
      <3> QED BY <1>2, <2>7, <2>9, <2>11, <3>1, <3>2, GoesOn
    <2>13. Busy(fetches')
      <3>1. \A g \in Fetches : fetches'[g] = IF g = f THEN x ELSE fetches[g]
        BY <1>1, <1>2, <2>9 DEF Typed
      <3> QED BY <2>10, <3>1 DEF Busy
    <2> QED BY <2>9, <2>10, <2>12, <2>13 DEF ReadsAre
  <1>7. CASE r.left = {} /\ (last \/ r.stage = Len(Plans[r.key].stages)) /\ Stores(f, r, rest)
    <2>1. fs[f].at = "work" /\ r.key = fs[f].key /\ r.began = fs[f].began
      BY <1>1
    <2> QED BY <1>4, <1>7, <2>1, StoresHolds
  <1> QED BY <1>5, <1>6, <1>7 DEF Advances

LEMMA FailsHolds ==
    ASSUME NEW rest, NEW f \in Fetches, NEW v, NEW fs, fs = [fetches EXCEPT ![f] = v], v.at = "work", fetches[f] \in FetchType,
           v.key = fetches[f].key, v.began = fetches[f].began, FetchOK(fetches[f], now),
           ReadsAre(wire, readers, rest, fs, flight, entries, now), now \in Nat, Typed(fetches), Busy(fetches),
           Fails(f, rest)
    PROVE  ReadsAre(wire', readers', replies', fetches', flight', entries, now) /\ Busy(fetches')
  <1>1. PICK r : r = fetches[f]
    OBVIOUS
  <1>2. PICK default : default = [r EXCEPT !.whole = FALSE, !.asOf = now]
    OBVIOUS
  <1>3. \/ Plans[r.key].error = "throw" /\ Over(f, FALSE, r, rest) /\ UNCHANGED wire
        \/ Plans[r.key].error = "answer" /\ Over(f, TRUE, default, rest) /\ UNCHANGED wire
        \/ Plans[r.key].error = "default" /\ Stores(f, default, rest)
    BY <1>1, <1>2 DEF Fails
  <1>4. fs[f] = v /\ r.key = fs[f].key /\ r.began = fs[f].began /\ r \in FetchType /\ fs[f].at = "work"
    BY <1>1 DEF Typed
  <1>5. /\ default.key = r.key /\ default.at = r.at /\ default.began = r.began /\ default.asOf = now
        /\ default.done = r.done /\ default \in FetchType
    <2>1. /\ default.key = r.key /\ default.at = r.at /\ default.began = r.began /\ default.asOf = now
          /\ default.done = r.done
      BY <1>2, <1>4 DEF FetchType
    <2>2. default \in FetchType
      <3>1. now \in Int /\ FALSE \in BOOLEAN
        OBVIOUS
      <3> QED BY <1>2, <1>4, <3>1 DEF FetchType
    <2> QED BY <2>1, <2>2
  <1>6. r # NoFetch /\ r.key \in Keys /\ r.began \in Nat
    BY <1>4, NoFetchFields DEF FetchType
  <1>7. r.began <= now /\ now <= r.began + Lag /\ r.done <= now
    BY <1>1, <1>6 DEF FetchOK
  <1>8. AsOfOK(default.key, default.asOf, default.began)
    BY <1>5, <1>6, <1>7 DEF AsOfOK
  <1>9. CASE Plans[r.key].error = "throw" /\ Over(f, FALSE, r, rest) /\ UNCHANGED wire
    <2>1. FALSE \in BOOLEAN /\ fs[f].at = "work" /\ wire' = wire
      BY <1>4, <1>9
    <2> QED BY <1>4, <1>9, <2>1, OverHolds
  <1>10. CASE Plans[r.key].error = "answer" /\ Over(f, TRUE, default, rest) /\ UNCHANGED wire
    <2>1. TRUE \in BOOLEAN /\ fs[f].at = "work" /\ wire' = wire /\ default.key = fs[f].key
      BY <1>4, <1>5, <1>10
    <2>2. Answerable(default)
      BY <1>5, <1>10 DEF Answerable
    <2>3. now <= default.began + Lag
      BY <1>5, <1>7
    <2> QED BY <1>5, <1>8, <1>10, <2>1, <2>2, <2>3, OverHolds
  <1>11. CASE Plans[r.key].error = "default" /\ Stores(f, default, rest)
    <2>1. MayLack(r.key)
      BY <1>11 DEF MayLack, Lenience
    <2>2. FetchOK(default, now)
      BY <1>5, <1>7, <1>8, <2>1 DEF FetchOK
    <2>3. default.key = fs[f].key /\ default.began = fs[f].began
      BY <1>4, <1>5
    <2> QED BY <1>4, <1>5, <1>11, <2>2, <2>3, StoresHolds
  <1> QED BY <1>3, <1>9, <1>10, <1>11

-----------------------------------------------------------------------------
(* Reads: one step at a time.                                                *)

LEMMA ReadFacts ==
    ASSUME ReadInv
    PROVE  /\ now \in Nat /\ Typed(fetches) /\ Linked(wire, readers, replies, fetches) /\ Busy(fetches)
           /\ ReadsAre(wire, readers, replies, fetches, flight, entries, now)
           /\ \A f \in Fetches : FetchOK(fetches[f], now)
  <1>1. now \in Nat
    BY DEF ReadInv, BoundsOK
  <1>2. ReadsAre(wire, readers, replies, fetches, flight, entries, now) /\ Busy(fetches)
    BY DEF ReadInv
  <1>3. Linked(wire, readers, replies, fetches) /\ \A f \in Fetches : FetchOK(fetches[f], now)
    BY <1>2 DEF ReadsAre
  <1>4. Typed(fetches)
    BY <1>3, LinkedTypes
  <1> QED BY <1>1, <1>2, <1>3, <1>4

LEMMA BoundsAfter ==
    ASSUME BoundsOK, now' = now, UNCHANGED readBounds \/ Mishap \/ Asks
    PROVE  BoundsOK'
  <1>1. readScene.mishaps \in Nat /\ readScene.budget \in Nat /\ readScene' = readScene
    BY ReadAssumption DEF ReadAssumption, BoundsOK, readBounds, Mishap, Asks
  <1>2. mishaps' \in 0..readScene.mishaps
    BY <1>1 DEF BoundsOK, readBounds, Mishap, Asks
  <1>3. asked' \in 0..readScene.budget
    BY <1>1 DEF BoundsOK, readBounds, Mishap, Asks
  <1> QED BY <1>1, <1>2, <1>3 DEF BoundsOK

\* What a fetch at work awaits
LEMMA OwesFacts ==
    ASSUME ReadInv, NEW f \in Fetches, NEW q, Owes(f, q)
    PROVE  /\ fetches[f] \in FetchType /\ fetches[f].at = "work" /\ q \in fetches[f].left /\ fetches[f].key \in Keys
           /\ FetchOK(fetches[f], now) /\ fetches[f] # NoFetch
           /\ StageOK(StageOf(f)) /\ StageOf(f) = Stage(fetches[f].key, fetches[f].stage)
           /\ fetches[f].stage \in DOMAIN Plans[fetches[f].key].stages
           /\ q # "own" => q \in SourcesOf(fetches[f].key)
  <1>1. fetches[f].at = "work" /\ q \in fetches[f].left /\ fetches[f] \in FetchType \cup {NoFetch}
    BY ReadFacts DEF Owes, Typed
  <1>2. fetches[f] \in FetchType /\ fetches[f] # NoFetch /\ FetchOK(fetches[f], now)
    BY <1>1, NoFetchFields, ReadFacts
  <1>3. fetches[f].key \in Keys
    BY <1>2 DEF FetchType
  <1>4. /\ fetches[f].stage \in DOMAIN Plans[fetches[f].key].stages
        /\ fetches[f].left \subseteq Pieces(Stage(fetches[f].key, fetches[f].stage))
    BY <1>1, ReadFacts DEF Linked, TiesOK
  <1>5. StageOf(f) = Stage(fetches[f].key, fetches[f].stage)
    BY DEF StageOf
  <1>6. StageOK(StageOf(f))
    BY <1>3, <1>4, <1>5, PlanFacts DEF PlanOK
  <1>7. q # "own" => q \in ReadBy(StageOf(f))
    BY <1>1, <1>4, <1>5 DEF Pieces
  <1>8. ReadBy(StageOf(f)) \subseteq SourcesOf(fetches[f].key)
    BY <1>4, <1>5 DEF SourcesOf
  <1> QED BY <1>1, <1>2, <1>3, <1>4, <1>5, <1>6, <1>7, <1>8

\* A fetch without a piece of its stage, with what has come
LEMMA LessIs ==
    ASSUME NEW f \in Fetches, NEW q, Owes(f, q), fetches[f] \in FetchType, NEW whole \in BOOLEAN, NEW asOf \in Int,
           NEW x, x = [Less(f, q) EXCEPT !.whole = whole, !.asOf = asOf], NEW t, FetchOK(fetches[f], t),
           AsOfOK(fetches[f].key, asOf, fetches[f].began), whole \/ MayLack(fetches[f].key)
    PROVE  Shrinks(fetches[f], q, x) /\ FetchOK(x, t) /\ x \in FetchType /\ x.at = "work"
  <1>1. PICK r : r = fetches[f]
    OBVIOUS
  <1>2. r \in FetchType /\ r.at = "work" /\ q \in r.left /\ r # NoFetch
    BY <1>1, NoFetchFields DEF Owes
  <1>3. PICK y : y = [r EXCEPT !.left = r.left \ {q}]
    OBVIOUS
  <1>4. x = [y EXCEPT !.whole = whole, !.asOf = asOf]
    BY <1>1, <1>3 DEF Less
  <1>5. /\ y.key = r.key /\ y.at = "work" /\ y.stage = r.stage /\ y.began = r.began /\ y.left = r.left \ {q}
        /\ y.done = r.done
    BY <1>2, <1>3 DEF FetchType
  <1>6. y \in FetchType
    BY <1>2, <1>3 DEF FetchType
  <1>7. /\ x.key = r.key /\ x.at = "work" /\ x.stage = r.stage /\ x.began = r.began /\ x.left = r.left \ {q}
        /\ x.done = r.done /\ x.asOf = asOf
    BY <1>4, <1>5, <1>6 DEF FetchType
  <1>8. x \in FetchType
    BY <1>4, <1>6 DEF FetchType
  <1>9. x.whole \/ MayLack(r.key)
    <2>1. x.whole = whole
      BY <1>4, <1>6 DEF FetchType
    <2> QED BY <1>1, <2>1
  <1>10. FetchOK(x, t)
    BY <1>1, <1>2, <1>7, <1>9 DEF FetchOK
  <1>11. Shrinks(r, q, x)
    BY <1>2, <1>7, <1>8 DEF Shrinks
  <1> QED BY <1>1, <1>7, <1>8, <1>10, <1>11

\* What is left of the proof for a fetch that gets on, or fails
Primed == ReadsAre(wire', readers', replies', fetches', flight', entries, now) /\ Busy(fetches')

Got(f, q, x) ==
    \E whole \in BOOLEAN, asOf \in Int :
        /\ x = [Less(f, q) EXCEPT !.whole = whole, !.asOf = asOf]
        /\ AsOfOK(fetches[f].key, asOf, fetches[f].began) /\ (whole \/ MayLack(fetches[f].key))

LEMMA GetsOn ==
    ASSUME ReadInv, NEW f \in Fetches, NEW q, Owes(f, q), NEW rest, Comes(f, q, replies, rest), NEW x, Got(f, q, x)
    PROVE  /\ \A last \in BOOLEAN : Advances(f, x, last, rest) => Primed
           /\ Fails(f, rest) => Primed
  <1>1. fetches[f] \in FetchType /\ FetchOK(fetches[f], now)
    BY OwesFacts
  <1>2. Shrinks(fetches[f], q, x) /\ FetchOK(x, now) /\ x \in FetchType /\ x.at = "work"
    <2>1. PICK whole \in BOOLEAN, asOf \in Int :
              /\ x = [Less(f, q) EXCEPT !.whole = whole, !.asOf = asOf]
              /\ AsOfOK(fetches[f].key, asOf, fetches[f].began) /\ (whole \/ MayLack(fetches[f].key))
      BY DEF Got
    <2> QED BY <1>1, <2>1, LessIs
  <1>3. PICK fs : fs = [fetches EXCEPT ![f] = x]
    OBVIOUS
  <1>4. ReadsAre(wire, readers, rest, fs, flight, entries, now)
    BY <1>2, <1>3, LessHolds, ReadFacts
  <1>5. now \in Nat /\ Typed(fetches) /\ Busy(fetches)
    BY ReadFacts
  <1>6. ASSUME NEW last \in BOOLEAN, Advances(f, x, last, rest) PROVE Primed
    BY <1>2, <1>3, <1>4, <1>5, <1>6, AdvancesHolds DEF Primed
  <1>7. ASSUME Fails(f, rest) PROVE Primed
    <2>1. x.key = fetches[f].key /\ x.began = fetches[f].began
      BY <1>2 DEF Shrinks
    <2> QED BY <1>1, <1>2, <1>3, <1>4, <1>5, <1>7, <2>1, FailsHolds DEF Primed
  <1> QED BY <1>6, <1>7

LEMMA LessFields ==
    ASSUME NEW f \in Fetches, NEW q, fetches[f] \in FetchType, NEW y, y = Less(f, q)
    PROVE  /\ y \in FetchType /\ y.whole = fetches[f].whole /\ y.asOf = fetches[f].asOf /\ y.asOf \in Int
           /\ y.whole \in BOOLEAN
  <1>1. PICK r : r = fetches[f]
    OBVIOUS
  <1>2. y = [r EXCEPT !.left = r.left \ {q}] /\ r \in FetchType
    BY <1>1 DEF Less
  <1>3. y \in FetchType
    BY <1>2 DEF FetchType
  <1>4. y.whole = r.whole
    BY <1>2 DEF FetchType
  <1>5. y.asOf = r.asOf
    BY <1>2 DEF FetchType
  <1>6. y.asOf \in Int /\ y.whole \in BOOLEAN
    BY <1>3 DEF FetchType
  <1> QED BY <1>1, <1>3, <1>4, <1>5, <1>6

LEMMA SameFetch ==
    ASSUME NEW r \in FetchType, NEW b \in BOOLEAN
    PROVE  [r EXCEPT !.whole = r.whole, !.asOf = r.asOf] = r /\ [r EXCEPT !.whole = b, !.asOf = r.asOf] = [r EXCEPT !.whole = b]
  BY DEF FetchType

\* The fetch itself completes its stage, or an error of it is taken.
LEMMA OwnGetsOn ==
    ASSUME ReadInv, Idle, NEW f \in Fetches, Owes(f, "own")
    PROVE  /\ \A last \in BOOLEAN : Advances(f, Less(f, "own"), last, {}) => Primed
           /\ StageOf(f).lenient => \A last \in BOOLEAN : Advances(f, [Less(f, "own") EXCEPT !.whole = FALSE], last, {}) => Primed
           /\ Fails(f, {}) => Primed
  <1>1. PICK y : y = Less(f, "own")
    OBVIOUS
  <1>2. PICK r : r = fetches[f]
    OBVIOUS
  <1>3. r \in FetchType /\ r.key \in Keys /\ FetchOK(r, now) /\ r # NoFetch
    BY <1>2, OwesFacts
  <1>4. y \in FetchType /\ y.asOf = r.asOf /\ y.asOf \in Int /\ y.whole \in BOOLEAN
    BY <1>1, <1>2, <1>3, LessFields
  <1>5. y.whole \/ MayLack(r.key)
    <2>1. y.whole = r.whole
      BY <1>1, <1>2, <1>3, LessFields
    <2> QED BY <1>3, <2>1 DEF FetchOK
  <1>6. AsOfOK(r.key, y.asOf, r.began)
    BY <1>3, <1>4 DEF FetchOK
  <1>7. Comes(f, "own", replies, {})
    BY DEF Comes, Idle
  <1>8. y = [y EXCEPT !.whole = y.whole, !.asOf = y.asOf]
    BY <1>4, SameFetch
  <1>9. (\A last \in BOOLEAN : Advances(f, y, last, {}) => Primed) /\ (Fails(f, {}) => Primed)
    <2>1. PICK whole \in BOOLEAN : whole = y.whole
      BY <1>4
    <2>2. y = [Less(f, "own") EXCEPT !.whole = whole, !.asOf = y.asOf]
      BY <1>1, <1>8, <2>1
    <2>3. whole \/ MayLack(fetches[f].key)
      BY <1>2, <1>5, <2>1
    <2>4. AsOfOK(fetches[f].key, y.asOf, fetches[f].began)
      BY <1>2, <1>6
    <2>5. Got(f, "own", y)
      BY <1>4, <2>2, <2>3, <2>4 DEF Got
    <2> QED BY <1>7, <2>5, GetsOn
  <1>10. ASSUME StageOf(f).lenient, NEW last \in BOOLEAN, Advances(f, [y EXCEPT !.whole = FALSE], last, {}) PROVE Primed
    <2>1. PICK x : x = [y EXCEPT !.whole = FALSE]
      OBVIOUS
    <2>2. PICK whole \in BOOLEAN : whole = FALSE
      OBVIOUS
    <2>3. x = [Less(f, "own") EXCEPT !.whole = whole, !.asOf = y.asOf]
      <3>1. [y EXCEPT !.whole = FALSE, !.asOf = y.asOf] = [y EXCEPT !.whole = FALSE]
        BY <1>4, SameFetch
      <3> QED BY <1>1, <2>1, <2>2, <3>1
    <2>4. MayLack(fetches[f].key)
      <3>1. fetches[f].stage \in DOMAIN Plans[fetches[f].key].stages /\ StageOf(f) = Stage(fetches[f].key, fetches[f].stage)
        BY OwesFacts
      <3> QED BY <1>10, <3>1 DEF MayLack, Lenience
    <2>5. AsOfOK(fetches[f].key, y.asOf, fetches[f].began) /\ (whole \/ MayLack(fetches[f].key))
      BY <1>2, <1>6, <2>4
    <2>6. Advances(f, x, last, {})
      BY <1>10, <2>1
    <2>7. Got(f, "own", x)
      BY <1>4, <2>3, <2>5 DEF Got
    <2> QED BY <1>7, <1>10, <2>6, <2>7, GetsOn
  <1> QED BY <1>1, <1>9, <1>10

LEMMA OwnAnswersKeeps ==
    ASSUME ReadInv, NEW f \in Fetches, OwnAnswers(f)
    PROVE  ReadInv'
  <1>1. Idle /\ Owes(f, "own") /\ Advances(f, Less(f, "own"), StageOf(f).enough, {}) /\ UNCHANGED <<readBounds, now, entries>>
    BY DEF OwnAnswers
  <1>2. StageOf(f).enough \in BOOLEAN
    BY <1>1, OwesFacts DEF StageOK
  <1>3. Primed
    BY <1>1, <1>2, OwnGetsOn
  <1>4. BoundsOK'
    BY <1>1, BoundsAfter DEF ReadInv
  <1> QED BY <1>1, <1>3, <1>4 DEF ReadInv, Primed

LEMMA OwnFailsKeeps ==
    ASSUME ReadInv, NEW f \in Fetches, OwnFails(f)
    PROVE  ReadInv'
  <1>1. Idle /\ Owes(f, "own") /\ Mishap /\ UNCHANGED <<now, entries>>
    BY DEF OwnFails
  <1>2. \/ StageOf(f).lenient /\ Advances(f, [Less(f, "own") EXCEPT !.whole = FALSE], FALSE, {})
        \/ Advances(f, Less(f, "own"), FALSE, {})
        \/ Fails(f, {})
    BY DEF OwnFails
  <1>3. Primed
    <2>1. FALSE \in BOOLEAN
      OBVIOUS
    <2> QED BY <1>1, <1>2, <2>1, OwnGetsOn
  <1>4. BoundsOK'
    BY <1>1, BoundsAfter DEF ReadInv
  <1> QED BY <1>1, <1>3, <1>4 DEF ReadInv, Primed

\* A result that a fetch awaits: that of a leaf
LEMMA ResultFacts ==
    ASSUME ReadInv, NEW p \in replies, NEW f \in Fetches, p.to = f, Owes(f, p.key)
    PROVE  /\ p.key \in SourcesOf(fetches[f].key) /\ p.asOf \in Int /\ p.whole \in BOOLEAN
           /\ Comes(f, p.key, replies, replies \ {p})
           /\ p.ok => AsOfOK(fetches[f].key, p.asOf, fetches[f].began) /\ (p.whole \/ MayLack(fetches[f].key))
  <1>1. p \in ReplyType /\ ReplyOK(p, now)
    BY ReadFacts, LinkedTypes DEF ReadsAre
  <1>2. p.asOf \in Int /\ p.whole \in BOOLEAN /\ p.key \in Readable
    BY <1>1 DEF ReplyType
  <1>3. p.key # "own"
    BY <1>2, KeyFacts
  <1>4. PICK r : r = fetches[f]
    OBVIOUS
  <1>5. p.key \in SourcesOf(r.key) /\ r.key \in Keys /\ r \in FetchType /\ FetchOK(r, now) /\ r # NoFetch
    BY <1>3, <1>4, OwesFacts
  <1>6. Leaf(p.key)
    BY <1>5, PlanFacts
  <1>7. Comes(f, p.key, replies, replies \ {p})
    BY DEF Comes
  <1>8. ASSUME p.ok PROVE AsOfOK(r.key, p.asOf, r.began) /\ (p.whole \/ MayLack(r.key))
    <2>1. PICK j \in Makers(p.key) : Within(now - p.asOf, j) /\ (p.whole \/ MayLack(j) \/ Plans[j].error = "answer")
      BY <1>1, <1>8 DEF ReplyOK
    <2>2. j = p.key
      BY <1>6 DEF Leaf
    <2>3. Within(now - p.asOf, p.key)
      BY <2>1, <2>2
    <2>4. r.began \in Nat /\ r.began <= now /\ now \in Nat
      BY <1>5, ReadFacts DEF FetchOK, FetchType
    <2>5. AsOfOK(r.key, p.asOf, r.began)
      BY <1>2, <1>5, <2>3, <2>4, ReadAge
    <2>6. p.whole \/ MayLack(p.key)
      <3>1. Plans[j].error = "throw"
        BY <1>6, <2>2 DEF Leaf
      <3> QED BY <2>1, <2>2, <3>1
    <2>7. MayLack(p.key) => MayLack(r.key)
      BY <1>5, <1>6 DEF Leaf, MayLack
    <2> QED BY <2>5, <2>6, <2>7
  <1> QED BY <1>2, <1>4, <1>5, <1>7, <1>8

LEMMA DeliverKeeps ==
    ASSUME ReadInv, NEW p \in replies, Deliver(p)
    PROVE  ReadInv'
  <1>1. UNCHANGED <<readBounds, now, entries>>
    BY DEF Deliver
  <1>2. PICK rest : rest = replies \ {p}
    OBVIOUS
  <1>3. PICK f : f = p.to
    OBVIOUS
  <1>4. \/ /\ (IF f \in Users THEN TRUE ELSE ~Owes(f, p.key))
           /\ replies' = rest /\ UNCHANGED <<wire, flight, fetches, readers>>
        \/ /\ f \in Fetches /\ Owes(f, p.key)
           /\ \/ p.ok /\ Advances(f, [Less(f, p.key) EXCEPT !.whole = @ /\ p.whole, !.asOf = Min({@, p.asOf})], FALSE, rest)
              \/ ~p.ok /\ StageOf(f).lenient /\ Advances(f, [Less(f, p.key) EXCEPT !.whole = FALSE], FALSE, rest)
              \/ ~p.ok /\ ~StageOf(f).lenient /\ Fails(f, rest)
    BY <1>2, <1>3 DEF Deliver
  <1>5. CASE /\ (IF f \in Users THEN TRUE ELSE ~Owes(f, p.key))
             /\ replies' = rest /\ UNCHANGED <<wire, flight, fetches, readers>>
    <2>1. ASSUME NEW g \in Fetches, p.to = g PROVE ~(fetches[g].at = "work" /\ p.key \in fetches[g].left)
      <3>1. g \notin Users /\ g = f
        BY <1>3, <2>1, FetchFacts
      <3> QED BY <1>5, <3>1 DEF Owes
    <2>2. Linked(wire, readers, rest, fetches)
      BY <1>2, <2>1, DropLinked, ReadFacts
    <2>3. Primed
      BY <1>2, <1>5, <2>2, ReadFacts DEF Primed, ReadsAre
    <2> QED BY <1>1, <2>3, BoundsAfter DEF ReadInv, Primed
  <1>6. ASSUME f \in Fetches, Owes(f, p.key),
               \/ p.ok /\ Advances(f, [Less(f, p.key) EXCEPT !.whole = @ /\ p.whole, !.asOf = Min({@, p.asOf})], FALSE, rest)
               \/ ~p.ok /\ StageOf(f).lenient /\ Advances(f, [Less(f, p.key) EXCEPT !.whole = FALSE], FALSE, rest)
               \/ ~p.ok /\ ~StageOf(f).lenient /\ Fails(f, rest)
        PROVE  ReadInv'
    <2>1. /\ p.asOf \in Int /\ p.whole \in BOOLEAN /\ Comes(f, p.key, replies, rest)
          /\ p.ok => AsOfOK(fetches[f].key, p.asOf, fetches[f].began) /\ (p.whole \/ MayLack(fetches[f].key))
      BY <1>2, <1>3, <1>6, ResultFacts
    <2>2. PICK y : y = Less(f, p.key)
      OBVIOUS
    <2>3. PICK r : r = fetches[f]
      OBVIOUS
    <2>4. r \in FetchType /\ r.key \in Keys /\ FetchOK(r, now) /\ r # NoFetch
      BY <1>6, <2>3, OwesFacts
    <2>5. y \in FetchType /\ y.asOf = r.asOf /\ y.asOf \in Int /\ y.whole \in BOOLEAN
      BY <1>6, <2>2, <2>3, <2>4, LessFields
    <2>6. y.whole \/ MayLack(r.key)
      <3>1. y.whole = r.whole
        BY <1>6, <2>2, <2>3, <2>4, LessFields
      <3> QED BY <2>4, <3>1 DEF FetchOK
    <2>7. AsOfOK(r.key, y.asOf, r.began)
      BY <2>4, <2>5 DEF FetchOK
    <2>8. \A x, last : Got(f, p.key, x) /\ last \in BOOLEAN /\ Advances(f, x, last, rest) => Primed
      BY <1>6, <2>1, GetsOn
    <2>9. CASE p.ok /\ Advances(f, [Less(f, p.key) EXCEPT !.whole = @ /\ p.whole, !.asOf = Min({@, p.asOf})], FALSE, rest)
      <3>1. PICK whole \in BOOLEAN : whole = (y.whole /\ p.whole)
        OBVIOUS
      <3>2. PICK asOf : asOf = Min({y.asOf, p.asOf})
        OBVIOUS
      <3>3. asOf \in {y.asOf, p.asOf}
        BY <2>1, <2>5, <3>2, LesserOf
      <3>4. asOf \in Int /\ AsOfOK(r.key, asOf, r.began)
        BY <2>1, <2>3, <2>5, <2>7, <2>9, <3>3
      <3>5. whole \/ MayLack(r.key)
        BY <2>1, <2>3, <2>6, <2>9, <3>1
      <3>6. PICK x : x = [y EXCEPT !.whole = whole, !.asOf = asOf]
        OBVIOUS
      <3>7. Got(f, p.key, x)
        BY <2>2, <2>3, <3>4, <3>5, <3>6 DEF Got
      <3>8. Advances(f, x, FALSE, rest)
        <4>1. x = [y EXCEPT !.whole = y.whole /\ p.whole, !.asOf = Min({y.asOf, p.asOf})]
          BY <3>1, <3>2, <3>6
        <4> QED BY <2>2, <2>9, <4>1
      <3> QED BY <1>1, <2>8, <3>7, <3>8, BoundsAfter DEF ReadInv, Primed
    <2>10. CASE StageOf(f).lenient /\ Advances(f, [Less(f, p.key) EXCEPT !.whole = FALSE], FALSE, rest)
      <3>1. PICK x : x = [y EXCEPT !.whole = FALSE]
        OBVIOUS
      <3>2. PICK whole \in BOOLEAN : whole = FALSE
        OBVIOUS
      <3>3. x = [Less(f, p.key) EXCEPT !.whole = whole, !.asOf = y.asOf]
        <4>1. [y EXCEPT !.whole = FALSE, !.asOf = y.asOf] = [y EXCEPT !.whole = FALSE]
          BY <2>5, SameFetch
        <4> QED BY <2>2, <3>1, <3>2, <4>1
      <3>4. MayLack(fetches[f].key)
        <4>1. fetches[f].stage \in DOMAIN Plans[fetches[f].key].stages /\ StageOf(f) = Stage(fetches[f].key, fetches[f].stage)
          BY <1>6, OwesFacts
        <4> QED BY <2>10, <4>1 DEF MayLack, Lenience
      <3>5. Got(f, p.key, x)
        BY <2>3, <2>5, <2>7, <3>3, <3>4 DEF Got
      <3>6. Advances(f, x, FALSE, rest)
        BY <2>2, <2>10, <3>1
      <3> QED BY <1>1, <2>8, <3>5, <3>6, BoundsAfter DEF ReadInv, Primed
    <2>11. CASE Fails(f, rest)
      <3>1. PICK whole \in BOOLEAN : whole = y.whole
        BY <2>5
      <3>2. PICK x : x = [Less(f, p.key) EXCEPT !.whole = whole, !.asOf = y.asOf]
        OBVIOUS
      <3>3. Got(f, p.key, x)
        BY <2>3, <2>5, <2>6, <2>7, <3>1, <3>2 DEF Got
      <3>4. Primed
        BY <1>6, <2>1, <2>11, <3>3, GetsOn
      <3> QED BY <1>1, <3>4, BoundsAfter DEF ReadInv, Primed
    <2> QED BY <1>6, <2>9, <2>10, <2>11
  <1> QED BY <1>4, <1>5, <1>6

-----------------------------------------------------------------------------
(* Reads: the steps of Redis and of the callers.                             *)

\* A fetch begins: its times, and what the map and the entries have.
LEMMA StartsTimes ==
    ASSUME ReadInv, NEW f \in Fetches, NEW k \in Keys, NEW by \in Nat, NEW queue, NEW rs, Starts(f, k, by, queue, rs),
           NEW x, x = Begun(k, now, by)
    PROVE  /\ fetches' = [fetches EXCEPT ![f] = x] /\ wire' = queue \o Gets(f, Stage(k, 1))
           /\ readers' = rs \cup Asking(f, Stage(k, 1)) /\ flight' = InMap(flight, k, f)
           /\ Busy(fetches') /\ (\A g \in Fetches : FetchOK(fetches'[g], now)) /\ LaterOK(entries, fetches')
           /\ fetches'[f] = x /\ x.key = k /\ Begins(x, k)
  <1>1. now \in Nat /\ Typed(fetches) /\ Busy(fetches)
    BY ReadFacts
  <1>2. /\ fetches' = [fetches EXCEPT ![f] = x] /\ wire' = queue \o Gets(f, Stage(k, 1))
        /\ readers' = rs \cup Asking(f, Stage(k, 1)) /\ flight' = InMap(flight, k, f)
    BY DEF Starts, Begun, InMap
  <1>3. x \in FetchType /\ x.key = k /\ x.asOf = now /\ x.began = now /\ x.done = 0
    BY <1>1, BegunFields
  <1>4. x.whole
    BY DEF Begun
  <1>5. fetches'[f] = x /\ \A g \in Fetches : g # f => fetches'[g] = fetches[g]
    BY <1>1, <1>2 DEF Typed
  <1>6. Begins(x, k)
    BY <1>1 DEF Begins
  <1>7. FetchOK(x, now)
    BY <1>1, <1>3, <1>4, FetchFacts DEF FetchOK, AsOfOK
  <1>8. \A g \in Fetches : FetchOK(fetches'[g], now)
    BY <1>5, <1>7, ReadFacts
  <1>9. LaterOK(entries, fetches')
    <2>1. \A j \in Keys : entries[j].fetched <= now
      BY ReadFacts DEF ReadsAre, EntriesKept
    <2>2. LaterOK(entries, fetches)
      BY ReadFacts DEF ReadsAre
    <2> QED BY <1>3, <1>5, <2>1, <2>2 DEF LaterOK
  <1>10. Busy(fetches')
    BY <1>1, <1>2, <1>6, StartsBusy DEF Typed
  <1> QED BY <1>2, <1>3, <1>5, <1>6, <1>8, <1>9, <1>10

LEMMA StartsHolds ==
    ASSUME ReadInv, NEW f \in Fetches, fetches[f] = NoFetch, NEW k \in Keys, Shared(k) => flight[k] = 0,
           NEW by \in Nat, NEW queue, NEW rs, Starts(f, k, by, queue, rs),
           NEW ps, \A p \in ps : p.to # f, \A r \in rs : r.by # f, NEW x, x = Begun(k, now, by), Linked(queue, rs, ps, fetches)
    PROVE  /\ Linked(wire', readers', ps, fetches') /\ FlightOK(flight', fetches') /\ Busy(fetches')
           /\ (\A g \in Fetches : FetchOK(fetches'[g], now)) /\ LaterOK(entries, fetches')
  <1>1. /\ fetches' = [fetches EXCEPT ![f] = x] /\ wire' = queue \o Gets(f, Stage(k, 1))
        /\ readers' = rs \cup Asking(f, Stage(k, 1)) /\ flight' = InMap(flight, k, f) /\ Begins(x, k)
    BY StartsTimes
  <1>2. Busy(fetches') /\ (\A g \in Fetches : FetchOK(fetches'[g], now)) /\ LaterOK(entries, fetches')
    BY StartsTimes
  <1>3. FlightOK(flight, fetches) /\ CanStart(f, k, rs, ps, fetches, flight)
    BY ReadFacts DEF ReadsAre, CanStart
  <1>4. /\ Linked(queue \o Gets(f, Stage(k, 1)), rs \cup Asking(f, Stage(k, 1)), ps, fetches')
        /\ FlightOK(flight', fetches')
    BY <1>1, <1>3, StartsLinked
  <1> QED BY <1>1, <1>2, <1>4

LEMMA RefetchKeeps ==
    ASSUME ReadInv, NEW k \in readScene.auto, Refresh(k)
    PROVE  ReadInv'
  <1>1. /\ Idle /\ Asks /\ flight[k] = 0 /\ Starts(Unused, k, 0, wire, readers) /\ AllUnused # {}
        /\ UNCHANGED <<now, entries, replies>>
    BY DEF Refresh, Starts
  <1>2. k \in Keys
    BY ReadAssumption, KeyFacts DEF ReadAssumption, ReadInv, BoundsOK
  <1>3. PICK f : f = Unused
    OBVIOUS
  <1>4. f \in Fetches /\ fetches[f] = NoFetch /\ \A r \in readers : r.by # f
    BY <1>1, <1>3, UnusedIs
  <1>5. PICK x : x = Begun(k, now, 0)
    OBVIOUS
  <1>6. replies = {} /\ Linked(wire, readers, replies, fetches) /\ Starts(f, k, 0, wire, readers)
    BY <1>1, <1>3, ReadFacts DEF Idle
  <1>7. /\ Linked(wire', readers', replies, fetches') /\ FlightOK(flight', fetches') /\ Busy(fetches')
        /\ (\A g \in Fetches : FetchOK(fetches'[g], now)) /\ LaterOK(entries, fetches')
    <2>1. 0 \in Nat /\ \A p \in replies : p.to # f
      BY <1>6
    <2> QED BY <1>1, <1>2, <1>4, <1>5, <1>6, <2>1, StartsHolds
  <1>8. EntriesKept(entries, now)
    BY ReadFacts DEF ReadsAre
  <1>9. BoundsOK'
    BY <1>1, BoundsAfter DEF ReadInv
  <1> QED BY <1>1, <1>6, <1>7, <1>8, <1>9 DEF ReadInv, ReadsAre

LEMMA ReadAskKeeps ==
    ASSUME ReadInv, NEW u \in Users, NEW k \in readScene.asks, ReadAsk(u, k)
    PROVE  ReadInv'
  <1>1. /\ Idle /\ Asks /\ \A r \in readers : r.by # u
        /\ readers' = readers \cup {Wants(u, k, 0)} /\ wire' = Append(wire, GetOf(u, k))
        /\ UNCHANGED <<now, entries, flight, fetches, replies>>
    BY DEF ReadAsk, Wants, GetOf
  <1>2. k \in Readable
    BY ReadAssumption DEF ReadAssumption, ReadInv, BoundsOK
  <1>3. Linked(wire', readers', replies', fetches')
    <2>1. Linked(wire, readers, replies, fetches) /\ \A p \in replies : p.to # u
      BY <1>1, ReadFacts DEF Idle
    <2> QED BY <1>1, <1>2, <2>1, AskLinked
  <1>4. BoundsOK'
    BY <1>1, BoundsAfter DEF ReadInv
  <1> QED BY <1>1, <1>3, <1>4 DEF ReadInv, ReadsAre

\* What Redis answers a reader
LEMMA SeesFacts ==
    ASSUME ReadInv, NEW e, Sees(e), NEW c, c = Head(wire), NEW a, a = Asker(c)
    PROVE  /\ replies = {} /\ wire # <<>> /\ Head(wire).op = "get" /\ BoundsOK' /\ UNCHANGED <<now, entries>>
           /\ a = Wants(c.by, c.key, 0) /\ a \in readers /\ a.by = c.by /\ a.key = c.key /\ a.on = 0
           /\ c.by \in Callers /\ c.key \in Readable /\ c.key \in Keys
           /\ e # Nothing => e = entries[c.key]
  <1>1. /\ replies = {} /\ wire # <<>> /\ Head(wire).op = "get" /\ UNCHANGED <<now, entries>>
        /\ (UNCHANGED readBounds \/ Mishap) /\ (e # Nothing => e = entries[c.key])
    BY DEF Sees, Idle
  <1>2. Linked(wire, readers, replies, fetches)
    BY ReadFacts
  <1>3. /\ Wants(c.by, c.key, 0) \in readers /\ Wants(c.by, c.key, 0).by = c.by /\ Wants(c.by, c.key, 0).key = c.key
        /\ Wants(c.by, c.key, 0).on = 0 /\ c.by \in Callers /\ c.key \in Readable
        /\ \A r \in readers : r.by = c.by /\ r.key = c.key => r = Wants(c.by, c.key, 0)
    BY <1>1, <1>2, HeadReader
  <1>4. a = Wants(c.by, c.key, 0)
    BY <1>3 DEF Asker
  <1>5. BoundsOK'
    BY <1>1, BoundsAfter DEF ReadInv
  <1> QED BY <1>1, <1>3, <1>4, <1>5, KeyFacts

LEMMA EntryAnswers ==
    ASSUME ReadInv, NEW k \in Readable, entries[k] # Nothing, NEW a, a.by \in Callers, a.key = k
    PROVE  \E p : /\ Told({a}, TRUE, entries[k]) = {p} /\ p \in ReplyType /\ p.to = a.by /\ p.key = k
                  /\ ReplyOK(p, now)
  <1>1. PICK e : e = entries[k]
    OBVIOUS
  <1>2. PICK p : p = [to |-> a.by, key |-> k, ok |-> TRUE, whole |-> e.whole, asOf |-> e.asOf]
    OBVIOUS
  <1>3. e \in KeptType /\ KeptOK(k, e, now) /\ k \in Keys /\ now \in Nat
    BY <1>1, KeyFacts, ReadFacts DEF ReadsAre, EntriesKept
  <1>4. e.asOf \in Int /\ e.whole \in BOOLEAN /\ e.until \in Nat
    BY <1>3 DEF KeptType
  <1>5. Told({a}, TRUE, e) = {p}
    BY <1>2 DEF Told
  <1>6. p.to = a.by /\ p.key = k /\ p.asOf = e.asOf
    BY <1>2
  <1>7. p \in ReplyType
    BY <1>2, <1>4 DEF ReplyType
  <1>8. PICK j \in Makers(k) : AsOfOK(j, e.asOf, e.until - Plans[j].ttl - Lag) /\ (e.whole \/ MayLack(j))
    BY <1>1, <1>3 DEF KeptOK
  <1>9. now < e.until /\ j \in Keys
    BY <1>1, <1>3 DEF KeptOK, Makers
  <1>10. Within(now - p.asOf, j)
    BY <1>3, <1>4, <1>6, <1>8, <1>9, KeptAge
  <1>11. p.whole \/ MayLack(j)
    <2>1. p.whole = e.whole
      BY <1>2
    <2> QED BY <1>8, <2>1
  <1>12. ReplyOK(p, now)
    BY <1>6, <1>10, <1>11 DEF ReplyOK
  <1> QED BY <1>1, <1>5, <1>6, <1>7, <1>12

LEMMA HitKeeps ==
    ASSUME ReadInv, NEW e, Hit(e)
    PROVE  ReadInv'
  <1>1. PICK c : c = Head(wire)
    OBVIOUS
  <1>2. PICK a : a = Asker(c)
    OBVIOUS
  <1>3. /\ Sees(e) /\ e # Nothing /\ replies' = Told({a}, TRUE, e) /\ readers' = readers \ {a} /\ wire' = Tail(wire)
        /\ UNCHANGED <<flight, fetches>>
    BY <1>1, <1>2 DEF Hit
  <1>4. /\ replies = {} /\ wire # <<>> /\ Head(wire).op = "get" /\ BoundsOK' /\ UNCHANGED <<now, entries>>
        /\ a = Wants(c.by, c.key, 0) /\ a.by = c.by /\ a.key = c.key /\ c.by \in Callers /\ c.key \in Readable
        /\ e = entries[c.key]
    BY <1>1, <1>2, <1>3, SeesFacts
  <1>5. PICK p : /\ Told({a}, TRUE, e) = {p} /\ p \in ReplyType /\ p.to = c.by /\ p.key = c.key /\ ReplyOK(p, now)
    <2>1. \E p : /\ Told({a}, TRUE, entries[c.key]) = {p} /\ p \in ReplyType /\ p.to = a.by /\ p.key = c.key
                 /\ ReplyOK(p, now)
      <3>1. entries[c.key] # Nothing /\ a.by \in Callers
        BY <1>3, <1>4
      <3> QED BY <1>4, <3>1, EntryAnswers
    <2> QED BY <1>4, <2>1
  <1>6. Linked(wire', readers', replies', fetches')
    <2>1. Linked(Tail(wire), readers \ {Wants(Head(wire).by, Head(wire).key, 0)}, replies \cup {p}, fetches)
      BY <1>1, <1>4, <1>5, HeadAnswered, ReadFacts
    <2>2. replies \cup {p} = replies'
      BY <1>3, <1>4, <1>5
    <2> QED BY <1>1, <1>3, <1>4, <2>1, <2>2
  <1>7. \A q \in replies' : ReplyOK(q, now)
    BY <1>3, <1>5
  <1>8. now' = now /\ entries' = entries /\ flight' = flight /\ fetches' = fetches
    BY <1>3, <1>4
  <1> QED BY <1>4, <1>6, <1>7, <1>8 DEF ReadInv, ReadsAre

LEMMA HitOldKeeps ==
    ASSUME ReadInv, NEW e, HitOld(e)
    PROVE  ReadInv'
  <1>1. PICK c : c = Head(wire)
    OBVIOUS
  <1>2. PICK a : a = Asker(c)
    OBVIOUS
  <1>3. PICK f : f = Unused
    OBVIOUS
  <1>4. /\ Sees(e) /\ e # Nothing /\ replies' = Told({a}, TRUE, e) /\ flight[c.key] = 0
        /\ Starts(f, c.key, 0, Tail(wire), readers \ {a}) /\ AllUnused # {}
    BY <1>1, <1>2, <1>3 DEF HitOld, Starts
  <1>5. /\ replies = {} /\ wire # <<>> /\ Head(wire).op = "get" /\ BoundsOK' /\ UNCHANGED <<now, entries>>
        /\ a = Wants(c.by, c.key, 0) /\ a \in readers /\ a.by = c.by /\ a.key = c.key /\ c.by \in Callers /\ c.key \in Readable
        /\ e = entries[c.key] /\ c.key \in Keys
    BY <1>1, <1>2, <1>4, SeesFacts
  <1>6. f \in Fetches /\ fetches[f] = NoFetch /\ \A r \in readers : r.by # f
    BY <1>3, <1>4, UnusedIs
  <1>7. PICK p : /\ Told({a}, TRUE, e) = {p} /\ p \in ReplyType /\ p.to = c.by /\ p.key = c.key /\ ReplyOK(p, now)
    <2>1. \E p : /\ Told({a}, TRUE, entries[c.key]) = {p} /\ p \in ReplyType /\ p.to = a.by /\ p.key = c.key
                 /\ ReplyOK(p, now)
      <3>1. entries[c.key] # Nothing /\ a.by \in Callers
        BY <1>4, <1>5
      <3> QED BY <1>5, <3>1, EntryAnswers
    <2> QED BY <1>5, <2>1
  <1>8. Linked(Tail(wire), readers \ {a}, replies', fetches)
    <2>1. Linked(Tail(wire), readers \ {Wants(Head(wire).by, Head(wire).key, 0)}, replies \cup {p}, fetches)
      BY <1>1, <1>5, <1>7, HeadAnswered, ReadFacts
    <2>2. replies \cup {p} = replies'
      BY <1>4, <1>5, <1>7
    <2> QED BY <1>1, <1>5, <2>1, <2>2
  <1>9. PICK x : x = Begun(c.key, now, 0)
    OBVIOUS
  <1>10. /\ Linked(wire', readers', replies', fetches') /\ FlightOK(flight', fetches') /\ Busy(fetches')
         /\ (\A g \in Fetches : FetchOK(fetches'[g], now)) /\ LaterOK(entries, fetches')
    <2>1. 0 \in Nat /\ (\A q \in replies' : q.to # f) /\ \A r \in readers \ {a} : r.by # f
      BY <1>4, <1>5, <1>6, <1>7
    <2>2. PICK queue, rs, ps, k : queue = Tail(wire) /\ rs = readers \ {a} /\ ps = replies' /\ k = c.key
      OBVIOUS
    <2>3. /\ k \in Keys /\ flight[k] = 0 /\ Starts(f, k, 0, queue, rs) /\ Linked(queue, rs, ps, fetches)
          /\ (\A q \in ps : q.to # f) /\ (\A r \in rs : r.by # f) /\ x = Begun(k, now, 0)
      BY <1>4, <1>5, <1>8, <1>9, <2>1, <2>2
    <2>4. /\ Linked(wire', readers', ps, fetches') /\ FlightOK(flight', fetches') /\ Busy(fetches')
          /\ (\A g \in Fetches : FetchOK(fetches'[g], now)) /\ LaterOK(entries, fetches')
      BY <1>6, <2>1, <2>3, StartsHolds
    <2> QED BY <2>2, <2>4
  <1>11. \A q \in replies' : ReplyOK(q, now)
    BY <1>4, <1>7
  <1>12. EntriesKept(entries, now)
    BY ReadFacts DEF ReadsAre
  <1> QED BY <1>5, <1>10, <1>11, <1>12 DEF ReadInv, ReadsAre

LEMMA JoinKeeps ==
    ASSUME ReadInv, NEW e, Join(e)
    PROVE  ReadInv'
  <1>1. PICK c : c = Head(wire)
    OBVIOUS
  <1>2. PICK a : a = Asker(c)
    OBVIOUS
  <1>3. PICK g : g = flight[c.key]
    OBVIOUS
  <1>4. /\ Sees(e) /\ Shared(c.key) /\ g # 0 /\ readers' = (readers \ {a}) \cup {[a EXCEPT !.on = g]}
        /\ wire' = Tail(wire) /\ UNCHANGED <<flight, fetches, replies>>
    BY <1>1, <1>2, <1>3 DEF Join, Joins
  <1>5. /\ wire # <<>> /\ Head(wire).op = "get" /\ BoundsOK' /\ UNCHANGED <<now, entries>>
        /\ a = Wants(c.by, c.key, 0) /\ c.key \in Keys
    BY <1>1, <1>2, <1>4, SeesFacts
  <1>6. [a EXCEPT !.on = g] = Wants(c.by, c.key, g)
    BY <1>5 DEF Wants
  <1>7. g \in Fetches /\ fetches[g].key = c.key
    <2>1. FlightOK(flight, fetches)
      BY ReadFacts DEF ReadsAre
    <2> QED BY <1>3, <1>4, <1>5, <2>1, FetchFacts DEF FlightOK
  <1>8. Linked(wire', readers', replies', fetches')
    <2>1. Linked(Tail(wire), (readers \ {Wants(c.by, c.key, 0)}) \cup {Wants(c.by, c.key, g)}, replies, fetches)
      BY <1>1, <1>5, <1>7, HeadJoined, ReadFacts
    <2> QED BY <1>4, <1>5, <1>6, <2>1
  <1>9. now' = now /\ entries' = entries /\ flight' = flight /\ fetches' = fetches /\ replies' = replies
    BY <1>4, <1>5
  <1> QED BY <1>5, <1>8, <1>9 DEF ReadInv, ReadsAre

LEMMA TailOfBoth ==
    ASSUME NEW S, NEW w \in Seq(S), w # <<>>, NEW g \in Seq(S)
    PROVE  w \o g # <<>> /\ Head(w \o g) = Head(w) /\ Tail(w \o g) = Tail(w) \o g
  <1>1. Len(w) \in Nat \ {0} /\ Len(g) \in Nat /\ Len(w \o g) = Len(w) + Len(g)
    OBVIOUS
  <1>2. w \o g \in Seq(S) /\ w \o g # <<>> /\ Head(w \o g) = (w \o g)[1] /\ Head(w) = w[1] /\ (w \o g)[1] = w[1]
    BY <1>1
  <1>3. /\ Tail(w) \in Seq(S) /\ Len(Tail(w)) = Len(w) - 1
        /\ Tail(w \o g) \in Seq(S) /\ Len(Tail(w \o g)) = Len(w) + Len(g) - 1
    BY <1>1, <1>2
  <1>4. Tail(w) \o g \in Seq(S) /\ Len(Tail(w) \o g) = Len(w) - 1 + Len(g)
    BY <1>1, <1>3
  <1>5. \A i \in 1..(Len(w) + Len(g) - 1) : Tail(w \o g)[i] = (Tail(w) \o g)[i]
    <2> SUFFICES ASSUME NEW i \in 1..(Len(w) + Len(g) - 1)
                 PROVE  Tail(w \o g)[i] = (Tail(w) \o g)[i]
      OBVIOUS
    <2>1. Tail(w \o g)[i] = (w \o g)[i + 1]
      BY <1>1, <1>2
    <2>2. CASE i \in 1..(Len(w) - 1)
      <3>1. (w \o g)[i + 1] = w[i + 1]
        BY <1>1, <2>2
      <3>2. (Tail(w) \o g)[i] = Tail(w)[i]
        BY <1>3, <2>2
      <3> QED BY <1>1, <2>1, <2>2, <3>1, <3>2
    <2>3. CASE i \notin 1..(Len(w) - 1)
      <3>1. (w \o g)[i + 1] = g[i + 1 - Len(w)]
        BY <1>1, <2>3
      <3>2. (Tail(w) \o g)[i] = g[i - (Len(w) - 1)]
        BY <1>1, <1>3, <2>3
      <3>3. i + 1 - Len(w) = i - (Len(w) - 1)
        BY <1>1
      <3> QED BY <2>1, <3>1, <3>2, <3>3
    <2> QED BY <2>2, <2>3
  <1>6. Tail(w \o g) = Tail(w) \o g
    <2>1. \A a, b \in Seq(S) : Len(a) = Len(b) /\ (\A i \in 1..Len(a) : a[i] = b[i]) => a = b
      OBVIOUS
    <2> QED BY <1>1, <1>3, <1>4, <1>5, <2>1
  <1> QED BY <1>2, <1>6

LEMMA MissKeeps ==
    ASSUME ReadInv, NEW e, Miss(e)
    PROVE  ReadInv'
  <1>1. PICK c : c = Head(wire)
    OBVIOUS
  <1>2. PICK a : a = Asker(c)
    OBVIOUS
  <1>3. PICK f : f = Unused
    OBVIOUS
  <1>4. PICK rs : rs = (readers \ {a}) \cup {[a EXCEPT !.on = f]}
    OBVIOUS
  <1>5. /\ Sees(e) /\ ~(Shared(c.key) /\ flight[c.key] # 0) /\ Starts(f, c.key, c.by, Tail(wire), rs)
        /\ AllUnused # {} /\ replies' = replies
    BY <1>1, <1>2, <1>3, <1>4 DEF Miss, Joins, Starts
  <1>6. /\ replies = {} /\ wire # <<>> /\ Head(wire).op = "get" /\ BoundsOK' /\ UNCHANGED <<now, entries>>
        /\ a = Wants(c.by, c.key, 0) /\ a \in readers /\ a.by = c.by /\ c.by \in Callers /\ c.key \in Keys
    BY <1>1, <1>2, <1>5, SeesFacts
  <1>7. f \in Fetches /\ fetches[f] = NoFetch /\ \A r \in readers : r.by # f
    BY <1>3, <1>5, UnusedIs
  <1>8. [a EXCEPT !.on = f] = Wants(c.by, c.key, f)
    BY <1>6 DEF Wants
  <1>9. PICK k : k = c.key
    OBVIOUS
  <1>10. PICK s : s = Stage(k, 1)
    OBVIOUS
  <1>11. PICK x : x = Begun(k, now, c.by)
    OBVIOUS
  <1>12. c.by \in Nat /\ k \in Keys
    BY <1>6, <1>9, FetchFacts
  <1>13. /\ fetches' = [fetches EXCEPT ![f] = x] /\ wire' = Tail(wire) \o Gets(f, s)
         /\ readers' = rs \cup Asking(f, s) /\ flight' = InMap(flight, k, f) /\ Begins(x, k)
         /\ Busy(fetches') /\ (\A g \in Fetches : FetchOK(fetches'[g], now)) /\ LaterOK(entries, fetches')
         /\ fetches'[f] = x /\ x.key = k
    <2>1. PICK by, queue : by = c.by /\ queue = Tail(wire)
      OBVIOUS
    <2>2. Starts(f, k, by, queue, rs) /\ by \in Nat /\ x = Begun(k, now, by)
      BY <1>5, <1>9, <1>11, <1>12, <2>1
    <2>3. /\ fetches' = [fetches EXCEPT ![f] = x] /\ wire' = queue \o Gets(f, Stage(k, 1))
          /\ readers' = rs \cup Asking(f, Stage(k, 1)) /\ flight' = InMap(flight, k, f)
          /\ Busy(fetches') /\ (\A g \in Fetches : FetchOK(fetches'[g], now)) /\ LaterOK(entries, fetches')
          /\ fetches'[f] = x /\ x.key = k /\ Begins(x, k)
      BY <1>7, <1>12, <2>2, StartsTimes
    <2> QED BY <1>10, <2>1, <2>3
  <1>14. Linked(wire \o Gets(f, s), readers \cup Asking(f, s), replies, fetches') /\ FlightOK(flight', fetches')
    <2>1. CanStart(f, k, readers, replies, fetches, flight) /\ FlightOK(flight, fetches)
      BY <1>5, <1>6, <1>7, <1>9, ReadFacts DEF CanStart, ReadsAre
    <2>2. Linked(wire, readers, replies, fetches)
      BY ReadFacts
    <2>3. PICK fs1, fl1 : fs1 = fetches' /\ fl1 = flight'
      OBVIOUS
    <2>4. fs1 = [fetches EXCEPT ![f] = x] /\ fl1 = InMap(flight, k, f) /\ Begins(x, k)
      BY <1>13, <2>3
    <2>5. /\ Linked(wire \o Gets(f, Stage(k, 1)), readers \cup Asking(f, Stage(k, 1)), replies, fs1)
          /\ FlightOK(fl1, fs1)
      BY <1>7, <1>12, <2>1, <2>2, <2>4, StartsLinked
    <2> QED BY <1>10, <2>3, <2>5
  <1>15. /\ wire \o Gets(f, s) # <<>> /\ Head(wire \o Gets(f, s)) = c
         /\ Tail(wire \o Gets(f, s)) = Tail(wire) \o Gets(f, s)
    <2>1. wire \in Seq(Commands)
      BY ReadFacts DEF Linked, WireOK, Once
    <2>2. StageOK(s) /\ s.reads \in Seq(Readable)
      BY <1>9, <1>10, <1>12, BegunFields, ReadFacts DEF StageOK
    <2>3. Gets(f, s) \in Seq(Commands)
      <3>1. \A i \in DOMAIN s.reads : [op |-> "get", by |-> f, key |-> s.reads[i]] \in Commands
        BY <1>7, <2>2, FetchFacts, KeyFacts DEF Commands
      <3>2. Gets(f, s) \in [1..Len(s.reads) -> Commands] /\ Len(s.reads) \in Nat
        BY <2>2, <3>1 DEF Gets
      <3> QED BY <3>2
    <2> QED BY <1>1, <1>6, <2>1, <2>3, TailOfBoth
  <1>16. /\ Linked(Tail(wire) \o Gets(f, s),
                   ((readers \cup Asking(f, s)) \ {Wants(c.by, c.key, 0)}) \cup {Wants(c.by, c.key, f)}, replies, fetches')
    <2>1. PICK w, rs1, fs1 : w = wire \o Gets(f, s) /\ rs1 = readers \cup Asking(f, s) /\ fs1 = fetches'
      OBVIOUS
    <2>2. Linked(w, rs1, replies, fs1) /\ w # <<>> /\ Head(w) = c /\ Head(w).op = "get" /\ fs1[f].key = c.key
      BY <1>1, <1>6, <1>9, <1>13, <1>14, <1>15, <2>1
    <2>3. Linked(Tail(w), (rs1 \ {Wants(c.by, c.key, 0)}) \cup {Wants(c.by, c.key, f)}, replies, fs1)
      BY <1>7, <2>2, HeadJoined
    <2> QED BY <1>15, <2>1, <2>3
  <1>17. ((readers \cup Asking(f, s)) \ {a}) \cup {[a EXCEPT !.on = f]} = readers'
    <2>1. \A r \in Asking(f, s) : r.by = f
      BY DEF Asking
    <2>2. a \notin Asking(f, s)
      BY <1>6, <1>7, <2>1
    <2> QED BY <1>4, <1>13, <2>2
  <1>18. Linked(wire', readers', replies', fetches')
    BY <1>5, <1>6, <1>8, <1>13, <1>16, <1>17
  <1>19. EntriesKept(entries, now) /\ \A p \in replies : ReplyOK(p, now)
    BY ReadFacts DEF ReadsAre
  <1>20. now' = now /\ entries' = entries /\ replies' = replies
    BY <1>5, <1>6
  <1> QED BY <1>6, <1>13, <1>14, <1>18, <1>19, <1>20 DEF ReadInv, ReadsAre

\* What is kept after a fetch
LEMMA StoredEntry ==
    ASSUME ReadInv, NEW r \in FetchType, FetchOK(r, now), r # NoFetch
    PROVE  /\ EntryOf(r) \in KeptType /\ EntryOf(r).fetched = r.done /\ EntryOf(r).fetched <= now
           /\ EntryOf(r).asOf = r.asOf /\ KeptOK(StoredAs(r.key), EntryOf(r), now)
  <1>1. PICK e : e = EntryOf(r)
    OBVIOUS
  <1>2. PICK t : t = Plans[r.key].ttl
    OBVIOUS
  <1>3. r.key \in Keys /\ r.asOf \in Int /\ r.whole \in BOOLEAN /\ r.began \in Nat /\ r.done \in Nat
    BY DEF FetchType
  <1>4. t \in Nat \ {0} /\ now \in Nat /\ r.key \in Makers(StoredAs(r.key))
    BY <1>2, <1>3, AgeFacts, KeyFacts, ReadFacts
  <1>5. e = [asOf |-> r.asOf, whole |-> r.whole, fetched |-> r.done, until |-> now + t]
    BY <1>1, <1>2 DEF EntryOf
  <1>6. e.asOf = r.asOf /\ e.fetched = r.done /\ e.until = now + t
    BY <1>5
  <1>7. e \in KeptType
    <2>1. now + t \in Nat
      BY <1>4
    <2> QED BY <1>3, <1>5, <2>1 DEF KeptType
  <1>8. r.done <= now /\ now <= r.began + Lag /\ AsOfOK(r.key, r.asOf, r.began)
    BY DEF FetchOK
  <1>9. AsOfOK(r.key, r.asOf, (now + t) - t - Lag)
    BY <1>2, <1>3, <1>4, <1>8, StoredAge
  <1>10. e.whole \/ MayLack(r.key)
    <2>1. e.whole = r.whole
      BY <1>5
    <2> QED BY <2>1 DEF FetchOK
  <1>11. now < e.until
    BY <1>4, <1>6
  <1>12. KeptOK(StoredAs(r.key), e, now)
    BY <1>2, <1>4, <1>6, <1>9, <1>10, <1>11 DEF KeptOK
  <1> QED BY <1>1, <1>6, <1>7, <1>8, <1>12

\* The fetch whose result Redis has taken
LEMMA StoredFacts ==
    ASSUME ReadInv, wire # <<>>, Head(wire).op = "set", NEW f, f = Head(wire).by
    PROVE  /\ f \in Fetches /\ fetches[f].at = "store" /\ Head(wire) = SetOf(f, fetches[f].key)
           /\ fetches[f] \in FetchType /\ fetches[f] # NoFetch /\ fetches[f].key \in Keys /\ FetchOK(fetches[f], now)
  <1>1. Head(wire) \in Sent(wire) /\ Head(wire) \in Commands
    BY ReadFacts, TailSends DEF Linked, WireOK
  <1>2. f \in Fetches /\ fetches[f].at = "store" /\ fetches[f].key = Head(wire).key
    BY <1>1, ReadFacts DEF Linked, WireOK
  <1>3. Head(wire) = SetOf(f, fetches[f].key)
    BY <1>1, <1>2 DEF Commands, SetOf
  <1>4. fetches[f] \in FetchType /\ fetches[f] # NoFetch
    BY <1>2, NoFetchFields, ReadFacts DEF Typed
  <1> QED BY <1>2, <1>3, <1>4, ReadFacts DEF FetchType

\* No other fetch of a shared key is under way.
LEMMA OneFetch ==
    ASSUME ReadInv, NEW f \in Fetches, NEW g \in Fetches, fetches[f] # NoFetch, fetches[g] # NoFetch,
           Shared(fetches[g].key), StoredAs(fetches[f].key) = fetches[g].key
    PROVE  f = g
  <1>1. FlightOK(flight, fetches) /\ Typed(fetches)
    BY ReadFacts DEF ReadsAre
  <1>2. fetches[f].key \in Keys /\ fetches[g].key \in Keys
    BY <1>1 DEF Typed, FetchType
  <1>3. Makers(fetches[g].key) = {fetches[g].key}
    BY <1>2, PlanFacts
  <1>4. fetches[f].key \in Makers(fetches[g].key)
    BY <1>2 DEF Makers
  <1>5. fetches[f].key = fetches[g].key
    BY <1>3, <1>4
  <1> QED BY <1>1, <1>5 DEF FlightOK

LEMMA StoredKeeps ==
    ASSUME ReadInv, Stored
    PROVE  ReadInv'
  <1>1. PICK f : f = Head(wire).by
    OBVIOUS
  <1>2. PICK r : r = fetches[f]
    OBVIOUS
  <1>3. /\ Idle /\ wire # <<>> /\ Head(wire).op = "set" /\ Over(f, TRUE, r, {}) /\ wire' = Tail(wire) /\ now' = now
        /\ \/ entries' = [entries EXCEPT ![StoredAs(r.key)] = EntryOf(r)] /\ UNCHANGED readBounds
           \/ Mishap /\ UNCHANGED entries
    BY <1>1, <1>2 DEF Stored
  <1>4. /\ f \in Fetches /\ fetches[f].at = "store" /\ Head(wire) = SetOf(f, fetches[f].key)
        /\ r \in FetchType /\ r # NoFetch /\ r.key \in Keys /\ FetchOK(r, now)
    BY <1>1, <1>2, <1>3, StoredFacts
  <1>5. replies = {} /\ now \in Nat /\ Typed(fetches) /\ Busy(fetches)
    BY <1>3, ReadFacts DEF Idle
  <1>6. ReadsAre(wire', readers', replies', fetches', flight', entries, now) /\ Busy(fetches')
    <2>1. now <= r.began + Lag /\ AsOfOK(r.key, r.asOf, r.began) /\ Answerable(r)
      BY <1>4 DEF FetchOK, Answerable
    <2>2. fetches = [fetches EXCEPT ![f] = r] /\ TRUE \in BOOLEAN
      BY <1>2, <1>5 DEF Typed
    <2>3. PICK rest, w1 : rest = {} /\ w1 = Tail(wire)
      OBVIOUS
    <2>4. ReadsAre(wire, readers, rest, fetches, flight, entries, now) /\ Over(f, TRUE, r, rest)
      BY <1>3, <1>5, <2>3, ReadFacts
    <2>5. wire # <<>> /\ Head(wire) = SetOf(f, fetches[f].key) /\ w1 = Tail(wire) /\ r.key = fetches[f].key
      BY <1>2, <1>3, <1>4, <2>3
    <2>6. ReadsAre(w1, readers', replies', fetches', flight', entries, now) /\ (Busy(fetches) => Busy(fetches'))
      BY <1>4, <1>5, <2>1, <2>2, <2>4, <2>5, OverHolds
    <2> QED BY <1>3, <1>5, <2>3, <2>6
  <1>7. EntriesKept(entries', now) /\ LaterOK(entries', fetches')
    <2>1. CASE UNCHANGED entries
      BY <1>6, <2>1 DEF ReadsAre
    <2>2. CASE entries' = [entries EXCEPT ![StoredAs(r.key)] = EntryOf(r)]
      <3>1. PICK k : k = StoredAs(r.key)
        OBVIOUS
      <3>2. k \in Keys
        BY <1>4, <3>1, KeyFacts
      <3>3. EntriesKept(entries, now)
        BY ReadFacts DEF ReadsAre
      <3>4. /\ \A j \in Keys : entries'[j] = IF j = k THEN EntryOf(r) ELSE entries[j]
            /\ EntryOf(r) \in KeptType /\ EntryOf(r).fetched <= now /\ KeptOK(k, EntryOf(r), now)
        BY <1>4, <2>2, <3>1, <3>3, StoredEntry DEF EntriesKept
      <3>5. entries' \in [Keys -> KeptType]
        BY <2>2, <3>3, <3>4 DEF EntriesKept
      <3>6. EntriesKept(entries', now)
        BY <3>3, <3>4, <3>5 DEF EntriesKept
      <3>7. \A g \in Fetches : fetches'[g] = IF g = f THEN NoFetch ELSE fetches[g]
        BY <1>3, <1>5 DEF Over, Typed
      <3>8. ASSUME NEW g \in Fetches, fetches'[g] # NoFetch, Shared(fetches'[g].key)
            PROVE  entries'[fetches'[g].key].fetched <= fetches'[g].began
        <4>1. g # f /\ fetches'[g] = fetches[g]
          BY <3>7, <3>8
        <4>2. fetches[g].key # k
          BY <1>2, <1>4, <3>1, <3>8, <4>1, OneFetch
        <4>3. fetches[g].key \in Keys
          BY <1>5, <3>8, <4>1 DEF Typed, FetchType
        <4>4. LaterOK(entries, fetches)
          BY ReadFacts DEF ReadsAre
        <4> QED BY <3>4, <3>8, <4>1, <4>2, <4>3, <4>4 DEF LaterOK
      <3> QED BY <3>6, <3>8 DEF LaterOK
    <2> QED BY <1>3, <2>1, <2>2
  <1>8. BoundsOK'
    BY <1>3, BoundsAfter DEF ReadInv
  <1>9. ReadsAre(wire', readers', replies', fetches', flight', entries', now)
    BY <1>6, <1>7 DEF ReadsAre
  <1> QED BY <1>3, <1>6, <1>8, <1>9 DEF ReadInv

LEMMA TickKeeps ==
    ASSUME ReadInv, Tick
    PROVE  ReadInv'
  <1>1. /\ replies = {} /\ now < readScene.upto /\ now' = now + 1
        /\ \A f \in Fetches : fetches[f] # NoFetch => now - fetches[f].began < Lag
        /\ entries' = [k \in Keys |-> IF entries[k].until > now + 1 THEN entries[k] ELSE Nothing]
        /\ UNCHANGED <<readBounds, wire, flight, fetches, readers, replies>>
    BY DEF Tick, Idle
  <1>2. now \in Nat /\ Typed(fetches) /\ Lag \in Nat
    BY FetchFacts, ReadFacts
  <1>3. \A f \in Fetches : FetchOK(fetches[f], now + 1)
    <2> SUFFICES ASSUME NEW f \in Fetches PROVE FetchOK(fetches[f], now + 1)
      OBVIOUS
    <2>1. CASE fetches[f] = NoFetch
      BY <2>1 DEF FetchOK
    <2>2. CASE fetches[f] # NoFetch
      <3>1. FetchOK(fetches[f], now) /\ fetches[f].began \in Nat /\ fetches[f].done \in Nat
        BY <1>2, <2>2, ReadFacts DEF Typed, FetchType
      <3>2. fetches[f].began <= now + 1 /\ now + 1 <= fetches[f].began + Lag /\ fetches[f].done <= now + 1
        BY <1>1, <1>2, <2>2, <3>1 DEF FetchOK
      <3> QED BY <2>2, <3>1, <3>2 DEF FetchOK
    <2> QED BY <2>1, <2>2
  <1>4. /\ Nothing \in KeptType /\ Nothing.fetched = 0 /\ \A k : KeptOK(k, Nothing, now + 1)
    BY DEF Nothing, KeptType, KeptOK
  <1>5. EntriesKept(entries, now) /\ LaterOK(entries, fetches)
    BY ReadFacts DEF ReadsAre
  <1>6. \A k \in Keys : entries'[k] = IF entries[k].until > now + 1 THEN entries[k] ELSE Nothing
    BY <1>1
  <1>7. EntriesKept(entries', now + 1)
    <2>1. entries' \in [Keys -> KeptType]
      BY <1>1, <1>4, <1>5 DEF EntriesKept
    <2>2. ASSUME NEW k \in Keys PROVE entries'[k].fetched <= now + 1 /\ KeptOK(k, entries'[k], now + 1)
      <3>1. CASE entries[k].until > now + 1
        <4>1. entries'[k] = entries[k] /\ entries[k].fetched \in Nat /\ entries[k].until \in Nat
          BY <1>5, <1>6, <3>1 DEF EntriesKept, KeptType
        <4>2. entries[k].fetched <= now + 1
          BY <1>2, <1>5, <4>1 DEF EntriesKept
        <4>3. KeptOK(k, entries[k], now)
          BY <1>5 DEF EntriesKept
        <4>4. KeptOK(k, entries[k], now + 1)
          BY <1>2, <3>1, <4>1, <4>3 DEF KeptOK
        <4> QED BY <4>1, <4>2, <4>4
      <3>2. CASE ~(entries[k].until > now + 1)
        BY <1>2, <1>4, <1>6, <3>2
      <3> QED BY <3>1, <3>2
    <2> QED BY <2>1, <2>2 DEF EntriesKept
  <1>8. LaterOK(entries', fetches)
    <2> SUFFICES ASSUME NEW f \in Fetches, fetches[f] # NoFetch, Shared(fetches[f].key)
                 PROVE  entries'[fetches[f].key].fetched <= fetches[f].began
      BY DEF LaterOK
    <2>1. fetches[f].key \in Keys /\ fetches[f].began \in Nat
      BY <1>2 DEF Typed, FetchType
    <2>2. entries[fetches[f].key].fetched <= fetches[f].began
      BY <1>5 DEF LaterOK
    <2> QED BY <1>4, <1>6, <2>1, <2>2
  <1>9. BoundsOK'
    <2>1. readScene.upto \in Nat
      BY ReadAssumption DEF ReadAssumption, ReadInv, BoundsOK
    <2> QED BY <1>1, <2>1 DEF ReadInv, BoundsOK, readBounds
  <1>10. ReadsAre(wire', readers', replies', fetches', flight', entries', now')
    <2>1. Linked(wire, readers, replies, fetches) /\ FlightOK(flight, fetches)
      BY ReadFacts DEF ReadsAre
    <2> QED BY <1>1, <1>3, <1>7, <1>8, <2>1 DEF ReadsAre
  <1>11. Busy(fetches')
    BY <1>1, ReadFacts
  <1> QED BY <1>9, <1>10, <1>11 DEF ReadInv

\* Nothing is under way.
LEMMA NothingLinked ==
    ASSUME NEW fs, fs = [f \in Fetches |-> NoFetch]
    PROVE  /\ Linked(<<>>, {}, {}, fs) /\ Busy(fs) /\ FlightOK([k \in Keys |-> 0], fs)
           /\ (\A t : \A f \in Fetches : FetchOK(fs[f], t)) /\ \A es : LaterOK(es, fs)
  <1>1. \A f \in Fetches : fs[f] = NoFetch /\ fs[f].at # "work" /\ fs[f].at # "store"
    BY NoFetchFields
  <1>2. <<>> \in Seq(Commands) /\ DOMAIN <<>> = {}
    OBVIOUS
  <1>3. WireOK(<<>>, {}, fs)
    BY <1>1, <1>2 DEF WireOK, Once, Sent
  <1>4. ReadersOK({}, {}, fs)
    BY DEF ReadersOK
  <1>5. TiesOK({}, {}, fs) /\ Busy(fs)
    BY <1>1 DEF TiesOK, Busy
  <1>6. FlightOK([k \in Keys |-> 0], fs)
    BY <1>1, FetchFacts DEF FlightOK
  <1> QED BY <1>1, <1>3, <1>4, <1>5, <1>6 DEF Linked, FetchOK, LaterOK

LEMMA ForgetsKeeps ==
    ASSUME ReadInv, Forgets
    PROVE  ReadInv'
  <1>1. /\ wire' = <<>> /\ flight' = [k \in Keys |-> 0] /\ fetches' = [f \in Fetches |-> NoFetch]
        /\ readers' = {} /\ replies' = {} /\ now' = now /\ entries' = entries /\ UNCHANGED readBounds
    BY DEF Forgets
  <1>2. /\ Linked(wire', readers', replies', fetches') /\ Busy(fetches') /\ FlightOK(flight', fetches')
        /\ (\A f \in Fetches : FetchOK(fetches'[f], now)) /\ LaterOK(entries, fetches')
    <2>1. PICK fs : fs = [f \in Fetches |-> NoFetch]
      OBVIOUS
    <2>2. /\ Linked(<<>>, {}, {}, fs) /\ Busy(fs) /\ FlightOK([k \in Keys |-> 0], fs)
          /\ (\A f \in Fetches : FetchOK(fs[f], now)) /\ LaterOK(entries, fs)
      BY <2>1, NothingLinked
    <2> QED BY <1>1, <2>1, <2>2
  <1>3. EntriesKept(entries, now)
    BY ReadFacts DEF ReadsAre
  <1>4. BoundsOK'
    BY <1>1, BoundsAfter DEF ReadInv
  <1> QED BY <1>1, <1>2, <1>3, <1>4 DEF ReadInv, ReadsAre

LEMMA ReadsStart ==
    ASSUME ReadInit
    PROVE  ReadInv
  <1>1. /\ readScene \in ReadScenes /\ mishaps = readScene.mishaps /\ asked = 0 /\ now = 1
        /\ entries = [k \in Keys |-> Nothing] /\ wire = <<>> /\ flight = [k \in Keys |-> 0]
        /\ fetches = [f \in Fetches |-> NoFetch] /\ readers = {} /\ replies = {}
    BY DEF ReadInit
  <1>2. BoundsOK
    BY <1>1, ReadAssumption DEF BoundsOK, ReadAssumption
  <1>3. /\ Linked(wire, readers, replies, fetches) /\ Busy(fetches) /\ FlightOK(flight, fetches)
        /\ (\A f \in Fetches : FetchOK(fetches[f], now)) /\ LaterOK(entries, fetches)
    <2>1. /\ Linked(<<>>, {}, {}, fetches) /\ Busy(fetches) /\ FlightOK([k \in Keys |-> 0], fetches)
          /\ (\A f \in Fetches : FetchOK(fetches[f], now)) /\ LaterOK(entries, fetches)
      BY <1>1, NothingLinked
    <2> QED BY <1>1, <2>1
  <1>4. EntriesKept(entries, now)
    <2>1. /\ Nothing \in KeptType /\ Nothing.fetched = 0 /\ \A k : KeptOK(k, Nothing, now)
      BY DEF Nothing, KeptType, KeptOK
    <2> QED BY <1>1, <2>1 DEF EntriesKept
  <1> QED BY <1>1, <1>2, <1>3, <1>4 DEF ReadInv, ReadsAre

\* Every step keeps the invariant, one by one.
LEMMA ReadSteps ==
    ASSUME ReadInv, ReadNext \/ Forgets \/ UNCHANGED readVars
    PROVE  ReadInv'
  <1>1. CASE Stored
    BY <1>1, StoredKeeps
  <1>2. ASSUME NEW e \in Seen, Hit(e) \/ HitOld(e) \/ Join(e) \/ Miss(e) PROVE ReadInv'
    BY <1>2, HitKeeps, HitOldKeeps, JoinKeeps, MissKeeps
  <1>3. CASE Tick
    BY <1>3, TickKeeps
  <1>4. ASSUME NEW u \in Users, NEW k \in readScene.asks, ReadAsk(u, k) PROVE ReadInv'
    BY <1>4, ReadAskKeeps
  <1>5. ASSUME NEW k \in readScene.auto, Refresh(k) PROVE ReadInv'
    BY <1>5, RefetchKeeps
  <1>6. ASSUME NEW f \in Fetches, OwnAnswers(f) PROVE ReadInv'
    BY <1>6, OwnAnswersKeeps
  <1>7. ASSUME NEW f \in Fetches, OwnFails(f) PROVE ReadInv'
    BY <1>7, OwnFailsKeeps
  <1>8. ASSUME NEW p \in replies, Deliver(p) PROVE ReadInv'
    BY <1>8, DeliverKeeps
  <1>9. CASE Forgets
    BY <1>9, ForgetsKeeps
  <1>10. CASE UNCHANGED readVars
    BY <1>10 DEF readVars, readBounds, ReadInv, BoundsOK
  <1> QED BY <1>1, <1>2, <1>3, <1>4, <1>5, <1>6, <1>7, <1>8, <1>9, <1>10 DEF ReadNext, RedisAnswers

-----------------------------------------------------------------------------
(* Reads: what the invariant says.                                           *)

LEMMA ReadsHoldThen ==
    ASSUME ReadInv
    PROVE  ReadsHold
  <1>1. /\ mishaps \in 0..readScene.mishaps /\ asked \in 0..readScene.budget /\ now \in 1..readScene.upto
    BY DEF ReadInv, BoundsOK
  <1>2. /\ flight \in [Keys -> 0..MaxFetches]
        /\ \A f \in Fetches : fetches[f] # NoFetch /\ Shared(fetches[f].key) => flight[fetches[f].key] = f
    BY ReadFacts DEF ReadsAre, FlightOK
  <1>3. ASSUME NEW r \in readers
        PROVE  IF r.on = 0 THEN \E i \in DOMAIN wire : wire[i] = [op |-> "get", by |-> r.by, key |-> r.key]
               ELSE fetches[r.on].key = r.key
    <2>1. r.on = 0 => GetOf(r.by, r.key) \in Sent(wire)
      BY ReadFacts DEF Linked, WireOK
    <2>2. r.on = 0 => \E i \in DOMAIN wire : wire[i] = [op |-> "get", by |-> r.by, key |-> r.key]
      BY <2>1 DEF Sent, GetOf
    <2>3. r.on # 0 => fetches[r.on].key = r.key
      BY ReadFacts DEF Linked, ReadersOK
    <2> QED BY <2>2, <2>3
  <1>4. ASSUME NEW k \in Keys PROVE entries[k].whole \/ \E j \in Makers(k) : MayLack(j)
    <2>1. KeptOK(k, entries[k], now)
      BY ReadFacts DEF ReadsAre, EntriesKept
    <2>2. Nothing.whole
      BY DEF Nothing
    <2> QED BY <2>1, <2>2 DEF KeptOK
  <1> QED BY <1>1, <1>2, <1>3, <1>4 DEF ReadsHold

LEMMA AnswersRecentThen ==
    ASSUME ReadInv
    PROVE  AnswersAreRecent
  <1>1. \A p \in replies : ReplyOK(p, now)
    BY ReadFacts DEF ReadsAre
  <1> QED BY <1>1 DEF AnswersAreRecent, ReplyOK

\* A read of a leaf goes on: its fetch reads nothing.
LEMMA LeafGoesOn ==
    ASSUME ReadInv, NEW r \in readers, Leaf(r.key)
    PROVE  wire # <<>> \/ \E f \in Fetches : Owes(f, "own")
  <1>1. CASE r.on = 0
    <2>1. GetOf(r.by, r.key) \in Sent(wire)
      BY <1>1, ReadFacts DEF Linked, WireOK
    <2> QED BY <2>1 DEF Sent
  <1>2. CASE r.on # 0
    <2>1. PICK f \in Fetches : f = r.on /\ fetches[f].key = r.key
      BY <1>2, ReadFacts, LinkedTypes
    <2>2. r.key \in Keys /\ fetches[f] \in FetchType
      <3>1. r.key \in Keys
        BY KeyFacts DEF Leaf
      <3> QED BY <2>1, <3>1, NoFetchFields, ReadFacts DEF Typed
    <2>3. CASE fetches[f].at = "store"
      <3>1. SetOf(f, fetches[f].key) \in Sent(wire)
        BY <2>3, ReadFacts DEF Linked, WireOK
      <3> QED BY <3>1 DEF Sent
    <2>4. CASE fetches[f].at = "work"
      <3>1. /\ fetches[f].stage \in DOMAIN Plans[r.key].stages
            /\ fetches[f].left \subseteq Pieces(Stage(r.key, fetches[f].stage)) /\ fetches[f].left # {}
        BY <2>1, <2>4, ReadFacts DEF Linked, TiesOK, Busy
      <3>2. ReadBy(Stage(r.key, fetches[f].stage)) = {}
        BY <3>1 DEF Leaf, SourcesOf
      <3>3. "own" \in fetches[f].left
        BY <3>1, <3>2 DEF Pieces
      <3> QED BY <2>4, <3>3 DEF Owes
    <2> QED BY <2>2, <2>3, <2>4 DEF FetchType
  <1> QED BY <1>1, <1>2

LEMMA ReadsGoOnThen ==
    ASSUME ReadInv
    PROVE  ReadsGoOn
  <1> SUFFICES ASSUME NEW r \in readers
               PROVE  wire # <<>> \/ ~Idle \/ \E f \in Fetches : Owes(f, "own")
    BY DEF ReadsGoOn
  <1>1. CASE r.on = 0
    <2>1. GetOf(r.by, r.key) \in Sent(wire)
      BY <1>1, ReadFacts DEF Linked, WireOK
    <2> QED BY <2>1 DEF Sent
  <1>2. CASE r.on # 0
    <2>1. r.on \in Fetches /\ fetches[r.on].key = r.key /\ r.key \in Keys
      BY <1>2, ReadFacts, LinkedTypes, KeyFacts
    <2>2. PICK f \in Fetches : f = r.on
      BY <2>1
    <2>3. fetches[f] \in FetchType
      BY <2>1, <2>2, NoFetchFields, ReadFacts DEF Typed
    <2>4. CASE fetches[f].at = "store"
      <3>1. SetOf(f, fetches[f].key) \in Sent(wire)
        BY <2>4, ReadFacts DEF Linked, WireOK
      <3> QED BY <3>1 DEF Sent
    <2>5. CASE fetches[f].at = "work"
      <3>1. PICK q : q \in fetches[f].left
        BY <2>5, ReadFacts DEF Busy
      <3>2. Owes(f, q)
        BY <2>5, <3>1 DEF Owes
      <3>3. CASE q = "own"
        BY <3>2, <3>3
      <3>4. CASE q # "own"
        <4>1. q \in Keys /\ Leaf(q)
          <5>1. q \in SourcesOf(fetches[f].key) /\ fetches[f].key \in Keys
            BY <3>2, <3>4, OwesFacts
          <5> QED BY <5>1, PlanFacts, KeyFacts DEF Leaf
        <4>2. Awaits(readers, replies, f, q)
          BY <2>5, <3>1, <4>1, ReadFacts DEF Linked, TiesOK
        <4>3. CASE \E p \in replies : p.to = f /\ p.key = q
          BY <4>3 DEF Idle
        <4>4. ASSUME NEW s \in readers, s.key = q PROVE wire # <<>> \/ \E g \in Fetches : Owes(g, "own")
          BY <4>1, <4>4, LeafGoesOn
        <4> QED BY <4>2, <4>3, <4>4 DEF Awaits
      <3> QED BY <3>3, <3>4
    <2> QED BY <2>3, <2>4, <2>5 DEF FetchType
  <1> QED BY <1>1, <1>2

\* Entries change by a tick, or by a SET.
LEMMA EntryChanges ==
    ASSUME ReadInv, ReadNext \/ Forgets \/ UNCHANGED readVars
    PROVE  Tick \/ Stored \/ entries' = entries
  BY DEF ReadNext, RedisAnswers, Hit, HitOld, Join, Miss, Sees, ReadAsk, Refresh, OwnAnswers, OwnFails, Deliver,
         Forgets, readVars

\* What replaces an entry follows it.
LEMMA FollowsThen ==
    ASSUME ReadInv, ReadNext \/ Forgets \/ UNCHANGED readVars, NEW k \in Keys, Shared(k)
    PROVE  Follows(k)
  <1>1. CASE entries' = entries
    BY <1>1 DEF Follows
  <1>2. CASE Tick
    <2>1. entries'[k] = entries[k] \/ entries'[k] = Nothing
      BY <1>2 DEF Tick
    <2> QED BY <2>1 DEF Follows
  <1>3. CASE Stored /\ entries' # entries
    <2>1. PICK f : f = Head(wire).by
      OBVIOUS
    <2>2. PICK r : r = fetches[f]
      OBVIOUS
    <2>3. /\ wire # <<>> /\ Head(wire).op = "set" /\ entries' = [entries EXCEPT ![StoredAs(r.key)] = EntryOf(r)]
      BY <1>3, <2>1, <2>2 DEF Stored
    <2>4. f \in Fetches /\ r \in FetchType /\ r # NoFetch /\ r.key \in Keys /\ FetchOK(r, now)
      BY <2>1, <2>2, <2>3, StoredFacts
    <2>5. EntriesKept(entries, now) /\ LaterOK(entries, fetches)
      BY ReadFacts DEF ReadsAre
    <2>6. CASE k # StoredAs(r.key)
      <3>1. entries'[k] = entries[k]
        BY <2>3, <2>5, <2>6 DEF EntriesKept
      <3> QED BY <3>1 DEF Follows
    <2>7. CASE k = StoredAs(r.key)
      <3>1. r.key = k
        <4>1. r.key \in Makers(k) /\ Makers(k) = {k}
          BY <2>4, <2>7, PlanFacts DEF Makers
        <4> QED BY <4>1
      <3>2. entries'[k].asOf = r.asOf
        <4>1. entries'[k] = EntryOf(r)
          BY <2>3, <2>5, <2>7 DEF EntriesKept
        <4> QED BY <2>4, <4>1, StoredEntry
      <3>3. entries[k].fetched \in Nat /\ entries[k].fetched <= r.began
        BY <2>2, <2>4, <2>5, <3>1 DEF LaterOK, EntriesKept, KeptType
      <3>4. r.asOf \in Int /\ r.began \in Nat /\ AsOfOK(k, r.asOf, r.began)
        BY <2>4, <3>1 DEF FetchOK, FetchType
      <3>5. PICK age : age = entries[k].fetched - r.asOf
        OBVIOUS
      <3>6. age <= 0 \/ \E j \in SourcesOf(k) : age <= AgeOf(j)
        <4>1. CASE r.asOf >= r.began
          BY <3>3, <3>4, <3>5, <4>1
        <4>2. ASSUME NEW j \in SourcesOf(k), r.asOf >= r.began - AgeOf(j) PROVE age <= AgeOf(j)
          <5>1. AgeOf(j) \in Nat
            BY AgeFacts
          <5> QED BY <3>3, <3>4, <3>5, <4>2, <5>1
        <4> QED BY <3>4, <4>1, <4>2 DEF AsOfOK
      <3> QED BY <3>2, <3>5, <3>6 DEF Follows
    <2> QED BY <2>6, <2>7
  <1> QED BY <1>1, <1>2, <1>3, EntryChanges

-----------------------------------------------------------------------------
(* Clients: what an operation is.                                            *)

Answers == {"error", "lacks", "hex", "ahead", "refused"}
Clienteles == {"clients", "fetcher", "epochs", "nobody", "pinned"}
OpType == [to : {"node", "rpc"}, sends : Nat \ {0}, rounds : Nat \ {0}, ends : SUBSET Answers,
           parts : SUBSET Nat, quiet : BOOLEAN, by : Clienteles]
OpOK(op) ==
    /\ op \in OpType
    /\ op.quiet => op.by = "clients"
    /\ op.by # "clients" => op.to = "node"

LEMMA CountsTyped == {Nodes, Rpcs, Retries, MaxParts} \subseteq Nat \ {0}
  BY ClientAssumption

LEMMA RequestOK == \A to \in {"node", "rpc"} : OpOK(Request(to)) /\ Request(to).by = "clients" /\ Request(to).to = to
  BY CountsTyped DEF Request, OpOK, OpType, Clienteles

LEMMA QuietOK ==
    ASSUME NEW op, OpOK(op), op.by = "clients"
    PROVE  OpOK(Quiet(op)) /\ Quiet(op).by = op.by /\ Quiet(op).to = op.to
  BY DEF Quiet, OpOK, OpType

LEMMA TriedOK ==
    ASSUME NEW op, OpOK(op)
    PROVE  OpOK(Tried(op)) /\ Tried(op).by = op.by /\ Tried(op).to = op.to
  BY CountsTyped DEF Tried, OpOK, OpType

LEMMA TwiceOK ==
    ASSUME NEW op, OpOK(op)
    PROVE  OpOK(Twice(op)) /\ Twice(op).by = op.by /\ Twice(op).to = op.to
  BY DEF Twice, OpOK, OpType

LEMMA SendsOK ==
    ASSUME NEW op, OpOK(op)
    PROVE  OpOK(Sends(op, 1)) /\ Sends(op, 1).by = op.by /\ Sends(op, 1).to = op.to
                              /\ Sends(op, 1).quiet = op.quiet
  BY DEF Sends, OpOK, OpType

LEMMA EndedOK ==
    ASSUME NEW op, OpOK(op), NEW answers \in SUBSET Answers
    PROVE  OpOK(Ended(op, answers)) /\ Ended(op, answers).by = op.by /\ Ended(op, answers).to = op.to
  BY DEF Ended, OpOK, OpType

LEMMA PartsOK ==
    ASSUME NEW op, OpOK(op), NEW numbers \in SUBSET Nat
    PROVE  OpOK(Parts(op, numbers)) /\ Parts(op, numbers).by = op.by /\ Parts(op, numbers).to = op.to
  BY DEF Parts, OpOK, OpType

LEMMA ByOK ==
    ASSUME NEW op, OpOK(op), op.to = "node", ~op.quiet, NEW who \in Clienteles
    PROVE  OpOK(By(op, who)) /\ By(op, who).by = who /\ By(op, who).to = "node"
  BY DEF By, OpOK, OpType

LEMMA LoudRequest == \A to \in {"node", "rpc"} : Request(to).quiet = FALSE
  BY DEF Request

LEMMA OperationsOK == \A op \in Operations : OpOK(op)
  <1> SUFFICES ASSUME NEW op \in Operations PROVE OpOK(op)
    OBVIOUS
  <1>1. OpOK(CurrentHeight) /\ OpOK(CurrentEpochOf) /\ OpOK(VotesAt)
    BY RequestOK, QuietOK, TriedOK DEF CurrentHeight, CurrentEpochOf, VotesAt
  <1>2. OpOK(BlockResults) /\ OpOK(BlockByHeight) /\ OpOK(Transaction)
    <2>1. {"ahead"} \in SUBSET Answers /\ {"lacks"} \in SUBSET Answers /\ {"lacks", "hex"} \in SUBSET Answers
      BY DEF Answers
    <2> QED BY <2>1, RequestOK, SendsOK, EndedOK DEF BlockResults, BlockByHeight, Transaction
  <1>3. OpOK(LatestBlock) /\ OpOK(BlockByHash) /\ OpOK(DelegateTxs) /\ OpOK(UnbondingTxs) /\ OpOK(StakingTxs)
    BY RequestOK DEF LatestBlock, BlockByHash, DelegateTxs, UnbondingTxs, StakingTxs
  <1>4. OpOK(FinalityParams) /\ OpOK(ProvidersAt) /\ OpOK(BabylonParams) /\ OpOK(IncentiveParams) /\ OpOK(CosmosParams)
    BY RequestOK DEF FinalityParams, ProvidersAt, BabylonParams, IncentiveParams, CosmosParams
  <1>5. OpOK(TxSearch)
    BY RequestOK, TwiceOK DEF TxSearch
  <1>6. OpOK(SearchTxs) /\ OpOK(ProposalTally) /\ OpOK(ProposalDetails) /\ OpOK(TallyParams) /\ OpOK(UnbondingPeriod)
    BY RequestOK, QuietOK DEF SearchTxs, ProposalTally, ProposalDetails, TallyParams, UnbondingPeriod
  <1>7. OpOK(Proposals) /\ OpOK(ProposalVotes)
    <2>1. 1..MaxParts \in SUBSET Nat
      OBVIOUS
    <2> QED BY <2>1, RequestOK, PartsOK, QuietOK DEF Proposals, ProposalVotes
  <1>8. OpOK(MintParams) /\ OpOK(GovParams)
    <2>1. {3} \in SUBSET Nat
      OBVIOUS
    <2> QED BY <2>1, RequestOK, PartsOK DEF MintParams, GovParams
  <1>9. OpOK(DistributionParams) /\ OpOK(RawQuery) /\ OpOK(WasmLists) /\ OpOK(ContractQuery)
    <2>1. {"refused"} \in SUBSET Answers /\ "nobody" \in Clienteles /\ "pinned" \in Clienteles
      BY DEF Answers, Clienteles
    <2> QED BY <2>1, RequestOK, LoudRequest, ByOK, EndedOK DEF DistributionParams, RawQuery, WasmLists, ContractQuery
  <1>10. OpOK(WasmQuery)
    <2>1. "pinned" \in Clienteles
      BY DEF Clienteles
    <2> QED BY <2>1, RequestOK, LoudRequest, ByOK, SendsOK DEF WasmQuery
  <1>11. OpOK(CheckpointTxs) /\ OpOK(FetcherEpoch)
    <2>1. "fetcher" \in Clienteles /\ "epochs" \in Clienteles
      BY DEF Clienteles
    <2> QED BY <2>1, RequestOK, LoudRequest, SendsOK, ByOK DEF CheckpointTxs, FetcherEpoch
  <1> QED BY <1>1, <1>2, <1>3, <1>4, <1>5, <1>6, <1>7, <1>8, <1>9, <1>10, <1>11, Zenon DEF Operations

-----------------------------------------------------------------------------
(* Clients: what a call has asked, and where it asks.                        *)

Ahead(r, s) == Distance(r.first, s, Urls(r.op))

AskTyped(r) ==
    /\ r \in AskingType
    /\ r.met \cup r.lacked \cup {r.server, r.first} \subseteq Servers(r.op)
    /\ r.attempt <= Attempts(r.op) /\ r.round <= r.op.rounds /\ r.sent <= r.op.sends
    /\ r.op.quiet => r.at # "failed"

\* A call of the clients that nobody disturbed has asked one after the other, and
\* asks the one whose turn it is.
InTurn(r, node, rpc) ==
    /\ \A s \in Servers(r.op) : Ahead(r, s) < r.attempt => s \in r.met
    /\ UnderWay(r) => r.server = IF r.op.to = "rpc" THEN rpc ELSE node
    /\ UnderWay(r) /\ r.attempt <= Urls(r.op) =>
         Ahead(r, r.server) = r.attempt - 1 /\ \A s \in r.lacked : Ahead(r, s) < r.attempt - 1
AskedAround(r) ==
    r.at = "over" /\ r.op.by = "clients" /\ r.how \in {"error", "lacks"} /\ ~r.moved
        => Around(r) \/ \E s, t \in r.lacked : s # t
AskedOne(r) ==
    r.at # "idle" /\ (r.op.quiet \/ r.op.by # "clients") /\ ~(r.op.by \in {"fetcher", "epochs"} /\ r.moved)
        => r.met = {r.first}
AskHolds(r, node, rpc, its) ==
    /\ AskTyped(r)
    /\ r.at # "idle" /\ r.op.by = "clients" /\ ~r.moved => InTurn(r, node, rpc)
    /\ UnderWay(r) /\ r.op.by \in {"fetcher", "epochs"} /\ ~r.moved => r.first = its
    /\ AskedAround(r) /\ AskedOne(r)

ClientPlaces ==
    /\ clientScene \in ClientScenes /\ nodeAt \in 1..Nodes /\ rpcAt \in 1..Rpcs /\ pinned \in 0..Nodes
    /\ clients \in [node : 1..Nodes, rpc : 1..Rpcs] /\ clients.rpc = rpcAt
ClientInv ==
    /\ ClientPlaces /\ DOMAIN asking = Askers /\ asking = [c \in Askers |-> asking[c]]
    /\ \A c \in Askers : AskHolds(asking[c], nodeAt, rpcAt, clients.node)

-----------------------------------------------------------------------------
(* Clients: a turn of a list of URLs.                                        *)

LEMMA DistanceTyped == \A n \in Nat \ {0} : \A i, j \in 1..n : Distance(i, j, n) \in 0..(n - 1)
  BY DEF Distance

LEMMA NextIsOneAhead ==
    \A n \in Nat \ {0} : \A i, j \in 1..n :
        /\ UrlAfter(j, n) \in 1..n
        /\ Distance(i, j, n) + 1 < n => Distance(i, UrlAfter(j, n), n) = Distance(i, j, n) + 1
        /\ \A s \in 1..n : Distance(i, s, n) = Distance(i, j, n) => s = j
  BY DEF Distance, UrlAfter

LEMMA UrlsTyped == \A op : OpOK(op) => Urls(op) \in Nat \ {0} /\ Servers(op) = 1..Urls(op)
  BY CountsTyped DEF Urls, Servers, OpOK, OpType

LEMMA AttemptsTyped == \A op : Attempts(op) \in Nat \ {0}
  <1> SUFFICES ASSUME NEW op PROVE Attempts(op) \in Nat \ {0}
    OBVIOUS
  <1>1. Nodes \in Nat \ {0} /\ Retries \in Nat \ {0}
    BY CountsTyped
  <1>2. Retries * Retries \in Nat \ {0}
    BY <1>1
  <1> QED BY <1>1, <1>2 DEF Attempts

LEMMA PlaceTyped ==
    ASSUME ClientPlaces
    PROVE  /\ nodeAt \in 1..Nodes /\ rpcAt \in 1..Rpcs /\ clients.node \in 1..Nodes /\ clients.rpc = rpcAt
           /\ UrlAfter(nodeAt, Nodes) \in 1..Nodes /\ UrlAfter(rpcAt, Rpcs) \in 1..Rpcs
  BY CountsTyped DEF ClientPlaces, UrlAfter

LEMMA ServerTyped ==
    ASSUME ClientPlaces, NEW op, OpOK(op)
    PROVE  /\ ServerOf(op) \in Servers(op)
           /\ op.by # "pinned" => ServerOf(op) = IF op.to = "rpc" THEN rpcAt ELSE clients.node
           /\ op.by = "pinned" => ServerOf(op) \in 1..Nodes
  BY PlaceTyped, CountsTyped DEF ServerOf, OpOK, OpType, Servers, Urls, ClientPlaces, Clienteles

\* What can be said of a call by its type
LEMMA AskingFields ==
    ASSUME NEW r \in AskingType
    PROVE  /\ r.op \in Operations /\ OpOK(r.op) /\ r.attempt \in Nat \ {0} /\ r.round \in Nat \ {0}
           /\ r.sent \in Nat \ {0} /\ r.part \in Nat \ {0} /\ r.moved \in BOOLEAN
           /\ r.op.quiet \in BOOLEAN /\ r.op.sends \in Nat /\ r.op.rounds \in Nat
           /\ r.op.by # "clients" => r.op.to = "node" /\ ~r.op.quiet
           /\ r.op.ends \subseteq Answers
  BY OperationsOK DEF AskingType, OpOK, OpType

\* Only what a call has met and how far it is count.
LEMMA SameAsking ==
    ASSUME NEW r \in AskingType, NEW x \in AskingType, NEW node, NEW rpc, NEW its, AskHolds(r, node, rpc, its),
           x.op = r.op, x.first = r.first, x.met = r.met, x.server = r.server, x.attempt = r.attempt,
           x.lacked = r.lacked, x.moved = r.moved \/ x.moved, x.round <= x.op.rounds, x.sent <= x.op.sends,
           x.op.quiet => x.at # "failed", r.at # "idle", x.at # "idle", UnderWay(x) => UnderWay(r),
           AskedAround(x)
    PROVE  AskHolds(x, node, rpc, its)
  <1>1. AskTyped(x)
    BY DEF AskHolds, AskTyped
  <1>2. InTurn(r, node, rpc) => InTurn(x, node, rpc)
    BY DEF InTurn, Ahead
  <1>3. AskedOne(x)
    BY DEF AskHolds, AskedOne
  <1> QED BY <1>1, <1>2, <1>3 DEF AskHolds

-----------------------------------------------------------------------------
(* Clients: a call begins, is rotated, and sees others rotate.               *)

LEMMA AskedTyped ==
    ASSUME NEW op \in Operations, NEW attempt \in Nat \ {0}, NEW server \in Servers(op), NEW first \in Servers(op),
           NEW met \in SUBSET Servers(op), NEW lacked \in SUBSET Servers(op), NEW moved \in BOOLEAN,
           attempt <= Attempts(op)
    PROVE  AskTyped(Asked(op, "asked", attempt, server, first, met, lacked, moved, "none"))
  <1> DEFINE x == Asked(op, "asked", attempt, server, first, met, lacked, moved, "none")
  <1>1. OpOK(op) /\ op.rounds \in Nat \ {0} /\ op.sends \in Nat \ {0}
    BY OperationsOK DEF OpOK, OpType
  <1>2. Servers(op) \subseteq Nat \ {0}
    BY <1>1, UrlsTyped
  <1>3. /\ x.op = op /\ x.at = "asked" /\ x.attempt = attempt /\ x.round = 1 /\ x.part = 1 /\ x.sent = 1
        /\ x.server = server /\ x.first = first /\ x.met = met /\ x.lacked = lacked
    BY DEF Asked
  <1>4. x \in AskingType
    BY <1>2 DEF Asked, AskingType
  <1> HIDE DEF x
  <1>5. AskTyped(x)
    BY <1>1, <1>3, <1>4 DEF AskTyped
  <1> QED BY <1>5 DEF x

LEMMA AskedFields ==
    ASSUME NEW op, NEW at, NEW attempt, NEW server, NEW first, NEW met, NEW lacked, NEW moved, NEW how, NEW x,
           x = Asked(op, at, attempt, server, first, met, lacked, moved, how)
    PROVE  /\ x.op = op /\ x.at = at /\ x.attempt = attempt /\ x.server = server /\ x.first = first
           /\ x.met = met /\ x.lacked = lacked /\ x.moved = moved /\ x.how = how
  BY DEF Asked

LEMMA BeginsRight ==
    ASSUME ClientPlaces, NEW op \in Operations, NEW x,
           x = Asked(op, "asked", 1, ServerOf(op), ServerOf(op), {ServerOf(op)}, {},
                     op.by = "clients" /\ op.to = "node" /\ clients.node # nodeAt, "none")
    PROVE  AskHolds(x, nodeAt, rpcAt, clients.node)
  <1>1. OpOK(op) /\ op.to \in {"node", "rpc"}
    BY OperationsOK DEF OpOK, OpType
  <1>2. PICK s : s = ServerOf(op)
    OBVIOUS
  <1>3. s \in Servers(op) /\ (op.by # "pinned" => s = IF op.to = "rpc" THEN rpcAt ELSE clients.node)
    BY <1>1, <1>2, ServerTyped
  <1>4. PICK m \in BOOLEAN : m = (op.by = "clients" /\ op.to = "node" /\ clients.node # nodeAt)
    OBVIOUS
  <1>5. x = Asked(op, "asked", 1, s, s, {s}, {}, m, "none")
    BY <1>2, <1>4
  <1>6. AskTyped(x)
    BY <1>3, <1>5, AskedTyped, AttemptsTyped
  <1>7. /\ x.op = op /\ x.at = "asked" /\ x.attempt = 1 /\ x.server = s /\ x.first = s
        /\ x.met = {s} /\ x.lacked = {} /\ x.moved = m /\ x.how = "none"
    BY <1>5, AskedFields
  <1>8. Urls(op) \in Nat \ {0} /\ Servers(op) = 1..Urls(op)
    BY <1>1, UrlsTyped
  <1>9. ASSUME op.by = "clients", ~m PROVE InTurn(x, nodeAt, rpcAt)
    <2>1. s = IF op.to = "rpc" THEN rpcAt ELSE nodeAt
      BY <1>3, <1>4, <1>9, <1>1
    <2>2. Distance(s, s, Urls(op)) = 0
      BY <1>3, <1>8 DEF Distance
    <2>3. \A t \in Servers(op) : Distance(s, t, Urls(op)) < 1 => t = s
      BY <1>3, <1>8 DEF Distance
    <2> QED BY <1>7, <2>1, <2>2, <2>3 DEF InTurn, Ahead
  <1>10. op.by \in {"fetcher", "epochs"} => s = clients.node
    BY <1>1, <1>3 DEF OpOK
  <1>11. AskedAround(x) /\ AskedOne(x)
    BY <1>7 DEF AskedAround, AskedOne
  <1> QED BY <1>6, <1>7, <1>9, <1>10, <1>11 DEF AskHolds

LEMMA SeesMoving ==
    ASSUME NEW r, NEW node, NEW rpc, NEW its, AskHolds(r, node, rpc, its), NEW node2, NEW rpc2, NEW its2
    PROVE  AskHolds(SeenMoving(r), node2, rpc2, its2)
  <1>1. r \in AskingType
    BY DEF AskHolds, AskTyped
  <1>2. CASE UnderWay(r)
    <2>1. PICK x : x = SeenMoving(r)
      OBVIOUS
    <2>2. /\ x.op = r.op /\ x.at = r.at /\ x.attempt = r.attempt /\ x.server = r.server /\ x.first = r.first
          /\ x.met = r.met /\ x.lacked = r.lacked /\ x.moved /\ x.how = r.how /\ x.round = r.round /\ x.sent = r.sent
      BY <1>1, <1>2, <2>1 DEF SeenMoving, AskingType
    <2>3. x \in AskingType
      BY <1>1, <1>2, <2>1 DEF SeenMoving, AskingType
    <2>4. AskTyped(x)
      BY <2>2, <2>3 DEF AskHolds, AskTyped
    <2>5. AskedAround(x) /\ AskedOne(x)
      BY <1>2, <2>2 DEF AskHolds, AskedAround, AskedOne, UnderWay
    <2> QED BY <2>1, <2>2, <2>4, <2>5 DEF AskHolds
  <1>3. CASE ~UnderWay(r)
    <2>1. SeenMoving(r) = r
      BY <1>3 DEF SeenMoving
    <2>2. InTurn(r, node, rpc) => InTurn(r, node2, rpc2)
      BY <1>3 DEF InTurn
    <2> QED BY <1>3, <2>1, <2>2 DEF AskHolds
  <1> QED BY <1>2, <1>3

LEMMA GivenUpAround ==
    ASSUME NEW r, NEW node, NEW rpc, NEW its, AskHolds(r, node, rpc, its), r.at = "failed", NoMore(r), NEW x,
           x.op = r.op, x.first = r.first, x.met = r.met, x.moved = r.moved, x.how = r.how, x.lacked = Lacking(r)
    PROVE  AskedAround(x)
  <1> SUFFICES ASSUME r.op.by = "clients", r.how \in {"error", "lacks"}, ~r.moved
               PROVE  Around(x) \/ \E s, t \in x.lacked : s # t
    BY DEF AskedAround
  <1>1. r \in AskingType /\ InTurn(r, node, rpc)
    BY DEF AskHolds, AskTyped
  <1>2. PICK n \in Nat \ {0} : n = Urls(r.op) /\ Servers(r.op) = 1..n
    BY <1>1, AskingFields, UrlsTyped
  <1>3. r.first \in 1..n /\ r.server \in 1..n /\ r.attempt \in Nat
    BY <1>1, <1>2, AskingFields DEF AskHolds, AskTyped
  <1>4. \A s \in 1..n : Distance(r.first, s, n) < r.attempt => s \in r.met
    BY <1>1, <1>2 DEF InTurn, Ahead
  <1>5. \A s \in 1..n : Distance(r.first, s, n) \in 0..(n - 1)
    BY <1>3, DistanceTyped
  <1>6. CASE r.attempt = Attempts(r.op)
    <2>1. r.attempt = Nodes
      BY <1>6 DEF Attempts
    <2>2. Around(x)
      BY <1>2, <1>4, <2>1 DEF Around
    <2> QED BY <2>2
  <1>7. CASE r.how = "lacks" /\ r.lacked # {}
    <2>1. CASE r.attempt > n
      <3>1. \A s \in 1..n : s \in r.met
        BY <1>3, <1>4, <1>5, <2>1
      <3>2. Around(x)
        BY <1>2, <3>1 DEF Around
      <3> QED BY <3>2
    <2>2. CASE r.attempt <= n
      <3>1. /\ Distance(r.first, r.server, n) = r.attempt - 1
            /\ \A s \in r.lacked : Distance(r.first, s, n) < r.attempt - 1
        BY <1>1, <1>2, <2>2 DEF InTurn, Ahead, UnderWay
      <3>2. PICK t \in r.lacked : TRUE
        BY <1>7
      <3>3. t # r.server
        BY <3>1, <1>3
      <3>4. x.lacked = r.lacked \cup {r.server}
        BY <1>7 DEF Lacking
      <3> QED BY <3>2, <3>3, <3>4
    <2> QED BY <1>3, <2>1, <2>2
  <1> QED BY <1>6, <1>7 DEF NoMore

LEMMA NextHolds ==
    ASSUME NEW node \in 1..Nodes, NEW rpc \in 1..Rpcs, NEW its, NEW r, AskHolds(r, node, rpc, its),
           r.at = "failed", r.op.by = "clients", ~NoMore(r), NEW its2,
           NEW node2, node2 = UrlAfter(node, Nodes), NEW rpc2, rpc2 = UrlAfter(rpc, Rpcs),
           NEW server, server = IF r.op.to = "rpc" THEN rpc2 ELSE node2, NEW x, x = NextAttempt(r, server)
    PROVE  AskHolds(x, node2, rpc2, its2)
  <1>1. r \in AskingType /\ AskTyped(r) /\ AskedOne(r)
    BY DEF AskHolds, AskTyped
  <1>2. OpOK(r.op) /\ r.op \in Operations /\ r.attempt \in Nat \ {0} /\ r.moved \in BOOLEAN
    BY <1>1, AskingFields
  <1>3. PICK n \in Nat \ {0} : n = Urls(r.op) /\ Servers(r.op) = 1..n
    BY <1>2, UrlsTyped
  <1>4. r.first \in 1..n /\ r.server \in 1..n /\ r.met \subseteq 1..n /\ r.lacked \subseteq 1..n
    BY <1>1, <1>3 DEF AskTyped
  <1>5. node2 \in 1..Nodes /\ rpc2 \in 1..Rpcs
    BY CountsTyped, NextIsOneAhead
  <1>6. server \in 1..n
    BY <1>3, <1>5, <1>2, CountsTyped DEF Urls
  <1>7. r.attempt + 1 <= Attempts(r.op) /\ r.attempt + 1 \in Nat \ {0}
    BY <1>1, <1>2, AttemptsTyped DEF AskTyped, NoMore
  <1>8. PICK met : met = r.met \cup {server}
    OBVIOUS
  <1>9. PICK lacked : lacked = Lacking(r)
    OBVIOUS
  <1>10. lacked \subseteq r.lacked \cup {r.server} /\ met \subseteq 1..n /\ lacked \subseteq 1..n
    BY <1>4, <1>6, <1>8, <1>9 DEF Lacking
  <1>11. x = Asked(r.op, "asked", r.attempt + 1, server, r.first, met, lacked, r.moved, "none")
    BY <1>8, <1>9 DEF NextAttempt
  <1>12. AskTyped(x)
    <2>1. /\ server \in Servers(r.op) /\ r.first \in Servers(r.op)
          /\ met \in SUBSET Servers(r.op) /\ lacked \in SUBSET Servers(r.op)
      BY <1>3, <1>4, <1>6, <1>10
    <2>2. AskTyped(Asked(r.op, "asked", r.attempt + 1, server, r.first, met, lacked, r.moved, "none"))
      BY <2>1, <1>2, <1>7, AskedTyped
    <2> QED BY <2>2, <1>11
  <1>13. /\ x.op = r.op /\ x.at = "asked" /\ x.attempt = r.attempt + 1 /\ x.server = server /\ x.first = r.first
         /\ x.met = met /\ x.lacked = lacked /\ x.moved = r.moved /\ x.how = "none"
    BY <1>11, AskedFields
  <1>14. ~r.op.quiet
    BY <1>1 DEF AskTyped
  <1>15. AskedAround(x) /\ AskedOne(x)
    BY <1>13, <1>14 DEF AskedAround, AskedOne
  <1>16. ASSUME ~r.moved PROVE InTurn(x, node2, rpc2)
    <2>1. InTurn(r, node, rpc) /\ UnderWay(r)
      BY <1>16 DEF AskHolds, UnderWay
    <2>2. \A s \in 1..n : Distance(r.first, s, n) \in 0..(n - 1)
      BY <1>4, DistanceTyped
    <2>3. /\ \A s \in 1..n : Distance(r.first, s, n) < r.attempt => s \in r.met
          /\ r.server = IF r.op.to = "rpc" THEN rpc ELSE node
          /\ r.attempt <= n => /\ Distance(r.first, r.server, n) = r.attempt - 1
                               /\ \A s \in r.lacked : Distance(r.first, s, n) < r.attempt - 1
      BY <1>3, <2>1 DEF InTurn, Ahead
    <2>4. server = UrlAfter(r.server, n)
      BY <1>2, <1>3, <2>3 DEF Urls
    <2>5. r.attempt + 1 <= n => Distance(r.first, server, n) = r.attempt
      <3> SUFFICES ASSUME r.attempt + 1 <= n PROVE Distance(r.first, server, n) = r.attempt
        OBVIOUS
      <3>1. Distance(r.first, r.server, n) = r.attempt - 1
        BY <1>2, <2>3
      <3>2. Distance(r.first, r.server, n) + 1 < n
        BY <1>2, <3>1
      <3>3. Distance(r.first, UrlAfter(r.server, n), n) = Distance(r.first, r.server, n) + 1
        BY <1>4, <3>2, NextIsOneAhead
      <3> QED BY <1>2, <2>4, <3>1, <3>3
    <2>6. \A s \in 1..n : Distance(r.first, s, n) < r.attempt + 1 => s \in met
      <3> SUFFICES ASSUME NEW s \in 1..n, Distance(r.first, s, n) = r.attempt PROVE s = server
        BY <1>2, <1>8, <2>2, <2>3
      <3>1. r.attempt + 1 <= n
        BY <1>2, <2>2
      <3>2. Distance(r.first, s, n) = Distance(r.first, server, n)
        BY <2>5, <3>1
      <3> QED BY ONLY <1>4, <1>6, <3>2, s \in 1..n, NextIsOneAhead
    <2>7. r.attempt + 1 <= n => \A s \in lacked : Distance(r.first, s, n) < r.attempt
      BY <1>2, <1>4, <1>10, <2>2, <2>3
    <2>8. x.server = IF x.op.to = "rpc" THEN rpc2 ELSE node2
      BY <1>13
    <2>9. \A s : Ahead(x, s) = Distance(r.first, s, n)
      BY <1>3, <1>13 DEF Ahead
    <2> QED BY <1>2, <1>3, <1>13, <2>5, <2>6, <2>7, <2>8, <2>9 DEF InTurn
  <1> QED BY <1>12, <1>13, <1>15, <1>16 DEF AskHolds

LEMMA NextByUrlHolds ==
    ASSUME NEW node, NEW rpc, NEW its \in 1..Nodes, NEW r, AskHolds(r, node, rpc, its),
           r.at = "failed", r.op.by \in {"fetcher", "epochs"}, ~NoMore(r), NEW node2, NEW x, x = NextAttempt(r, its)
    PROVE  AskHolds(x, node2, rpc, its)
  <1>1. r \in AskingType /\ AskTyped(r) /\ AskedOne(r)
    BY DEF AskHolds, AskTyped
  <1>2. OpOK(r.op) /\ r.op \in Operations /\ r.op.to = "node" /\ ~r.op.quiet /\ r.attempt \in Nat \ {0} /\ r.moved \in BOOLEAN
    BY <1>1, AskingFields
  <1>3. Servers(r.op) = 1..Nodes
    BY <1>2 DEF Servers, Urls
  <1>4. r.first \in 1..Nodes /\ r.server \in 1..Nodes /\ r.met \subseteq 1..Nodes /\ r.lacked \subseteq 1..Nodes
    BY <1>1, <1>3 DEF AskTyped
  <1>5. r.attempt + 1 <= Attempts(r.op) /\ r.attempt + 1 \in Nat \ {0}
    BY <1>1, <1>2, AttemptsTyped DEF AskTyped, NoMore
  <1>6. PICK met : met = r.met \cup {its}
    OBVIOUS
  <1>7. PICK lacked : lacked = Lacking(r)
    OBVIOUS
  <1>8. met \subseteq 1..Nodes /\ lacked \subseteq 1..Nodes
    BY <1>4, <1>6, <1>7 DEF Lacking
  <1>9. x = Asked(r.op, "asked", r.attempt + 1, its, r.first, met, lacked, r.moved, "none")
    BY <1>6, <1>7 DEF NextAttempt
  <1>10. AskTyped(x)
    BY <1>2, <1>3, <1>4, <1>5, <1>8, <1>9, AskedTyped
  <1>11. /\ x.op = r.op /\ x.at = "asked" /\ x.first = r.first /\ x.met = met /\ x.moved = r.moved /\ x.how = "none"
    BY <1>9, AskedFields
  <1>12. ~r.moved => r.first = its
    BY DEF AskHolds, UnderWay
  <1>13. ~r.moved => met = {r.first}
    BY <1>1, <1>6, <1>12 DEF AskedOne
  <1>14. AskedAround(x) /\ AskedOne(x)
    BY <1>11, <1>13 DEF AskedAround, AskedOne
  <1> QED BY <1>10, <1>11, <1>12, <1>14 DEF AskHolds

-----------------------------------------------------------------------------
(* Clients: every step.                                                      *)

LEMMA AskingAt ==
    ASSUME ClientInv, NEW c \in Askers
    PROVE  AskHolds(asking[c], nodeAt, rpcAt, clients.node) /\ asking[c] \in AskingType
  BY DEF ClientInv, AskHolds, AskTyped

\* One call changes, all else stays.
LEMMA OneCallSteps ==
    ASSUME ClientInv, NEW c \in Askers, NEW x, asking' = [asking EXCEPT ![c] = x],
           UNCHANGED <<clientScene, nodeAt, rpcAt, clients>>, pinned' \in 0..Nodes,
           AskHolds(x, nodeAt, rpcAt, clients.node)
    PROVE  ClientInv'
  <1>1. ClientPlaces'
    BY DEF ClientInv, ClientPlaces
  <1>2. DOMAIN asking' = Askers /\ asking' = [d \in Askers |-> asking'[d]]
    BY DEF ClientInv
  <1>3. \A d \in Askers : asking'[d] = IF d = c THEN x ELSE asking[d]
    BY DEF ClientInv
  <1>4. \A d \in Askers : AskHolds(asking'[d], nodeAt, rpcAt, clients.node)
    BY <1>3 DEF ClientInv
  <1>5. nodeAt' = nodeAt /\ rpcAt' = rpcAt /\ clients'.node = clients.node
    OBVIOUS
  <1> QED BY <1>1, <1>2, <1>4, <1>5 DEF ClientInv

LEMMA SetsSteps ==
    ASSUME ClientInv, NEW c \in Askers, NEW x, SetsAsking(c, x), AskHolds(x, nodeAt, rpcAt, clients.node)
    PROVE  ClientInv'
  <1>1. pinned' \in 0..Nodes
    BY DEF SetsAsking, ClientInv, ClientPlaces
  <1> QED BY <1>1, OneCallSteps DEF SetsAsking

LEMMA BeginSteps ==
    ASSUME ClientInv, NEW c \in Askers, BeginCall(c)
    PROVE  ClientInv'
  <1>1. PICK op \in clientScene.ops :
          /\ asking' = [asking EXCEPT ![c] =
                Asked(op, "asked", 1, ServerOf(op), ServerOf(op), {ServerOf(op)}, {},
                     op.by = "clients" /\ op.to = "node" /\ clients.node # nodeAt, "none")]
          /\ pinned' = IF op.by = "pinned" THEN ServerOf(op) ELSE pinned
    BY DEF BeginCall
  <1>2. op \in Operations /\ ClientPlaces
    BY ClientAssumption DEF ClientInv, ClientPlaces
  <1>3. PICK x : x = Asked(op, "asked", 1, ServerOf(op), ServerOf(op), {ServerOf(op)}, {},
                     op.by = "clients" /\ op.to = "node" /\ clients.node # nodeAt, "none")
    OBVIOUS
  <1>4. AskHolds(x, nodeAt, rpcAt, clients.node)
    BY <1>2, <1>3, BeginsRight
  <1>5. OpOK(op)
    BY <1>2, OperationsOK
  <1>6. pinned' \in 0..Nodes
    BY <1>1, <1>2, <1>5, ServerTyped DEF ClientPlaces
  <1>7. UNCHANGED <<clientScene, nodeAt, rpcAt, clients>>
    BY DEF BeginCall
  <1>8. asking' = [asking EXCEPT ![c] = x]
    BY <1>1, <1>3
  <1> QED BY <1>4, <1>6, <1>7, <1>8, OneCallSteps

\* An answer, another request, and a failed one.
LEMMA AnswerSteps ==
    ASSUME ClientInv, NEW c \in Askers, RequestReturns(c) \/ SendAgain(c) \/ RequestFails(c)
    PROVE  ClientInv'
  <1>1. PICK r : r = asking[c]
    OBVIOUS
  <1>2. /\ r \in AskingType /\ AskHolds(r, nodeAt, rpcAt, clients.node) /\ AskedAround(r)
        /\ r.round <= r.op.rounds /\ r.sent <= r.op.sends /\ (r.op.quiet => r.at # "failed")
    BY <1>1, AskingAt DEF AskHolds, AskTyped
  <1>3. /\ OpOK(r.op) /\ r.op \in Operations /\ r.round \in Nat \ {0} /\ r.sent \in Nat \ {0} /\ r.part \in Nat \ {0}
        /\ r.op.sends \in Nat \ {0} /\ r.op.rounds \in Nat \ {0} /\ r.op.ends \subseteq Answers
    BY <1>2, AskingFields DEF OpOK, OpType
  <1>4. r.at = "asked"
    BY <1>1 DEF RequestReturns, SendAgain, RequestFails
  <1> DEFINE Same(x) ==
        /\ x \in AskingType
        /\ x.op = r.op /\ x.first = r.first /\ x.met = r.met /\ x.server = r.server /\ x.attempt = r.attempt
        /\ x.lacked = r.lacked /\ x.moved = r.moved /\ x.round <= x.op.rounds /\ x.sent <= x.op.sends
        /\ x.op.quiet => x.at # "failed"
        /\ x.at # "idle" /\ (x.at = "over" => x.how \notin {"error", "lacks"})
  <1>5. ASSUME NEW x, Same(x), SetsAsking(c, x) PROVE ClientInv'
    <2>1. UnderWay(r)
      BY <1>4 DEF UnderWay
    <2>2. AskedAround(x)
      BY <1>5 DEF AskedAround
    <2>3. AskHolds(x, nodeAt, rpcAt, clients.node)
      BY <1>2, <1>4, <1>5, <2>1, <2>2, SameAsking
    <2> QED BY <1>5, <2>3, SetsSteps
  <1>6. Same([r EXCEPT !.part = @ + 1, !.sent = 1])
    <2>1. 1 \in Nat \ {0} /\ 1 <= r.op.sends /\ r.part + 1 \in Nat \ {0}
      BY <1>3
    <2>2. PICK p \in Nat \ {0} : p = r.part + 1
      BY <2>1
    <2>3. Same([r EXCEPT !.part = p, !.sent = 1])
      BY <1>2, <1>3, <1>4, <2>1 DEF AskingType
    <2> QED BY <2>2, <2>3
  <1>7. Same(Done(r, "answer")) /\ Same(Done(r, "default"))
    BY <1>2, <1>3, <1>4 DEF AskingType, Done
  <1>8. r.sent < r.op.sends => Same([r EXCEPT !.sent = @ + 1])
    BY <1>2, <1>3, <1>4 DEF AskingType
  <1>9. ASSUME r.round < r.op.rounds PROVE Same([r EXCEPT !.round = @ + 1, !.part = 1, !.sent = 1])
    <2>1. 1 \in Nat \ {0} /\ 1 <= r.op.sends /\ r.round + 1 \in Nat \ {0} /\ r.round + 1 <= r.op.rounds
      BY <1>3, <1>9
    <2>2. PICK n \in Nat \ {0} : n = r.round + 1 /\ n <= r.op.rounds
      BY <2>1
    <2>3. Same([r EXCEPT !.round = n, !.part = 1, !.sent = 1])
      BY <1>2, <1>3, <1>4, <2>1, <2>2 DEF AskingType
    <2> QED BY <2>2, <2>3
  <1>10. ASSUME NEW why \in Answers, ~r.op.quiet PROVE Same([r EXCEPT !.at = "failed", !.how = why])
    BY <1>2, <1>3, <1>4, <1>10 DEF AskingType, Answers
  <1> HIDE DEF Same
  <1>11. CASE RequestReturns(c)
    BY <1>1, <1>5, <1>6, <1>7, <1>11 DEF RequestReturns
  <1>12. CASE SendAgain(c)
    BY <1>1, <1>5, <1>8, <1>12 DEF SendAgain
  <1>13. CASE RequestFails(c)
    <2>1. PICK why \in r.op.ends \cup {"error"} :
            \/ r.round < r.op.rounds /\ SetsAsking(c, [r EXCEPT !.round = @ + 1, !.part = 1, !.sent = 1])
            \/ r.round = r.op.rounds /\ r.op.quiet /\ SetsAsking(c, Done(r, "default"))
            \/ r.round = r.op.rounds /\ ~r.op.quiet /\ SetsAsking(c, [r EXCEPT !.at = "failed", !.how = why])
      BY <1>1, <1>13 DEF RequestFails
    <2>2. why \in Answers
      BY <1>3 DEF Answers
    <2> QED BY <1>5, <1>7, <1>9, <1>10, <2>1, <2>2
  <1> QED BY <1>11, <1>12, <1>13

LEMMA GiveUpSteps ==
    ASSUME ClientInv, NEW c \in Askers, GiveUp(c)
    PROVE  ClientInv'
  <1>1. PICK r : r = asking[c]
    OBVIOUS
  <1>2. r.at = "failed" /\ NoMore(r) /\ SetsAsking(c, [r EXCEPT !.at = "over", !.lacked = Lacking(r)])
    BY <1>1 DEF GiveUp
  <1>3. r \in AskingType /\ AskHolds(r, nodeAt, rpcAt, clients.node) /\ AskTyped(r) /\ AskedOne(r)
    BY <1>1, AskingAt DEF AskHolds
  <1>4. PICK lacked : lacked = Lacking(r)
    OBVIOUS
  <1>5. OpOK(r.op) /\ Servers(r.op) \subseteq Nat \ {0}
    BY <1>3, AskingFields, UrlsTyped
  <1>6. lacked \in SUBSET (Nat \ {0}) /\ lacked \subseteq Servers(r.op)
    BY <1>3, <1>4, <1>5 DEF Lacking, AskTyped
  <1>7. PICK x : x = [r EXCEPT !.at = "over", !.lacked = lacked]
    OBVIOUS
  <1>8. /\ x \in AskingType /\ x.op = r.op /\ x.at = "over" /\ x.attempt = r.attempt /\ x.server = r.server
        /\ x.first = r.first /\ x.met = r.met /\ x.lacked = lacked /\ x.moved = r.moved /\ x.how = r.how
        /\ x.round = r.round /\ x.sent = r.sent
    BY <1>3, <1>6, <1>7 DEF AskingType
  <1>9. AskTyped(x)
    BY <1>3, <1>6, <1>8 DEF AskTyped
  <1>10. InTurn(r, nodeAt, rpcAt) => InTurn(x, nodeAt, rpcAt)
    BY <1>8 DEF InTurn, Ahead, UnderWay
  <1>11. AskedAround(x)
    BY <1>2, <1>3, <1>4, <1>8, GivenUpAround
  <1>12. AskedOne(x)
    BY <1>2, <1>3, <1>8 DEF AskedOne
  <1>13. AskHolds(x, nodeAt, rpcAt, clients.node)
    BY <1>2, <1>3, <1>8, <1>9, <1>10, <1>11, <1>12 DEF AskHolds, UnderWay
  <1> QED BY <1>2, <1>4, <1>7, <1>13, SetsSteps

\* One goes on with the next URL, and all that are under way are moved.
LEMMA GoneOnSteps ==
    ASSUME ClientInv, NEW c \in Askers, NEW server, GoesOnWith(c, server), ClientPlaces',
           AskHolds(NextAttempt(asking[c], server), nodeAt', rpcAt', clients'.node)
    PROVE  ClientInv'
  <1>1. asking' = [d \in Askers |-> IF d = c THEN NextAttempt(asking[c], server) ELSE SeenMoving(asking[d])]
    BY DEF GoesOnWith
  <1>2. DOMAIN asking' = Askers /\ asking' = [d \in Askers |-> asking'[d]]
    BY <1>1
  <1>3. ASSUME NEW d \in Askers PROVE AskHolds(asking'[d], nodeAt', rpcAt', clients'.node)
    <2>1. CASE d = c
      BY <1>1, <2>1
    <2>2. CASE d # c
      <3>1. AskHolds(asking[d], nodeAt, rpcAt, clients.node)
        BY AskingAt
      <3>2. AskHolds(SeenMoving(asking[d]), nodeAt', rpcAt', clients'.node)
        BY <3>1, SeesMoving
      <3> QED BY <1>1, <2>2, <3>2
    <2> QED BY <2>1, <2>2
  <1> QED BY <1>2, <1>3 DEF ClientInv

LEMMA RotateSteps ==
    ASSUME ClientInv, NEW c \in Askers, RotateClients(c)
    PROVE  ClientInv'
  <1>1. PICK r : r = asking[c]
    OBVIOUS
  <1>2. AskHolds(r, nodeAt, rpcAt, clients.node) /\ ClientPlaces
    BY <1>1, AskingAt DEF ClientInv
  <1>3. PICK node2, rpc2 : node2 = UrlAfter(nodeAt, Nodes) /\ rpc2 = UrlAfter(rpcAt, Rpcs)
    OBVIOUS
  <1>4. PICK server : server = IF r.op.to = "rpc" THEN rpc2 ELSE node2
    OBVIOUS
  <1>5. /\ r.at = "failed" /\ r.op.by = "clients" /\ ~NoMore(r)
        /\ nodeAt' = node2 /\ rpcAt' = rpc2 /\ clients' = [node |-> node2, rpc |-> rpc2]
        /\ GoesOnWith(c, server) /\ UNCHANGED <<clientScene, pinned>>
    BY <1>1, <1>3, <1>4 DEF RotateClients
  <1>6. nodeAt \in 1..Nodes /\ rpcAt \in 1..Rpcs /\ node2 \in 1..Nodes /\ rpc2 \in 1..Rpcs
    BY <1>2, <1>3, PlaceTyped
  <1>7. ClientPlaces'
    BY <1>2, <1>5, <1>6 DEF ClientPlaces
  <1>8. PICK x : x = NextAttempt(r, server)
    OBVIOUS
  <1>9. AskHolds(x, node2, rpc2, node2)
    BY <1>2, <1>3, <1>4, <1>5, <1>6, <1>8, NextHolds
  <1>10. clients'.node = node2
    BY <1>5
  <1> QED BY <1>1, <1>5, <1>7, <1>8, <1>9, <1>10, GoneOnSteps

LEMMA RotateUrlSteps ==
    ASSUME ClientInv, NEW c \in Askers, RotateNodeUrl(c)
    PROVE  ClientInv'
  <1>1. PICK r : r = asking[c]
    OBVIOUS
  <1>2. AskHolds(r, nodeAt, rpcAt, clients.node) /\ ClientPlaces /\ r \in AskingType
    BY <1>1, AskingAt DEF ClientInv
  <1>3. r.at = "failed" /\ r.op.by = "fetcher"
    BY <1>1 DEF RotateNodeUrl
  <1>4. CASE SetsAsking(c, Done(r, "error"))
    <2>1. PICK x : x = Done(r, "error")
      OBVIOUS
    <2>2. /\ x \in AskingType /\ x.op = r.op /\ x.at = "over" /\ x.attempt = r.attempt /\ x.server = r.server
          /\ x.first = r.first /\ x.met = r.met /\ x.lacked = r.lacked /\ x.moved = r.moved
          /\ x.round = r.round /\ x.sent = r.sent
      BY <1>2, <2>1 DEF AskingType, Done
    <2>3. AskedAround(x)
      BY <1>3, <2>2 DEF AskedAround
    <2>4. x.round <= x.op.rounds /\ x.sent <= x.op.sends
      BY <1>2, <2>2 DEF AskHolds, AskTyped
    <2>5. AskHolds(x, nodeAt, rpcAt, clients.node)
      BY <1>2, <1>3, <2>2, <2>3, <2>4, SameAsking DEF UnderWay
    <2> QED BY <1>4, <2>1, <2>5, SetsSteps
  <1>5. CASE /\ ~NoMore(r) /\ nodeAt' = UrlAfter(nodeAt, Nodes) /\ GoesOnWith(c, clients.node)
             /\ UNCHANGED <<clientScene, rpcAt, clients, pinned>>
    <2>1. clients.node \in 1..Nodes /\ nodeAt' \in 1..Nodes
      BY <1>2, <1>5, PlaceTyped
    <2>2. ClientPlaces'
      BY <1>2, <1>5, <2>1 DEF ClientPlaces
    <2>3. PICK x : x = NextAttempt(r, clients.node)
      OBVIOUS
    <2>4. PICK node2 : node2 = nodeAt'
      OBVIOUS
    <2>5. AskHolds(x, node2, rpcAt, clients.node)
      BY <1>2, <1>3, <1>5, <2>1, <2>3, NextByUrlHolds
    <2>6. clients'.node = clients.node /\ rpcAt' = rpcAt
      BY <1>5
    <2> QED BY <1>1, <1>5, <2>2, <2>3, <2>4, <2>5, <2>6, GoneOnSteps
  <1> QED BY <1>1, <1>4, <1>5 DEF RotateNodeUrl

LEMMA AskAgainSteps ==
    ASSUME ClientInv, NEW c \in Askers, AskAgain(c)
    PROVE  ClientInv'
  <1>1. PICK r : r = asking[c]
    OBVIOUS
  <1>2. AskHolds(r, nodeAt, rpcAt, clients.node) /\ ClientPlaces
    BY <1>1, AskingAt DEF ClientInv
  <1>3. PICK x : x = NextAttempt(r, clients.node)
    OBVIOUS
  <1>4. r.at = "failed" /\ r.op.by = "epochs" /\ ~NoMore(r) /\ SetsAsking(c, x)
    BY <1>1, <1>3 DEF AskAgain
  <1>5. AskHolds(x, nodeAt, rpcAt, clients.node)
    BY <1>2, <1>3, <1>4, PlaceTyped, NextByUrlHolds
  <1> QED BY <1>4, <1>5, SetsSteps

LEMMA NotAskingHolds == \A node, rpc, its : AskHolds(NotAsking, node, rpc, its)
  <1>1. DistributionParams \in Operations
    BY Zenon DEF Operations
  <1>2. PICK op \in Operations : op = DistributionParams
    BY <1>1
  <1>3. OpOK(op) /\ op.rounds \in Nat \ {0} /\ op.sends \in Nat \ {0}
    BY OperationsOK DEF OpOK, OpType
  <1>4. PICK x : x = Asked(op, "idle", 1, 1, 1, {}, {}, FALSE, "none")
    OBVIOUS
  <1>5. /\ x.op = op /\ x.at = "idle" /\ x.attempt = 1 /\ x.server = 1 /\ x.first = 1 /\ x.met = {} /\ x.lacked = {}
        /\ x.moved = FALSE /\ x.how = "none" /\ x.round = 1 /\ x.sent = 1
    BY <1>4 DEF Asked
  <1>6. x \in AskingType
    BY <1>4 DEF Asked, AskingType
  <1>7. 1 \in Servers(op)
    BY <1>3, UrlsTyped
  <1>8. 1 <= Attempts(op)
    BY AttemptsTyped
  <1>9. AskTyped(x)
    BY <1>3, <1>5, <1>6, <1>7, <1>8 DEF AskTyped
  <1>10. AskedAround(x) /\ AskedOne(x) /\ ~UnderWay(x)
    BY <1>5 DEF AskedAround, AskedOne, UnderWay
  <1>11. \A node, rpc, its : AskHolds(x, node, rpc, its)
    BY <1>5, <1>9, <1>10 DEF AskHolds
  <1> QED BY <1>2, <1>4, <1>11 DEF NotAsking

LEMMA ClientsBegin ==
    ASSUME nodeAt = 1, rpcAt = 1, clients = [node |-> 1, rpc |-> 1], pinned = 0, clientScene \in ClientScenes,
           asking = [c \in Askers |-> NotAsking]
    PROVE  ClientInv
  <1>1. ClientPlaces
    BY CountsTyped DEF ClientPlaces
  <1>2. DOMAIN asking = Askers /\ asking = [c \in Askers |-> asking[c]] /\ \A c \in Askers : asking[c] = NotAsking
    OBVIOUS
  <1> QED BY <1>1, <1>2, NotAskingHolds DEF ClientInv

LEMMA ClientsStart == ClientInit => ClientInv
  BY ClientsBegin DEF ClientInit

LEMMA ClientSteps == ClientInv /\ (ClientNext \/ ClientForgets \/ UNCHANGED clientVars) => ClientInv'
  <1>1. ASSUME ClientInv, UNCHANGED clientVars PROVE ClientInv'
    BY <1>1 DEF clientVars, ClientInv, ClientPlaces
  <1>2. ASSUME ClientInv, ClientForgets PROVE ClientInv'
    <2>1. ClientPlaces'
      BY <1>2, CountsTyped DEF ClientForgets, ClientInv, ClientPlaces
    <2>2. asking' = [c \in Askers |-> NotAsking]
      BY <1>2 DEF ClientForgets
    <2>3. DOMAIN asking' = Askers /\ asking' = [c \in Askers |-> asking'[c]] /\ \A c \in Askers : asking'[c] = NotAsking
      BY <2>2
    <2> QED BY <2>1, <2>3, NotAskingHolds DEF ClientInv
  <1>3. ASSUME ClientInv, ClientNext PROVE ClientInv'
    <2>1. PICK c \in Askers :
            \/ BeginCall(c) \/ RequestReturns(c) \/ SendAgain(c) \/ RequestFails(c) \/ GiveUp(c)
            \/ RotateClients(c) \/ RotateNodeUrl(c) \/ AskAgain(c)
      BY <1>3 DEF ClientNext
    <2> QED BY <1>3, <2>1, BeginSteps, AnswerSteps, GiveUpSteps, RotateSteps, RotateUrlSteps, AskAgainSteps
  <1> QED BY <1>1, <1>2, <1>3

LEMMA ClientsHoldThen == ClientInv => ClientsHold
  <1> SUFFICES ASSUME ClientInv PROVE ClientsHold
    OBVIOUS
  <1>1. \A c \in Askers : /\ asking[c] \in AskingType /\ AskTyped(asking[c])
                          /\ AskedAround(asking[c]) /\ AskedOne(asking[c])
    BY AskingAt DEF AskHolds
  <1>2. asking \in [Askers -> AskingType]
    BY <1>1 DEF ClientInv
  <1>3. ClientTypeOK
    BY <1>1, <1>2 DEF ClientInv, ClientPlaces, ClientTypeOK, AskTyped
  <1>4. AsksAround
    BY <1>1 DEF AsksAround, AskedAround
  <1>5. StaysAtOne
    BY <1>1 DEF StaysAtOne, AskedOne
  <1> QED BY <1>3, <1>4, <1>5 DEF ClientsHold, ClientInv, ClientPlaces

-----------------------------------------------------------------------------
(* The process: a step is one of a component, or a restart, which all share. *)

ApiInv == VoteInv /\ PageInv /\ BlockInv /\ ReadInv /\ ClientInv

LEMMA PartSteps ==
    ASSUME [ApiNext]_apiVars
    PROVE  /\ Works \/ Restart \/ UNCHANGED vars
           /\ PageNext \/ PageForgets \/ UNCHANGED pageVars
           /\ BlockNext \/ BlockForgets \/ UNCHANGED blockVars
           /\ ReadNext \/ Forgets \/ UNCHANGED readVars
           /\ ClientNext \/ ClientForgets \/ UNCHANGED clientVars
           /\ HttpNext \/ HttpForgets \/ UNCHANGED httpVars
  <1>1. CASE UNCHANGED apiVars
    BY <1>1 DEF apiVars
  <1>2. CASE ApiNext
    BY <1>2 DEF ApiNext, ApiRestart
  <1> QED BY <1>1, <1>2

LEMMA ApiStarts == ApiInit => ApiInv
  BY VoteStarts, PagesStart, BlocksStart, ReadsStart, ClientsStart DEF ApiInit, ApiInv

LEMMA ApiSteps == ApiInv /\ [ApiNext]_apiVars => ApiInv'
  BY PartSteps, VoteSteps, PageSteps, BlockSteps, ReadSteps, ClientSteps DEF ApiInv

LEMMA ApiInvHolds == ApiSpec => []ApiInv
  BY ApiStarts, ApiSteps, PTL DEF ApiSpec

\* What the range of a remembered scan promises, and that flags have holders,
\* for every chain, number of requests, batch, retry and bound of the cache
\* (FinalityBlockProcessor.ts:285).
THEOREM RangeKnownHolds == ApiSpec => []RangeKnown
  BY ApiInvHolds, RangeIsKnown, PTL DEF ApiInv

THEOREM CacheHoldsAlways == ApiSpec => []CacheHolds
  BY ApiInvHolds, CacheIsHeld, PTL DEF ApiInv

\* The signers of a height are read once (FinalityBlockProcessor.ts:244).
THEOREM SignersStayHolds == ApiSpec => SignersStay
  <1>1. ApiInv /\ [ApiNext]_apiVars =>
          [\A h \in Heights : HasData(h) => \/ cached'[h] = cached[h] \/ cached'[h] = {}
                                            \/ h \in twice \/ h \in unread]_vars
    BY PartSteps, SignersStep DEF ApiInv
  <1> QED BY <1>1, ApiInvHolds, PTL DEF ApiSpec, SignersStay

\* What a client is given page by page, and as the latest block, for every set of
\* transactions and blocks, times to live and delays of the database
\* (TxRepository.ts:214, BlockService.ts:258).
THEOREM PagesHoldAlways == ApiSpec => []PagesHold
  <1>1. ApiInv => PagesHold
    BY TxPagesAreHeld, BlocksHold DEF ApiInv, PagesHold
  <1> QED BY <1>1, ApiInvHolds, PTL

\* What errors and restarts leave of both caches, their ranges, flags and promises,
\* for every set of callers and number of fetches (FinalityBlockProcessor.ts:285,
\* FinalityProviderService.ts:84).
THEOREM ApiHoldsAlways == ApiSpec => []ApiHolds
  <1>1. ApiInv => ApiHolds
    BY RangeIsKnown, CacheIsHeld, ReadsHoldThen DEF ApiInv, ApiHolds
  <1> QED BY <1>1, ApiInvHolds, PTL

\* No reader gets what is older than its time to live and a fetch, and those of
\* what it was made from, whatever fails (FinalityProviderService.ts:98).
THEOREM AnswersAreRecentHolds == ApiSpec => []AnswersAreRecent
  <1>1. ApiInv => AnswersAreRecent
    BY AnswersRecentThen DEF ApiInv
  <1> QED BY <1>1, ApiInvHolds, PTL

\* While a user waits, something other than another wait is due: the fetches
\* never wait for each other in a circle (BSNConsumerService.ts:146).
THEOREM ReadsGoOnHolds == ApiSpec => []ReadsGoOn
  <1>1. ApiInv => ReadsGoOn
    BY ReadsGoOnThen DEF ApiInv
  <1> QED BY <1>1, ApiInvHolds, PTL

\* Of the keys fetched by one at a time, what replaces an entry was begun after
\* that entry had been fetched, whatever fails (FinalityProviderService.ts:84).
THEOREM EntriesFollowHolds == ApiSpec => EntriesFollow
  <1>1. ApiInv /\ [ApiNext]_apiVars => [\A k \in Keys : Shared(k) => Follows(k)]_readVars
    BY PartSteps, FollowsThen DEF ApiInv
  <1> QED BY <1>1, ApiInvHolds, PTL DEF ApiSpec, EntriesFollow

\* A call of the clients that gives up has asked one server after another, whatever
\* else rotates, and nobody else ever asks a second one, for every number of URLs,
\* retries and callers (BabylonClient.ts:306, BLSCheckpointFetcher.ts:215).
THEOREM ClientsHoldAlways == ApiSpec => []ClientsHold
  <1>1. ApiInv => ClientsHold
    BY ClientsHoldThen DEF ApiInv
  <1> QED BY <1>1, ApiInvHolds, PTL

\* What the process does for HTTP is what HttpApi says of it, so that what EdgeProofs
\* proves of HttpSpec holds of the process.
THEOREM ServesHttp == ApiSpec => HttpSpec
  <1>1. ApiInit => HttpInit
    BY DEF ApiInit
  <1>2. [ApiNext]_apiVars => [HttpNext \/ HttpForgets]_httpVars
    BY PartSteps
  <1> QED BY <1>1, <1>2, PTL DEF ApiSpec, HttpSpec
==============================================================================
