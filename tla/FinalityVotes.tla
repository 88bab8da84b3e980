--------------------------- MODULE FinalityVotes ---------------------------
(***************************************************************************)
(* The finality votes the API reports on.  A request for statistics looks  *)
(* for heights of its range without votes, fetches them side by side in    *)
(* batches, each with retries, and remembers the range for a minute.       *)
(* Ranges, heights and attempts are guarded by flags of their own.         *)
(***************************************************************************)
EXTENDS Integers, Sequences, FiniteSets, FiniteSetsExt

CONSTANTS
    Providers, Requests,
    MaxHeight,      \* the chain grows to it at most
    LastN,          \* DEFAULT_LAST_N_BLOCKS, also the interval of ranges
    MaxRetries, BatchSize, MaxCache, MinKeep,
    Scenes          \* what may happen: [by, asks, voters, tip, top, faults]

Heights == 0..MaxHeight
Ranges == Heights \X Heights

ASSUME FinalityAssumption ==
    /\ MaxHeight \in Nat /\ LastN \in Nat \ {0} /\ MaxRetries \in Nat
    /\ BatchSize \in Nat \ {0} /\ MaxCache \in Nat /\ MinKeep \in 0..MaxCache
    /\ \A s \in Scenes : /\ s.by \subseteq Requests /\ s.top \in Heights /\ s.tip \in 0..s.top
                         /\ s.asks \subseteq (Nat \X Nat)
                         /\ s.voters \subseteq Providers \X Heights /\ s.faults \in Nat

VARIABLES
    scene, faults,
    tip,            \* height of the chain
    votes,          \* votes[h]: providers whose vote for h is on the chain
    cached,         \* signatureCache: signers of h, {} for no data
    redis,          \* what Redis keeps of it
    unread,         \* heights that the load at start has still to read
    locks,          \* requestLocks: <<height, attempt>>
    processing,     \* processingBlocks
    busy,           \* processingRanges
    remembered,     \* globalProcessedRanges, with the height of their scan
    req,            \* req[q]: a request, its range and heights to fetch
    call,           \* call[q][h]: the fetch of h for q
    given,          \* history: heights a fetch ended without, or cleanup dropped
    twice           \* history: heights that two calls, or one and the load, brought

boundVars == <<scene, faults>>
chainVars == <<tip, votes>>
flagVars == <<locks, processing>>
rangeVars == <<busy, remembered>>
historyVars == <<given, twice>>
vars == <<boundVars, chainVars, cached, redis, unread, flagVars, rangeVars, req, call, historyVars>>

NoReq == [at |-> "none", range |-> <<0, 0>>, missing |-> {}, seen |-> 0]
NoCall == [at |-> "none", try |-> 0, votes |-> {}]
NoCalls == [q \in Requests |-> [h \in Heights |-> NoCall]]

Init ==
    /\ scene \in Scenes /\ faults = scene.faults
    /\ tip = scene.tip /\ votes = [h \in Heights |-> {}]
    /\ cached = [h \in Heights |-> {}] /\ redis = cached /\ unread = {}
    /\ locks = {} /\ processing = {} /\ busy = {} /\ remembered = {}
    /\ req = [q \in Requests |-> NoReq] /\ call = NoCalls
    /\ given = {} /\ twice = {}

Fault == faults > 0 /\ faults' = faults - 1 /\ UNCHANGED scene
InFlight(h) == \E q \in Requests : call[q][h].at # "none"

-----------------------------------------------------------------------------
NewBlock ==
    /\ tip < scene.top /\ tip' = tip + 1
    /\ UNCHANGED <<boundVars, votes, cached, redis, unread, flagVars, rangeVars, req, call, historyVars>>

Vote(p, h) ==
    /\ <<p, h>> \in scene.voters /\ h <= tip /\ p \notin votes[h]
    /\ votes' = [votes EXCEPT ![h] = @ \cup {p}]
    /\ UNCHANGED <<boundVars, tip, cached, redis, unread, flagVars, rangeVars, req, call, historyVars>>

-----------------------------------------------------------------------------
\* The entry of fetchAndCacheSignatures, up to its first await: nothing if h
\* has data, or if the same attempt runs already.
HasData(h) == cached[h] # {}
\* Mutant: a height is fetched again though it has data
EntersAnyway(h, try, held) == <<h, try>> \notin held

Enters(h, try, held) == ~HasData(h) /\ <<h, try>> \notin held

Entered(h, try) == [at |-> "height", try |-> try, votes |-> {}]

\* Mutant: the flag of the height stays
ReleasedLock(h, try) == locks' = locks \ {<<h, try>>} /\ UNCHANGED processing

\* What finally releases of an attempt
Released(h, try) ==
    /\ locks' = locks \ {<<h, try>>} /\ processing' = processing \ {h}

Ends(q, h) ==
    /\ call' = [call EXCEPT ![q][h] = NoCall]
    /\ Released(h, call[q][h].try)

-----------------------------------------------------------------------------
\* normalizeRange, on the part of the request that getSignatureStats fetches
Ceiling(n) == LastN * ((n + LastN - 1) \div LastN)
Span(ask) ==
    LET end == IF ask[2] = 0 THEN tip - 2 ELSE Min({ask[2], tip - 2})
        start == Max({1, IF ask[1] = 0 THEN end - LastN + 1 ELSE ask[1]})
        from == Max({start, end - LastN + 1})
    IN <<LastN * (from \div LastN), Ceiling(end)>>

\* Mutant: the last height of the range is left out
MissingBefore(range) ==
    {h \in Heights : /\ range[1] <= h /\ h < range[2]
                     /\ ~HasData(h) /\ h \notin processing /\ tip > h + 2}

\* Heights to fetch: without data, not being fetched, old enough
Missing(range) ==
    {h \in Heights : /\ range[1] <= h /\ h <= range[2]
                     /\ ~HasData(h) /\ h \notin processing /\ tip > h + 2}

Batch(hs) == {h \in hs : Cardinality({i \in hs : i <= h}) <= BatchSize}

\* Each of a batch is entered in turn; nothing else runs between them.
StartBatch(q, hs) ==
    LET batch == Batch(hs)
        in == {h \in batch : Enters(h, 0, locks)}
    IN /\ locks' = locks \cup {<<h, 0>> : h \in in}
       /\ processing' = processing \cup in
       /\ call' = [call EXCEPT ![q] = [h \in Heights |->
                      IF h \in in THEN Entered(h, 0) ELSE NoCall]]
       /\ twice' = twice \cup {h \in in : InFlight(h)}

\* A request: answered from what is there if its range was fetched within the
\* minute, or is being fetched.  0 stands for a parameter that is not given.
Ask(q, ask) ==
    /\ req[q].at = "none" /\ q \in scene.by /\ ask \in scene.asks
    /\ tip \in 3..(scene.top - 1)
    /\ LET range == Span(ask) IN
       IF range \in busy \/ \E r \in remembered : r.range = range
       THEN /\ req' = [req EXCEPT ![q] = [NoReq EXCEPT !.at = "stats"]]
            /\ UNCHANGED <<flagVars, busy, call, twice>>
       ELSE /\ busy' = busy \cup {range}
            /\ req' = [req EXCEPT ![q] = [at |-> "fetch", range |-> range, seen |-> tip,
                          missing |-> Missing(range) \ Batch(Missing(range))]]
            /\ StartBatch(q, Missing(range))
    /\ UNCHANGED <<boundVars, chainVars, cached, redis, unread, remembered, given>>

BatchDone(q) == req[q].at = "fetch" /\ \A h \in Heights : call[q][h].at = "none"

NextBatch(q) ==
    /\ BatchDone(q) /\ req[q].missing # {}
    /\ StartBatch(q, req[q].missing)
    /\ req' = [req EXCEPT ![q].missing = @ \ Batch(@)]
    /\ UNCHANGED <<boundVars, chainVars, cached, redis, unread, rangeVars, given>>

\* The range is remembered, whatever its fetches ended with.
FinishRange(q) ==
    /\ BatchDone(q) /\ req[q].missing = {}
    /\ remembered' = {r \in remembered : r.range # req[q].range}
                        \cup {[range |-> req[q].range, seen |-> req[q].seen]}
    /\ busy' = busy \ {req[q].range}
    /\ req' = [req EXCEPT ![q].at = "stats"]
    /\ UNCHANGED <<boundVars, chainVars, cached, redis, unread, flagVars, call, historyVars>>

Answer(q) ==
    /\ req[q].at = "stats" /\ req' = [req EXCEPT ![q] = NoReq]
    /\ UNCHANGED <<boundVars, chainVars, cached, redis, unread, flagVars, rangeVars, call, historyVars>>

ExpireRange(r) ==
    /\ r \in remembered /\ remembered' = remembered \ {r}
    /\ UNCHANGED <<boundVars, chainVars, cached, redis, unread, flagVars, busy, req, call, historyVars>>

-----------------------------------------------------------------------------
\* One attempt: the height of the chain, the votes, what they are taken for.
Goes(q, h, at) == call' = [call EXCEPT ![q][h].at = at]

\* Before each wait the lock goes, the flag of the height stays.
Waits(q, h, at) == Goes(q, h, at) /\ locks' = locks \ {<<h, call[q][h].try>>} /\ UNCHANGED processing

ReadHeight(q, h) ==
    /\ call[q][h].at = "height"
    /\ IF tip <= h + 3 THEN Waits(q, h, "recent") ELSE Goes(q, h, "votes") /\ UNCHANGED flagVars
    /\ UNCHANGED <<boundVars, chainVars, cached, redis, unread, rangeVars, req, historyVars>>

ReadVotes(q, h) ==
    /\ call[q][h].at = "votes"
    /\ call' = [call EXCEPT ![q][h].at = "taken", ![q][h].votes = votes[h]]
    /\ UNCHANGED <<boundVars, chainVars, cached, redis, unread, flagVars, rangeVars, req, historyVars>>

TakeVotes(q, h) ==
    /\ call[q][h].at = "taken"
    /\ LET c == call[q][h] IN
       \/ /\ c.votes # {}
          /\ cached' = [cached EXCEPT ![h] = c.votes]
          /\ Goes(q, h, "save") /\ UNCHANGED <<flagVars, given>>
       \/ /\ c.votes = {} /\ c.try < MaxRetries /\ ~HasData(h)
          /\ Waits(q, h, "sleep") /\ UNCHANGED <<cached, given>>
       \/ /\ c.votes = {} /\ (c.try = MaxRetries \/ HasData(h))
          /\ Ends(q, h)
          /\ given' = given \cup {h} /\ UNCHANGED cached
    /\ UNCHANGED <<boundVars, chainVars, redis, unread, rangeVars, req, twice>>

\* Redis, then the cleanup of a cache that has grown too large.
Newest(hs) == {h \in hs : Cardinality({i \in hs : i > h}) < MinKeep}
SaveVotes(q, h) ==
    /\ call[q][h].at = "save"
    /\ redis' \in {redis, [redis EXCEPT ![h] = call[q][h].votes]}
    /\ LET all == {i \in Heights : HasData(i)}
           kept == IF Cardinality(all) > MaxCache THEN Newest(all) ELSE all
       IN /\ cached' = [i \in Heights |-> IF i \in kept THEN cached[i] ELSE {}]
          /\ given' = given \cup (all \ kept)
    /\ IF call[q][h].try < MaxRetries THEN Waits(q, h, "sleep") ELSE Ends(q, h)
    /\ UNCHANGED <<boundVars, chainVars, unread, rangeVars, req, twice>>

\* Mutant: attempts are not counted
SameTry(q, h) == call[q][h].try

NextTry(q, h) == IF call[q][h].at = "sleep" THEN call[q][h].try + 1 ELSE call[q][h].try

\* The timer of a wait.  The next attempt is returned, not awaited: finally
\* releases what the waiting one held as soon as the next has started.
TryAgain(q, h) ==
    /\ call[q][h].at \in {"recent", "sleep"}
    /\ LET try == call[q][h].try
           next == NextTry(q, h)
           in == Enters(h, next, locks)
       IN /\ call' = [call EXCEPT ![q][h] = IF in THEN Entered(h, next) ELSE NoCall]
          /\ locks' = (IF in THEN locks \cup {<<h, next>>} ELSE locks) \ {<<h, try>>}
          /\ processing' = processing \ {h}
    /\ UNCHANGED <<boundVars, chainVars, cached, redis, unread, rangeVars, req, historyVars>>

\* A height the node does not tell is taken as 0, so too recent; votes it does
\* not tell are taken as none.  An error of Redis is another attempt, unless the
\* height has data by now or the attempts are used up.
CallFails(q, h) ==
    /\ Fault
    /\ \/ call[q][h].at = "height" /\ Waits(q, h, "recent") /\ UNCHANGED given
       \/ call[q][h].at = "votes" /\ Goes(q, h, "taken") /\ UNCHANGED <<flagVars, given>>
       \/ /\ call[q][h].at = "save" /\ call[q][h].try < MaxRetries /\ ~HasData(h)
          /\ Waits(q, h, "sleep") /\ UNCHANGED given
       \/ /\ call[q][h].at = "save" /\ (call[q][h].try = MaxRetries \/ HasData(h))
          /\ Ends(q, h) /\ given' = given \cup {h}
    /\ UNCHANGED <<chainVars, cached, redis, unread, rangeVars, req, twice>>

-----------------------------------------------------------------------------
\* The process starts anew and loads what Redis has, beside the first requests.
Restart ==
    /\ Fault
    /\ cached' = [h \in Heights |-> {}] /\ unread' = {h \in Heights : redis[h] # {}}
    /\ locks' = {} /\ processing' = {} /\ busy' = {} /\ remembered' = {}
    /\ req' = [q \in Requests |-> NoReq] /\ call' = NoCalls
    /\ given' = {} /\ twice' = {}
    /\ UNCHANGED <<chainVars, redis>>

Load(h) ==
    /\ h \in unread /\ unread' = unread \ {h}
    /\ cached' = [cached EXCEPT ![h] = redis[h]]
    /\ twice' = IF InFlight(h) THEN twice \cup {h} ELSE twice
    /\ UNCHANGED <<boundVars, chainVars, redis, flagVars, rangeVars, req, call, given>>

-----------------------------------------------------------------------------
CallStep(q, h) ==
    ReadHeight(q, h) \/ ReadVotes(q, h) \/ TakeVotes(q, h) \/ SaveVotes(q, h) \/ TryAgain(q, h)

Serves(q) ==
    \/ NextBatch(q) \/ FinishRange(q) \/ Answer(q)
    \/ \E h \in Heights : CallStep(q, h)

Works ==
    \/ NewBlock
    \/ \E p \in Providers, h \in Heights : Vote(p, h)
    \/ \E h \in Heights : Load(h)
    \/ \E r \in remembered : ExpireRange(r)
    \/ \E q \in Requests : \/ Serves(q)
                           \/ \E ask \in scene.asks : Ask(q, ask)
                           \/ \E h \in Heights : CallFails(q, h)

Next == Works \/ Restart
Spec == Init /\ [][Next]_vars

-----------------------------------------------------------------------------
TypeOK ==
    /\ scene \in Scenes /\ faults \in 0..scene.faults /\ tip \in Heights
    /\ votes \in [Heights -> SUBSET Providers]
    /\ cached \in [Heights -> SUBSET Providers] /\ redis \in [Heights -> SUBSET Providers]
    /\ unread \subseteq Heights /\ processing \subseteq Heights
    /\ locks \subseteq Heights \X (0..MaxRetries)
    /\ given \subseteq Heights /\ twice \subseteq Heights
    /\ call \in [Requests -> [Heights -> [try : 0..MaxRetries, votes : SUBSET Providers,
          at : {"none", "height", "votes", "taken", "save", "recent", "sleep"}]]]

\* A range remembered as fetched has, of every height that was old enough at
\* its scan, the votes, unless a fetch of it goes on, ended without any, or
\* cleanup dropped it (FinalitySignatureService.ts:155).
RangeKnown ==
    \A r \in remembered : \A h \in r.range[1]..r.range[2] :
        h + 2 < r.seen => HasData(h) \/ InFlight(h) \/ h \in given

\* Flags have holders: a height in processing is being fetched, a lock is of
\* an attempt under way, a range in processing is some request's
\* (FinalityBlockProcessor.ts:285).
FlagsHeld ==
    /\ \A h \in processing : InFlight(h)
    /\ \A l \in locks : \E q \in Requests : call[q][l[1]].at # "none" /\ call[q][l[1]].try = l[2]
    /\ \A range \in busy : \E q \in Requests : req[q].at = "fetch" /\ req[q].range = range

\* What errors and restarts leave of the cache and its flags.
CacheHolds == TypeOK /\ FlagsHeld

\* The signers of a height are read once: later votes are not added, although
\* attempts go on after a success, unless two calls, or a call and the load at
\* start, brought them at the same time, or cleanup dropped them
\* (FinalityBlockProcessor.ts:244).
SignersStay ==
    [][\A h \in Heights : HasData(h) =>
          \/ cached'[h] = cached[h] \/ cached'[h] = {}
          \/ h \in twice \/ h \in unread]_vars

\* A request is answered, if the chain goes on (FinalitySignatureService.ts:177).
Answered == \A q \in Requests : (req[q].at # "none") ~> (req[q].at = "none")
=============================================================================
