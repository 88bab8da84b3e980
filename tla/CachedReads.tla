---------------------------- MODULE CachedReads ----------------------------
(***************************************************************************)
(* The answers the API keeps in Redis.  Four services share one protocol:  *)
(* an entry with a time to live and a map of the fetches under way, which  *)
(* later readers join.  Others get and set without such a map.  Fetches    *)
(* read other entries: their ages add up, and their errors spread or turn  *)
(* into defaults.  Time is in ticks of the usual time to live, 5 minutes.  *)
(***************************************************************************)
EXTENDS Integers, Sequences, FiniteSets, FiniteSetsExt

CONSTANTS
    Users,          \* callers of the API: numbers above MaxFetches
    MaxFetches,     \* fetches at once
    Lag,            \* ticks in which a fetch has its answers
    ReadScenes      \* what may happen: [asks, auto, budget, upto, mishaps]

Fetches == 1..MaxFetches

-----------------------------------------------------------------------------
\* What a fetch does, stage by stage: requests of its own, to the node or the
\* database, and beside them reads of other keys.  An error ends the fetch
\* unless the stage is lenient; a stage that is enough ends it with success.
Own == [own |-> TRUE, reads |-> <<>>, lenient |-> FALSE, enough |-> FALSE]
With(key) == [Own EXCEPT !.reads = <<key>>]
Reads(keys) == [Own EXCEPT !.own = FALSE, !.reads = keys]
Lenient(stage) == [stage EXCEPT !.lenient = TRUE]
Enough(stage) == [stage EXCEPT !.enough = TRUE]

\* An error of a strict fetch reaches its readers; a lax one caches a default.
Strict(stages, ttl) ==
    [stages |-> stages, ttl |-> ttl, error |-> "throw", shared |-> TRUE, early |-> FALSE]
Lax(stages, ttl) == [Strict(stages, ttl) EXCEPT !.error = "default"]
\* Nobody joins a plain one; an answering one has a default it does not cache.
Plain(plan) == [plan EXCEPT !.shared = FALSE]
Answering(plan) == [plan EXCEPT !.error = "answer"]

\* Finality providers.  Those that are active (of a BSN too) and the total power are asked for at the
\* height of the chain; an error there is height 0 (BlockClient.ts:58), whose providers are none.
Height == Lenient(Own)
BsnProviders == Strict(<<Height, Own>>, 1)
ActiveProviders == Strict(<<Height, Own>>, 1)
AllProviders == Strict(<<Own>>, 1)
TotalPower == Strict(<<Height, Own>>, 1)
ProviderDetails == Strict(<<With("fpActive")>>, 1)
ProviderPower == Strict(<<With("totalPower")>>, 1)
DelegationStats == Lax(<<Own>>, 1)
AllDelegationStats == Lax(<<Own>>, 1)

\* Consumers
ConsumerParams == Strict(<<Own>>, 2)
\* Mutant: whether a consumer is active is asked of the concierge
ListByConcierge == Strict(<<Own, Lenient(Reads(<<"zcAll">>))>>, 1)
ConsumerList == Strict(<<Own, Lenient(Own)>>, 1)
ConsumerRegistry == Strict(<<Own, Lenient(Own)>>, 1)
TypeCounts == Strict(<<Reads(<<"bsnList">>)>>, 1)

\* The zone concierge
ConciergeParams == Strict(<<Own>>, 2)
Finalized == Strict(<<Own>>, 1)
AllFinalized == Lax(<<Reads(<<"bsnList100">>), Lenient(Reads(<<"zcFinalized">>))>>, 1)
FinalizedByIds == Strict(<<Reads(<<"zcFinalized">>)>>, 1)
FinalizationStatus == Lax(<<Reads(<<"zcFinalized">>)>>, 1)
CurrentEpoch == Lax(<<Enough(Own), Reads(<<"bsnList10">>), Lenient(Reads(<<"zcFinalized">>))>>, 1)
ProvidersOfBsn == Lax(<<Reads(<<"fpBsn">>)>>, 1)

\* Rewards, and the statistics that a timer refreshes
Rewards == Strict(<<Own>>, 1)
RewardsSummary ==
    Answering(Plain(Strict(<<Reads(<<"fpActive">>), Lenient(Reads(<<"rewards">>))>>, 2)))
OverallStats ==
    [Strict(<<Own, Reads(<<"fpAll", "fpActive">>), Own>>, 1) EXCEPT !.early = TRUE]

\* Parameters and points: 3 ticks stand for their hours
AllParams == Plain(Strict(<<Own, Own>>, 3))
Points == Answering(Plain(Strict(<<Own>>, 3)))
PointsUpdate == Plain(Strict(<<Own, Reads(<<"dbProviders">>), Own>>, 3))

\* Queries of the database
QueriedProvider == Plain(Strict(<<Own>>, 1))
QueriedProviders == Plain(Strict(<<Own>>, 1))
QueriedTop == Plain(Strict(<<Own>>, 1))
QueriedGroups == Plain(Strict(<<Own>>, 1))
QueriedStaker == Plain(Strict(<<Own>>, 1))
QueriedStakers == Plain(Strict(<<Own>>, 1))

\* A key stands for those of its form with the same parameters.
Plans == [
    fpBsn |-> BsnProviders, fpActive |-> ActiveProviders, fpAll |-> AllProviders,
    totalPower |-> TotalPower, fpDetails |-> ProviderDetails, fpPower |-> ProviderPower,
    fpDelegations |-> DelegationStats, allDelegations |-> AllDelegationStats,
    bsnParams |-> ConsumerParams, bsnList |-> ConsumerList, bsnList10 |-> ConsumerList,
    bsnList100 |-> ConsumerList, bsnRegistry |-> ConsumerRegistry, bsnTypes |-> TypeCounts,
    zcParams |-> ConciergeParams, zcFinalized |-> Finalized, zcAll |-> AllFinalized,
    zcByIds |-> FinalizedByIds, zcStatus |-> FinalizationStatus, zcEpoch |-> CurrentEpoch,
    zcProviders |-> ProvidersOfBsn, rewards |-> Rewards, rewardsSummary |-> RewardsSummary,
    stats |-> OverallStats, params |-> AllParams, points |-> Points,
    pointsUpdate |-> PointsUpdate, dbProvider |-> QueriedProvider,
    dbProviders |-> QueriedProviders, dbTop |-> QueriedTop, dbGroups |-> QueriedGroups,
    dbStaker |-> QueriedStaker, dbStakers |-> QueriedStakers]

Keys == DOMAIN Plans
Stage(k, n) == Plans[k].stages[n]
ReadBy(s) == {s.reads[i] : i \in DOMAIN s.reads}
SourcesOf(k) == UNION {ReadBy(Stage(k, n)) : n \in DOMAIN Plans[k].stages}
\* The key under which a fetch stores its result, and the fetches that do
StoredAs(k) == IF k = "pointsUpdate" THEN "points" ELSE k
Makers(k) == {j \in Keys : StoredAs(j) = k}
\* What is read, and what timers refresh
Readable == {k \in Keys : StoredAs(k) = k}
Timed == {"stats", "pointsUpdate"}

ASSUME ReadAssumption ==
    /\ MaxFetches \in Nat \ {0} /\ Lag \in Nat \ {0}
    /\ Users \subseteq Nat /\ \A u \in Users : u > MaxFetches
    /\ \A s \in ReadScenes :
          /\ s.asks \subseteq Readable /\ s.auto \subseteq Timed
          /\ s.budget \in Nat /\ s.upto \in Nat \ {0} /\ s.mishaps \in Nat

-----------------------------------------------------------------------------
VARIABLES
    readScene, mishaps, asked,
    now,            \* ticks
    entries,        \* what Redis has
    wire,           \* commands on the connection to Redis, answered in order
    flight,         \* revalidationPromises and refreshPromises: the fetch, or 0
    fetches,        \* fetches under way
    readers,        \* reads of a user or a fetch; on: the fetch awaited, 0 for Redis
    replies         \* results about to resume who awaits them

readBounds == <<readScene, mishaps, asked>>
readVars == <<readBounds, now, entries, wire, flight, fetches, readers, replies>>

Nothing == [asOf |-> 0, whole |-> TRUE, fetched |-> 0, until |-> 0]
NoFetch == [key |-> "none", at |-> "idle", stage |-> 0, left |-> {}, whole |-> TRUE,
            asOf |-> 0, began |-> 0, done |-> 0, by |-> 0]

ReadInit ==
    /\ readScene \in ReadScenes /\ mishaps = readScene.mishaps /\ asked = 0
    /\ now = 1 /\ entries = [k \in Keys |-> Nothing] /\ wire = <<>>
    /\ flight = [k \in Keys |-> 0] /\ fetches = [f \in Fetches |-> NoFetch]
    /\ readers = {} /\ replies = {}

Mishap == mishaps > 0 /\ mishaps' = mishaps - 1 /\ UNCHANGED <<readScene, asked>>
Asks == asked < readScene.budget /\ asked' = asked + 1 /\ UNCHANGED <<readScene, mishaps>>
\* What awaits a result runs before anything else.
Idle == replies = {}

-----------------------------------------------------------------------------
Pieces(s) == ReadBy(s) \cup (IF s.own THEN {"own"} ELSE {})
Gets(f, s) == [i \in DOMAIN s.reads |-> [op |-> "get", by |-> f, key |-> s.reads[i]]]
Asking(f, s) == {[by |-> f, key |-> k, on |-> 0] : k \in ReadBy(s)}
Waiting(f) == {r \in readers : r.on = f}
Told(who, ok, r) == {[to |-> w.by, key |-> w.key, ok |-> ok, whole |-> r.whole, asOf |-> r.asOf] : w \in who}
\* A fetch that failed is unused once its reads have ended; MaxFetches is a bound.
AllUnused == {f \in Fetches : fetches[f] = NoFetch /\ \A r \in readers : r.by # f}
Unused == Min(AllUnused)

\* fetchAndCache begins: the map has it from now on.
Starts(f, k, by, queue, rs) ==
    /\ AllUnused # {}
    /\ fetches' = [fetches EXCEPT ![f] = [key |-> k, at |-> "work", stage |-> 1, left |-> Pieces(Stage(k, 1)),
                      whole |-> TRUE, asOf |-> now, began |-> now, done |-> 0, by |-> by]]
    /\ wire' = queue \o Gets(f, Stage(k, 1)) /\ readers' = rs \cup Asking(f, Stage(k, 1))
    /\ flight' = IF Plans[k].shared THEN [flight EXCEPT ![k] = f] ELSE flight

\* The fetch is over; who awaits it hears of it.
Over(f, ok, r, rest) ==
    /\ fetches' = [fetches EXCEPT ![f] = NoFetch]
    /\ flight' = [k \in Keys |-> IF flight[k] = f THEN 0 ELSE flight[k]]
    /\ readers' = readers \ Waiting(f) /\ replies' = rest \cup Told(Waiting(f), ok, r)

\* The result goes to Redis; of statistics, the others hear at once.
Stores(f, r, rest) ==
    LET told == {w \in Waiting(f) : Plans[r.key].early /\ w.by # r.by} IN
    /\ fetches' = [fetches EXCEPT ![f] = [r EXCEPT !.at = "store", !.left = {}, !.done = now]]
    /\ wire' = Append(wire, [op |-> "set", by |-> f, key |-> r.key])
    /\ readers' = readers \ told /\ replies' = rest \cup Told(told, TRUE, r)
    /\ UNCHANGED flight

\* r is fetch f without a piece that has come.
Advances(f, r, last, rest) ==
    LET stages == Plans[r.key].stages
        next == stages[r.stage + 1]
    IN  \/ /\ r.left # {} /\ fetches' = [fetches EXCEPT ![f] = r] /\ replies' = rest
           /\ UNCHANGED <<wire, readers, flight>>
        \/ /\ r.left = {} /\ ~last /\ r.stage < Len(stages)
           /\ fetches' = [fetches EXCEPT ![f] = [r EXCEPT !.stage = @ + 1, !.left = Pieces(next)]]
           /\ wire' = wire \o Gets(f, next) /\ readers' = readers \cup Asking(f, next)
           /\ replies' = rest /\ UNCHANGED flight
        \/ /\ r.left = {} /\ (last \/ r.stage = Len(stages)) /\ Stores(f, r, rest)

\* An error that no stage takes
Fails(f, rest) ==
    LET r == fetches[f]
        default == [r EXCEPT !.whole = FALSE, !.asOf = now]
        error == Plans[r.key].error
    IN  \/ error = "throw" /\ Over(f, FALSE, r, rest) /\ UNCHANGED wire
        \/ error = "answer" /\ Over(f, TRUE, default, rest) /\ UNCHANGED wire
        \/ error = "default" /\ Stores(f, default, rest)

-----------------------------------------------------------------------------
ReadAsk(u, k) ==
    /\ Idle /\ Asks /\ k \in readScene.asks /\ \A r \in readers : r.by # u
    /\ readers' = readers \cup {[by |-> u, key |-> k, on |-> 0]}
    /\ wire' = Append(wire, [op |-> "get", by |-> u, key |-> k])
    /\ UNCHANGED <<now, entries, flight, fetches, replies>>

\* The timers of the statistics and the points: not while one is under way
Refresh(k) ==
    /\ Idle /\ Asks /\ k \in readScene.auto /\ flight[k] = 0
    /\ \A f \in Fetches : fetches[f].key # k \/ Plans[k].shared
    /\ Starts(Unused, k, 0, wire, readers)
    /\ UNCHANGED <<now, entries, replies>>

-----------------------------------------------------------------------------
\* Redis answers a GET: e is what the reader sees, nothing if the call fails.
Asker(c) == CHOOSE r \in readers : r.by = c.by /\ r.key = c.key /\ r.on = 0
Sees(e) ==
    /\ Idle /\ wire # <<>> /\ Head(wire).op = "get"
    /\ \/ e = entries[Head(wire).key] /\ UNCHANGED readBounds
       \/ e = Nothing /\ entries[Head(wire).key] # Nothing /\ Mishap
    /\ UNCHANGED <<now, entries>>
Seen == {Nothing} \cup {entries[Head(wire).key] : i \in {1} \cap DOMAIN wire}

Shared(k) == Plans[k].shared
\* Mutant: a fetch under way is joined only if Redis has an entry
NeverJoins(k) == Shared(k) /\ flight[k] # 0 /\ entries[k] # Nothing

Joins(k) == Shared(k) /\ flight[k] # 0
Fresh(k, e) == Plans[k].early \/ now - e.fetched < Plans[k].ttl

Hit(e) ==
    /\ Sees(e) /\ e # Nothing
    /\ LET c == Head(wire) IN
       /\ Shared(c.key) => flight[c.key] # 0 \/ Fresh(c.key, e)
       /\ replies' = Told({Asker(c)}, TRUE, e) /\ readers' = readers \ {Asker(c)}
    /\ wire' = Tail(wire) /\ UNCHANGED <<flight, fetches>>

\* An old entry is answered, and fetched anew in the background.
HitOld(e) ==
    /\ Sees(e) /\ e # Nothing
    /\ LET c == Head(wire) IN
       /\ Shared(c.key) /\ flight[c.key] = 0 /\ ~Fresh(c.key, e)
       /\ replies' = Told({Asker(c)}, TRUE, e)
       /\ Starts(Unused, c.key, 0, Tail(wire), readers \ {Asker(c)})

Join(e) ==
    /\ Sees(e) /\ e = Nothing
    /\ LET c == Head(wire) IN
       /\ Joins(c.key)
       /\ readers' = (readers \ {Asker(c)}) \cup {[Asker(c) EXCEPT !.on = flight[c.key]]}
    /\ wire' = Tail(wire) /\ UNCHANGED <<flight, fetches, replies>>

Miss(e) ==
    /\ Sees(e) /\ e = Nothing
    /\ LET c == Head(wire) IN
       /\ ~Joins(c.key)
       /\ Starts(Unused, c.key, c.by, Tail(wire),
                 (readers \ {Asker(c)}) \cup {[Asker(c) EXCEPT !.on = Unused]})
    /\ UNCHANGED replies

\* Mutant: entries have no time to live
Endless(r) == [asOf |-> r.asOf, whole |-> r.whole, fetched |-> r.done, until |-> readScene.upto + 1]

EntryOf(r) == [asOf |-> r.asOf, whole |-> r.whole, fetched |-> r.done, until |-> now + Plans[r.key].ttl]

\* Redis answers a SET, done or failed: the fetch is over.
Stored ==
    /\ Idle /\ wire # <<>> /\ Head(wire).op = "set"
    /\ LET f == Head(wire).by
           r == fetches[f]
       IN /\ \/ entries' = [entries EXCEPT ![StoredAs(r.key)] = EntryOf(r)] /\ UNCHANGED readBounds
             \/ Mishap /\ UNCHANGED entries
          /\ Over(f, TRUE, r, {})
    /\ wire' = Tail(wire) /\ UNCHANGED now

-----------------------------------------------------------------------------
Owes(f, piece) == fetches[f].at = "work" /\ piece \in fetches[f].left
StageOf(f) == Stage(fetches[f].key, fetches[f].stage)
Less(f, piece) == [fetches[f] EXCEPT !.left = @ \ {piece}]

OwnAnswers(f) ==
    /\ Idle /\ Owes(f, "own") /\ Advances(f, Less(f, "own"), StageOf(f).enough, {})
    /\ UNCHANGED <<readBounds, now, entries>>

OwnFails(f) ==
    /\ Idle /\ Owes(f, "own") /\ Mishap
    /\ \/ StageOf(f).lenient /\ Advances(f, [Less(f, "own") EXCEPT !.whole = FALSE], FALSE, {})
       \/ StageOf(f).enough /\ Advances(f, Less(f, "own"), FALSE, {})
       \/ ~StageOf(f).lenient /\ Fails(f, {})
    /\ UNCHANGED <<now, entries>>

\* A result resumes who awaits it, in the order of the map's promises or not.
Deliver(p) ==
    /\ p \in replies
    /\ LET f == p.to
           rest == replies \ {p}
       IN \/ /\ (IF f \in Users THEN TRUE ELSE ~Owes(f, p.key))
             /\ replies' = rest /\ UNCHANGED <<wire, flight, fetches, readers>>
          \/ /\ f \in Fetches /\ Owes(f, p.key)
             /\ \/ p.ok /\ Advances(f, [Less(f, p.key) EXCEPT !.whole = @ /\ p.whole,
                                            !.asOf = Min({@, p.asOf})], FALSE, rest)
                \/ /\ ~p.ok /\ StageOf(f).lenient
                   /\ Advances(f, [Less(f, p.key) EXCEPT !.whole = FALSE], FALSE, rest)
                \/ ~p.ok /\ ~StageOf(f).lenient /\ Fails(f, rest)
    /\ UNCHANGED <<readBounds, now, entries>>

Tick ==
    /\ Idle /\ now < readScene.upto
    /\ \A f \in Fetches : fetches[f] # NoFetch => now - fetches[f].began < Lag
    /\ now' = now + 1
    /\ entries' = [k \in Keys |-> IF entries[k].until > now + 1 THEN entries[k] ELSE Nothing]
    /\ UNCHANGED <<readBounds, wire, flight, fetches, readers, replies>>

\* What a restart of the process leaves: the entries
Forgets ==
    /\ wire' = <<>> /\ flight' = [k \in Keys |-> 0] /\ fetches' = [f \in Fetches |-> NoFetch]
    /\ readers' = {} /\ replies' = {} /\ UNCHANGED <<readBounds, now, entries>>

-----------------------------------------------------------------------------
RedisAnswers == Stored \/ \E e \in Seen : Hit(e) \/ HitOld(e) \/ Join(e) \/ Miss(e)

ReadNext ==
    \/ RedisAnswers \/ Tick
    \/ \E u \in Users, k \in readScene.asks : ReadAsk(u, k)
    \/ \E k \in readScene.auto : Refresh(k)
    \/ \E f \in Fetches : OwnAnswers(f) \/ OwnFails(f)
    \/ \E p \in replies : Deliver(p)

-----------------------------------------------------------------------------
\* Every reader has a command on its way or awaits a fetch of its key, a key
\* that is shared has one fetch, which the map holds until it is over, and
\* nothing incomplete is stored for a key all of whose errors are thrown, nor
\* what its fetch read of another such key (FinalityProviderService.ts:84).
\* Those that begin with the height of the chain are not among them.
Lenience(k) == Plans[k].error = "default" \/ \E n \in DOMAIN Plans[k].stages : Stage(k, n).lenient
MayLack(k) == Lenience(k) \/ \E j \in SourcesOf(k) : Lenience(j)
ReadsHold ==
    /\ mishaps \in 0..readScene.mishaps /\ asked \in 0..readScene.budget
    /\ now \in 1..readScene.upto /\ flight \in [Keys -> 0..MaxFetches]
    /\ \A r \in readers :
          IF r.on = 0 THEN \E i \in DOMAIN wire : wire[i] = [op |-> "get", by |-> r.by, key |-> r.key]
          ELSE fetches[r.on].key = r.key
    /\ \A f \in Fetches : fetches[f] # NoFetch /\ Shared(fetches[f].key) => flight[fetches[f].key] = f
    /\ \A k \in Keys : entries[k].whole \/ \E j \in Makers(k) : MayLack(j)

\* How old what a fetch of k stores can be when it is answered, but for what
\* the fetch has read: its time to live and the time the fetch took.  What it
\* has read is read by no fetch in turn, and is as old as that at most.
AgeOf(k) == Plans[k].ttl - 1 + Lag
Within(age, k) == age <= AgeOf(k) \/ \E j \in SourcesOf(k) : age <= AgeOf(k) + AgeOf(j)

\* No reader gets what is older than that, whatever fails: an entry answered
\* while its fetch goes on or fails still expires (FinalityProviderService.ts:98).
AnswersAreRecent == \A p \in replies : p.ok => \E k \in Makers(p.key) : Within(now - p.asOf, k)

\* The fetches of a key follow each other closely and are answered out of order,
\* but one runs at a time: what replaces an entry was begun after that entry had
\* been fetched, whatever fails, and is older only by what it has read.
Follows(k) ==
    Nothing \notin {entries[k], entries'[k]} /\ entries'[k] # entries[k]
        => LET age == entries[k].fetched - entries'[k].asOf
           IN  age <= 0 \/ \E j \in SourcesOf(k) : age <= AgeOf(j)
EntriesFollow == [][\A k \in Keys : Shared(k) => Follows(k)]_readVars

\* Nor is a complete entry ever replaced by an older one, although what is read
\* has an age of its own.  (Of one mishap: a GET and a SET that fail can bring an
\* older one back.  And where no stage is enough: that of the current epoch can
\* fail, and the epoch is taken from what is kept of the finalized ones.)
Renews(k) ==
    /\ Nothing \notin {entries[k], entries'[k]} /\ entries[k].whole /\ entries'[k].whole
    /\ readScene.mishaps <= 1 /\ \A n \in DOMAIN Plans[k].stages : ~Stage(k, n).enough
    => entries[k].asOf <= entries'[k].asOf
EntriesRenew == EntriesFollow /\ [][\A k \in Keys : Shared(k) => Renews(k)]_readVars

\* While a user waits, Redis, the node or a result about to resume somebody
\* owes the next step: fetches never only wait for each other through the keys
\* they read (BSNConsumerService.ts:146, "avoid circular dependency").  Each such
\* step uses up a command, a request or a result, so that reads end.
ReadsGoOn ==
    (\E r \in readers : r.by \in Users) =>
        \/ wire # <<>> \/ ~Idle
        \/ \E f \in Fetches : Owes(f, "own")
=============================================================================
