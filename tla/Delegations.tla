---------------------------- MODULE Delegations ----------------------------
(* BTC delegations and the documents of their stakers.  Staking events come  *)
(* from the websocket and from MissedBlocksProcessor, at once, late, twice   *)
(* or never; BTCTransactionCrawlerService asks the node again about          *)
(* delegations that are not final.  An event writes the delegation first     *)
(* (NewBTCDelegationService) and then reads, changes and saves the document  *)
(* of its staker (NewStakerService), which holds a copy of the state of each *)
(* of its delegations.  The crawler writes the delegation and tells nobody.  *)
(* A script may recalculate the document of a staker meanwhile.              *)
EXTENDS Naturals, Sequences, FiniteSets

CONSTANTS
    Stakes,         \* the delegations
    Stakers,
    StakerOf,       \* the staker of each
    Handlers,       \* events that may be handled at the same time
    Moves,          \* what the chain may do to each, with the kind of event
    PageSize,       \* batchSize of the crawler
    MaxTries,       \* maxRetries of updateStakerFromDelegation
    MaxDeliveries,  \* bound: calls of handleEvent
    MaxTrouble      \* bound: errors, crashes and recalculations

None == "none"
States == {"PENDING", "VERIFIED", "ACTIVE", "UNBONDED", "EXPIRED"}
Kinds == {"create", "quorum", "update", "crawl"}

ASSUME StakerAssumption == StakerOf \in [Stakes -> Stakers]
ASSUME MoveAssumption ==
    /\ Moves \in [Stakes -> SUBSET [from : States \cup {None}, kind : Kinds \ {"crawl"}, to : States]]
    /\ \A d \in Stakes : \A m \in Moves[d] :
         (m.kind = "create" <=> m.from = None) /\ (m.kind = "create" <=> m.to = "PENDING")
ASSUME BoundAssumption ==
    /\ PageSize \in Nat \ {0} /\ MaxTries \in Nat \ {0}
    /\ {MaxDeliveries, MaxTrouble} \subseteq Nat

VARIABLES
    chain,      \* the state of each delegation on the chain
    emitted,    \* the events of the chain so far
    deleg,      \* new_btc_delegations: the state of each
    stored,     \*   in the order they were created
    doc,        \* new_stakers: the states each document holds
    call,       \* what each call of handleEvent, and of the crawler, is doing
    crawl,      \* the pass of the crawler: None, "PENDING" or "VERIFIED"
    page,
    recalc,     \* the recalculation of one staker
    overtaken,  \* history: delegations with an update given up or overtaken
    crawled,    \* history: those the crawler changed, and no event since
    deliveries, trouble

nodeVars == <<chain, emitted>>
delegVars == <<deleg, stored>>
crawlVars == <<crawl, page>>
hist == <<overtaken, crawled>>
bounds == <<deliveries, trouble>>
vars == <<nodeVars, delegVars, doc, call, crawlVars, recalc, hist, bounds>>

Crawls == {<<"crawl", d>> : d \in Stakes}
Calls == Handlers \cup Crawls

NoDoc == [there |-> FALSE, holds |-> [d \in Stakes |-> None]]
Idle == [pc |-> "idle"]
NoRecalc == [pc |-> "idle"]

Init ==
    /\ chain = [d \in Stakes |-> None] /\ emitted = {}
    /\ deleg = [d \in Stakes |-> None] /\ stored = <<>>
    /\ doc = [s \in Stakers |-> NoDoc]
    /\ call = [c \in Calls |-> Idle]
    /\ crawl = None /\ page = 1
    /\ recalc = NoRecalc
    /\ overtaken = {} /\ crawled = {}
    /\ deliveries = 0 /\ trouble = 0

\* An update of d whose staker has not been saved yet.
Updating(c) == call[c].pc \in {"read", "save"}
UpdatedBy(d) == {c \in Calls : Updating(c) /\ call[c].d = d}

Trouble == trouble < MaxTrouble /\ trouble' = trouble + 1
Done(c) == call' = [call EXCEPT ![c] = Idle]

-----------------------------------------------------------------------------
(* The chain, and the delivery of its events.                                *)

ChainMoves(d, m) ==
    /\ chain[d] = m.from
    /\ chain' = [chain EXCEPT ![d] = m.to]
    /\ emitted' = emitted \cup {<<d, m>>}
    /\ UNCHANGED <<delegVars, doc, call, crawlVars, recalc, hist, bounds>>

\* handleEvent is called with an event of the chain: live, or again and later
\* by a gap fill.  When a transaction holds several events of one type, each
\* of them is handled as the first, which is a delivery of the first more and
\* none of the others.
Deliver(c, d, m) ==
    /\ c \in Handlers /\ call[c] = Idle
    /\ <<d, m>> \in emitted
    /\ deliveries < MaxDeliveries /\ deliveries' = deliveries + 1
    /\ call' = [call EXCEPT ![c] = [pc |-> "look", kind |-> m.kind, d |-> d, to |-> m.to]]
    /\ UNCHANGED <<nodeVars, delegVars, doc, crawlVars, recalc, hist, trouble>>

-----------------------------------------------------------------------------
(* BTCDelegationEventHandler and NewBTCDelegationService.                    *)

\* What the handler of each kind of event requires of the delegation it finds.
Wanted(kind, state) ==
    CASE kind = "create" -> state = None
      [] kind = "quorum" -> state = "PENDING"
      [] kind = "update" -> state # None

\* getDelegationByTxId, getDelegationByTxHash: the event is dropped, or its
\* handler goes on.
Look(c) ==
    /\ call[c].pc = "look"
    /\ IF Wanted(call[c].kind, deleg[call[c].d])
       THEN call' = [call EXCEPT ![c].pc = "write"]
       ELSE Done(c)
    /\ UNCHANGED <<nodeVars, delegVars, doc, crawlVars, recalc, hist, bounds>>

\* The staker is to be updated with the state just written.
StartUpdate(c) ==
    LET d == call[c].d IN
    /\ call' = [call EXCEPT ![c] = [pc |-> "read", d |-> d, to |-> @.to, tries |-> 0]]
    /\ overtaken' = IF UpdatedBy(d) # {} THEN overtaken \cup {d} ELSE overtaken
    /\ crawled' = crawled \ {d}

\* Mutant: an upsert instead of an insert.
InsertAnyway(c) ==
    LET d == call[c].d IN
    /\ call[c].pc = "write" /\ call[c].kind = "create"
    /\ deleg' = [deleg EXCEPT ![d] = "PENDING"]
    /\ stored' = IF deleg[d] = None THEN Append(stored, d) ELSE stored
    /\ StartUpdate(c)
    /\ UNCHANGED <<nodeVars, doc, crawlVars, recalc, bounds>>

\* createDelegation: the unique index on stakingTxHex refuses a second insert.
Insert(c) ==
    LET d == call[c].d IN
    /\ call[c].pc = "write" /\ call[c].kind = "create"
    /\ IF deleg[d] = None
       THEN /\ deleg' = [deleg EXCEPT ![d] = "PENDING"]
            /\ stored' = Append(stored, d)
            /\ StartUpdate(c)
       ELSE Done(c) /\ UNCHANGED <<delegVars, hist>>
    /\ UNCHANGED <<nodeVars, doc, crawlVars, recalc, bounds>>

\* updateDelegationState: whatever state the delegation has by now.
Write(c) ==
    /\ call[c].pc = "write" /\ call[c].kind \in {"quorum", "update"}
    /\ deleg' = [deleg EXCEPT ![call[c].d] = call[c].to]
    /\ StartUpdate(c)
    /\ UNCHANGED <<nodeVars, stored, doc, crawlVars, recalc, bounds>>

\* A change the staker is not told of, maybe under an update it is told of.
NotTold(d) ==
    IF UpdatedBy(d) = {} THEN crawled' = crawled \cup {d} /\ UNCHANGED overtaken
    ELSE overtaken' = overtaken \cup {d} /\ UNCHANGED crawled

\* The crawler has a service of its own (BTCDelegationService), whose
\* updateDelegationState writes the delegation and nothing else.
CrawlWrite(c) ==
    LET d == call[c].d IN
    /\ call[c].pc = "write" /\ call[c].kind = "crawl"
    /\ deleg' = [deleg EXCEPT ![d] = call[c].to]
    /\ Done(c)
    /\ IF deleg[d] = call[c].to THEN UNCHANGED hist ELSE NotTold(d)
    /\ UNCHANGED <<nodeVars, stored, doc, crawlVars, recalc, bounds>>

-----------------------------------------------------------------------------
(* NewStakerService.updateStakerFromDelegation.                              *)

StakerOfCall(c) == StakerOf[call[c].d]

\* findOrCreateStaker, or findById on a retry.
ReadStaker(c) ==
    /\ call[c].pc = "read"
    /\ call' = [call EXCEPT ![c] =
         [pc |-> "save", d |-> @.d, to |-> @.to, tries |-> @.tries,
          saw |-> doc[StakerOfCall(c)], stale |-> FALSE]]
    /\ UNCHANGED <<nodeVars, delegVars, doc, crawlVars, recalc, hist, bounds>>

\* Whoever else read the document of s has an old version of it now.
OutdateCalls(s) ==
    [c \in Calls |-> IF call[c].pc = "save" /\ StakerOfCall(c) = s
                     THEN [call[c] EXCEPT !.stale = TRUE] ELSE call[c]]

OutdateRecalc(s) ==
    recalc' = IF recalc.pc # "idle" /\ recalc.s = s
              THEN [recalc EXCEPT !.stale = TRUE] ELSE recalc

\* Mutant: a save without the version of the document it read.
AnyVersion(c) == TRUE

\* updateRecentDelegations replaces a whole array, so mongoose compares and
\* increments __v on every save; a new document is inserted.
Fresh(c) == ~call[c].stale

\* updateDelegationDetails, on the document the call has read.
HoldsAfter(c) == [call[c].saw.holds EXCEPT ![call[c].d] = call[c].to]

\* save().
SaveStaker(c) ==
    LET s == StakerOfCall(c) IN
    /\ call[c].pc = "save" /\ Fresh(c)
    /\ doc' = [doc EXCEPT ![s] =
         [there |-> TRUE, holds |-> HoldsAfter(c)]]
    /\ call' = [OutdateCalls(s) EXCEPT ![c] = Idle]
    /\ OutdateRecalc(s)
    /\ UNCHANGED <<nodeVars, delegVars, crawlVars, hist, bounds>>

\* The update of the staker is given up: logged, and never made up for.
GiveUp(c) ==
    /\ Done(c)
    /\ overtaken' = overtaken \cup {call[c].d} /\ UNCHANGED crawled

TriesLeft(c) == call[c].tries + 1 < MaxTries

\* Mutant: a retry saves the document it already has.
SavesAgain(c) ==
    /\ call[c].pc = "save" /\ call[c].stale /\ call[c].saw.there
    /\ IF TriesLeft(c)
       THEN /\ call' = [call EXCEPT ![c].tries = @ + 1, ![c].stale = FALSE]
            /\ UNCHANGED hist
       ELSE GiveUp(c)
    /\ UNCHANGED <<nodeVars, delegVars, doc, crawlVars, recalc, bounds>>

\* VersionError: read the document again, unless it was the last try.
VersionConflict(c) ==
    /\ call[c].pc = "save" /\ call[c].stale /\ call[c].saw.there
    /\ IF TriesLeft(c)
       THEN /\ call' = [call EXCEPT ![c] =
                 [pc |-> "read", d |-> @.d, to |-> @.to, tries |-> @.tries + 1]]
            /\ UNCHANGED hist
       ELSE GiveUp(c)
    /\ UNCHANGED <<nodeVars, delegVars, doc, crawlVars, recalc, bounds>>

\* Two calls create the document of one staker: the second insert is refused,
\* which is not a VersionError.
DuplicateStaker(c) ==
    /\ call[c].pc = "save" /\ call[c].stale /\ ~call[c].saw.there
    /\ GiveUp(c)
    /\ UNCHANGED <<nodeVars, delegVars, doc, crawlVars, recalc, bounds>>

\* MongoDB or the node fails; the handlers log it.
CallFails(c) ==
    /\ call[c] # Idle /\ Trouble
    /\ IF Updating(c) THEN GiveUp(c) ELSE Done(c) /\ UNCHANGED hist
    /\ UNCHANGED <<nodeVars, delegVars, doc, crawlVars, recalc, deliveries>>

-----------------------------------------------------------------------------
(* BTCTransactionCrawlerService.crawlTransactions.                           *)

CrawlOver == \A c \in Crawls : call[c] = Idle

\* The initial crawl, the interval: isCrawling keeps them apart.
StartCrawl ==
    /\ crawl = None
    /\ crawl' = "PENDING" /\ page' = 1
    /\ UNCHANGED <<nodeVars, delegVars, doc, call, recalc, hist, bounds>>

\* find().sort().skip().limit(): the delegations in a state, oldest first, are
\* numbered, and those with the numbers of the page are found.
Rank(i, state) == Cardinality({j \in 1..i : deleg[stored[j]] = state})

PageOf(state) ==
    {stored[i] : i \in {i \in DOMAIN stored :
        /\ deleg[stored[i]] = state
        /\ Rank(i, state) \in ((page - 1) * PageSize + 1)..(page * PageSize)}}

\* Ask about every delegation of the next page.
CrawlPage ==
    /\ crawl # None /\ CrawlOver
    /\ PageOf(crawl) # {}
    /\ call' = [c \in Calls |->
         IF c \in Crawls /\ c[2] \in PageOf(crawl)
         THEN [pc |-> "ask", kind |-> "crawl", d |-> c[2], to |-> None] ELSE call[c]]
    /\ page' = page + 1
    /\ UNCHANGED <<nodeVars, delegVars, doc, crawl, recalc, hist, bounds>>

\* Mutant: the verified delegations are not asked about.
OnlyPending == crawl' = None /\ page' = 1

NextPass ==
    /\ crawl' = IF crawl = "PENDING" THEN "VERIFIED" ELSE None
    /\ page' = 1

\* An empty page, or an error, ends the pass.
CrawlPassDone ==
    /\ crawl # None /\ CrawlOver
    /\ \/ PageOf(crawl) = {} /\ UNCHANGED trouble
       \/ Trouble
    /\ NextPass
    /\ UNCHANGED <<nodeVars, delegVars, doc, call, recalc, hist, deliveries>>

\* checkTransactionStatus answers with the state on the chain.
Ask(c) ==
    LET d == call[c].d IN
    /\ call[c].pc = "ask"
    /\ IF chain[d] # crawl
       THEN call' = [call EXCEPT ![c] = [pc |-> "write", kind |-> "crawl", d |-> d, to |-> chain[d]]]
       ELSE Done(c)
    /\ UNCHANGED <<nodeVars, delegVars, doc, crawlVars, recalc, hist, bounds>>

-----------------------------------------------------------------------------
(* StakerRecalculationService, run by a script of its own.                   *)

RecalcRead(s) ==
    /\ recalc = NoRecalc /\ doc[s].there
    /\ Trouble
    /\ recalc' = [pc |-> "find", s |-> s, stale |-> FALSE]
    /\ UNCHANGED <<nodeVars, delegVars, doc, call, crawlVars, hist, deliveries>>

DelegationsOf(s) == [d \in Stakes |-> IF StakerOf[d] = s THEN deleg[d] ELSE None]

RecalcFind ==
    /\ recalc.pc = "find"
    /\ recalc' = [pc |-> "save", s |-> recalc.s, stale |-> recalc.stale,
                  found |-> DelegationsOf(recalc.s)]
    /\ UNCHANGED <<nodeVars, delegVars, doc, call, crawlVars, hist, bounds>>

\* A conflict is logged, and the document left as it is.  Where the script has
\* found what the crawler wrote, the staker is told by this.
RecalcSave ==
    /\ recalc.pc = "save" /\ recalc' = NoRecalc
    /\ IF recalc.stale THEN UNCHANGED <<doc, call, crawled>>
       ELSE /\ doc' = [doc EXCEPT ![recalc.s].holds = recalc.found]
            /\ call' = OutdateCalls(recalc.s)
            /\ crawled' = crawled \ {d \in Stakes :
                 StakerOf[d] = recalc.s /\ recalc.found[d] = deleg[d]}
    /\ UNCHANGED <<nodeVars, delegVars, crawlVars, overtaken, bounds>>

-----------------------------------------------------------------------------
\* The process dies; MongoDB and the script survive.
Crash ==
    /\ Trouble
    /\ call' = [c \in Calls |-> Idle]
    /\ crawl' = None /\ page' = 1
    /\ overtaken' = overtaken \cup {d \in Stakes : UpdatedBy(d) # {}}
    /\ UNCHANGED crawled
    /\ UNCHANGED <<nodeVars, delegVars, doc, recalc, deliveries>>

HandleUnsaved(c) ==
    \/ Look(c) \/ Insert(c) \/ Write(c) \/ Ask(c) \/ CrawlWrite(c)
    \/ ReadStaker(c) \/ VersionConflict(c) \/ DuplicateStaker(c)

Handle(c) == HandleUnsaved(c) \/ SaveStaker(c)

Crawler == StartCrawl \/ CrawlPage \/ CrawlPassDone

Next ==
    \/ \E d \in Stakes : \E m \in Moves[d] :
         ChainMoves(d, m) \/ \E c \in Handlers : Deliver(c, d, m)
    \/ \E c \in Calls : Handle(c) \/ CallFails(c)
    \/ Crawler
    \/ \E s \in Stakers : RecalcRead(s)
    \/ RecalcFind \/ RecalcSave
    \/ Crash

Spec == Init /\ [][Next]_vars

\* The crawler's interval keeps coming, and MongoDB and the node answer it in
\* the end.  No event is ever owed: all of them may be lost.
FairSpec == Spec /\ WF_vars(Crawler \/ \E c \in Crawls : HandleUnsaved(c))

-----------------------------------------------------------------------------
(* Properties.                                                               *)

Held == [Stakes -> States \cup {None}]
Doc == [there : BOOLEAN, holds : Held]
CallType ==
    {Idle}
    \cup [pc : {"look", "write"}, kind : Kinds, d : Stakes, to : States]
    \cup [pc : {"ask"}, kind : {"crawl"}, d : Stakes, to : {None}]
    \cup [pc : {"read"}, d : Stakes, to : States, tries : 0..(MaxTries - 1)]
    \cup [pc : {"save"}, d : Stakes, to : States, tries : 0..(MaxTries - 1),
          saw : Doc, stale : BOOLEAN]
RecalcType ==
    {NoRecalc}
    \cup [pc : {"find"}, s : Stakers, stale : BOOLEAN]
    \cup [pc : {"save"}, s : Stakers, stale : BOOLEAN, found : Held]

\* The types of the variables.
TypeOK ==
    /\ chain \in Held /\ \A e \in emitted : e[1] \in Stakes /\ e[2] \in Moves[e[1]]
    /\ deleg \in Held /\ stored \in Seq(Stakes)
    /\ doc \in [Stakers -> Doc]
    /\ call \in [Calls -> CallType]
    /\ crawl \in {None, "PENDING", "VERIFIED"} /\ page \in Nat \ {0}
    /\ recalc \in RecalcType
    /\ overtaken \subseteq Stakes /\ crawled \subseteq Stakes
    /\ deliveries \in 0..MaxDeliveries /\ trouble \in 0..MaxTrouble

\* The document of a staker agrees with every delegation none of whose own
\* updates is under way, was given up, or was overtaken by another write of the
\* same delegation, and which no crawl has changed since its last event or
\* recalculation: updates of its other delegations, their retries, and a
\* recalculation of what was found earlier never disturb it
\* (updateStakerFromDelegation, recalculateStakerStats).
Agreement ==
    \A d \in Stakes \ (overtaken \cup crawled) :
        UpdatedBy(d) = {} => doc[StakerOf[d]].holds[d] = deleg[d]

\* However many calls save the document of a staker at once, it never loses a
\* delegation it has: no save is based on an old version of it.
KeepsDelegations ==
    [][\A d \in Stakes : doc[StakerOf[d]].holds[d] # None
            => doc'[StakerOf[d]].holds[d] # None]_vars

\* A delegation is created once: an event that comes again, live and by a gap
\* fill at the same time, never puts it back to PENDING.
CreatedOnce ==
    [][\A d \in Stakes : deleg[d] # None /\ deleg'[d] = "PENDING"
            => deleg[d] = "PENDING"]_vars

\* No event needs to arrive for a delegation to leave PENDING and VERIFIED:
\* the crawler finds it, although the pages it steps through shrink under it
\* and calls with older answers overlap.
Recovers ==
    <>[](\A d \in Stakes : deleg[d] \in {"PENDING", "VERIFIED"} => deleg[d] = chain[d])

\* "Update only if in PENDING status" (BTCDelegationEventHandler.ts:316).
OnlyFromPending ==
    [][\A c \in Calls :
         call[c].pc = "write" /\ call[c].kind = "quorum" /\ call'[c].pc = "read"
            => deleg[call[c].d] \in {"PENDING", call[c].to}]_vars
=============================================================================
