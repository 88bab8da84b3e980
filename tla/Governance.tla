----------------------------- MODULE Governance -----------------------------
(***************************************************************************)
(* One governance proposal: its votes document (ProposalVotes) and its     *)
(* status (Proposal).  Vote messages (GovernanceEventHandler) and the      *)
(* initial sync (GovernanceIndexerService) load the votes document, put    *)
(* votes into their copy, recount the copy and save what they changed.     *)
(* Submission and status messages, the sync and a periodic check write the *)
(* status of the proposal.                                                 *)
(***************************************************************************)
EXTENDS Messages, Functions

CONSTANTS
    Voters,
    Power           \* Power[v]: voting_power of a validator, or the weight

Options == {"YES", "ABSTAIN", "NO", "VETO"}
\* The keys of vote_counts that an option in lower case can name: that of
\* VETO is no_with_veto, which none does.
Countable == {"YES", "ABSTAIN", "NO"}
Statuses == {"none", "VOTING", "PASSED", "REJECTED"}

Vote == "proposal_vote"
Submission == "submit_proposal"
StatusChange == "proposal_status"

ASSUME GovernanceAssumption ==
    /\ IsFiniteSet(Voters) /\ Power \in [Voters -> Nat] /\ Nothing \notin Options
    /\ \A c \in Chains : \A n \in DOMAIN c.messages : \A e \in c.messages[n].events :
         e.type = StatusChange => e.what \in Statuses \ {"none"}

VARIABLES
    votesDoc,       \* whether the votes document exists
    votes,          \* votes[v]: option stored for v, or Nothing
    voteCounts,     \* vote_counts: power stored for each countable option
    voteCount,      \* vote_count
    status,         \* Proposal.status, "none" before it is stored
    govCalls,       \* govCalls[d]: the call of handleEvent for d
    indexer,        \* initial sync: what it listed and the copy it loaded
    checked,        \* status that checkAndUpdateEndedProposals has fetched
    miscast         \* history: the last save recounted an outdated copy

votesVars == <<votesDoc, votes, voteCounts, voteCount, miscast>>
govVars   == <<votesVars, status, govCalls, indexer, checked>>

-----------------------------------------------------------------------------
\* The chain after n messages

EventsUpTo(n, type) ==
    UNION {{e \in EventsOf(k) : e.type = type} \X {k} : k \in 1..n}
\* The last vote of v, which is the one the chain counts
CastUpTo(n) == [v \in Voters |->
    LET cast == {p \in EventsUpTo(n, Vote) : p[1].who = v}
    IN  IF cast = {} THEN Nothing
        ELSE (CHOOSE p \in cast : \A q \in cast : q[2] <= p[2])[1].what]
\* The voters who voted for one option and then for another
ChangedUpTo(n) == {v \in Voters :
    \E p, q \in EventsUpTo(n, Vote) :
        p[1].who = v /\ q[1].who = v /\ p[1].what # q[1].what}
StatusAt(n) ==
    LET ended == EventsUpTo(n, StatusChange)
    IN  IF EventsUpTo(n, Submission) = {} THEN "none"
        ELSE IF ended = {} THEN "VOTING"
        ELSE (CHOOSE p \in ended : \A q \in ended : q[2] <= p[2])[1].what

NoVotes  == [v \in Voters |-> Nothing]
NoCounts == [o \in Countable |-> 0]
Cast(vs) == {v \in Voters : vs[v] # Nothing}

\* updateVoteCounts of a copy; it throws when one of its options is VETO.
CanCount(vs) == \A v \in Cast(vs) : vs[v] \in Countable
CountOf(vs) == [o \in Countable |-> SumFunctionOnSet(Power, {v \in Voters : vs[v] = o})]

\* A copy: the document as loaded, and whether no other call has saved since.
GovNoCopy == [new |-> TRUE, votes |-> NoVotes, counts |-> NoCounts, count |-> 0,
              fresh |-> TRUE]
GovLoaded == [new |-> ~votesDoc, votes |-> votes, counts |-> voteCounts,
              count |-> voteCount, fresh |-> TRUE]
GovIdle == [pc |-> "none", fetched |-> "none", copy |-> GovNoCopy]
SyncIdle == [pc |-> "none", listed |-> "none", votes |-> NoVotes,
             again |-> {}, copy |-> GovNoCopy]

GovInit ==
    /\ votesDoc = FALSE /\ votes = NoVotes /\ voteCounts = NoCounts
    /\ voteCount = 0 /\ status = "none"
    /\ govCalls = [d \in Deliveries |-> GovIdle] 
    /\ indexer = [SyncIdle EXCEPT !.pc = IF Runs("proposals") THEN @ ELSE "off"]
    /\ checked = "none" /\ miscast = FALSE

-----------------------------------------------------------------------------
\* GovernanceEventHandler.handleEvent: a vote, a submission, a status.  Each
\* catches its own errors, so the next one runs all the same.

AfterSubmit(d) == IF Has(d, StatusChange) THEN "status" ELSE "done"
AfterVote(d)   == IF Has(d, Submission) THEN "submit" ELSE AfterSubmit(d)
FirstStage(d)  == IF Has(d, Vote) THEN "vote" ELSE AfterVote(d)
AfterStage(d)  == CASE govCalls[d].pc \in {"vote", "save"} -> AfterVote(d)
                    [] govCalls[d].pc \in {"submit", "store"} -> AfterSubmit(d)
                    [] OTHER -> "done"

GovGoto(d, pc) == [govCalls EXCEPT ![d] = [GovIdle EXCEPT !.pc = pc]]

\* GovernanceMessageProcessor takes the deliveries of one subscription only.
GovStart(d) ==
    /\ Arrives(d) /\ govCalls[d].pc = "none"
    /\ govCalls' = GovGoto(d, IF d[2] = "governance" THEN FirstStage(d)
                              ELSE "done")
    /\ UNCHANGED <<votesVars, status, indexer, checked, faults>>

FindVotes(d) ==
    /\ govCalls[d].pc = "vote"
    /\ govCalls' = [govCalls EXCEPT ![d].pc = "save", ![d].copy = GovLoaded]
    /\ UNCHANGED <<votesVars, status, indexer, checked, faults>>

\* save of a copy that now holds vs: the entries set since it was loaded are
\* written one by one (an equal option too, its vote_time is another), a count
\* when it differs.  Nothing is saved when the recount throws, or when another
\* call has inserted the document first.
Saves(copy, vs) == CanCount(vs) /\ ~(copy.new /\ votesDoc)
SaveVotes(copy, vs, set) ==
    IF Saves(copy, vs)
    THEN /\ votesDoc' = TRUE
         /\ votes' = [v \in Voters |-> IF v \in set THEN vs[v] ELSE votes[v]]
         /\ voteCounts' = IF CountOf(vs) = copy.counts THEN voteCounts
                          ELSE CountOf(vs)
         /\ voteCount' = IF Cardinality(Cast(vs)) = copy.count THEN voteCount
                         ELSE Cardinality(Cast(vs))
         /\ miscast' = ~copy.fresh
    ELSE UNCHANGED votesVars

Outdate(copy) == [copy EXCEPT !.fresh = @ /\ votesVars' = votesVars]

\* Votes.set, updateVoteCounts, save
SaveVote(d) ==
    /\ govCalls[d].pc = "save"
    /\ LET e == The(d, Vote) copy == govCalls[d].copy IN
       SaveVotes(copy, [copy.votes EXCEPT ![e.who] = e.what], {e.who})
    /\ govCalls' = [x \in Deliveries |->
         IF x = d THEN [GovIdle EXCEPT !.pc = AfterVote(d)]
         ELSE IF govCalls[x].pc # "save" THEN govCalls[x]
         ELSE [govCalls[x] EXCEPT !.copy = Outdate(@)]]
    /\ indexer' = IF indexer.pc = "save" THEN [indexer EXCEPT !.copy = Outdate(@)]
                  ELSE indexer
    /\ UNCHANGED <<status, checked, faults>>

\* handleProposalSubmission: the details of the proposal, then the upsert
FetchProposal(d) ==
    /\ govCalls[d].pc = "submit"
    /\ govCalls' = [govCalls EXCEPT ![d].pc = "store",
                                    ![d].fetched = StatusAt(sent)]
    /\ UNCHANGED <<votesVars, status, indexer, checked, faults>>

UpdateProposal(d) ==
    /\ govCalls[d].pc = "store"
    /\ status' = govCalls[d].fetched
    /\ govCalls' = GovGoto(d, AfterSubmit(d))
    /\ UNCHANGED <<votesVars, indexer, checked, faults>>

\* handleProposalStatusChange: without an upsert
ChangeStatus(d) ==
    /\ govCalls[d].pc = "status"
    /\ status' = IF status = "none" THEN status ELSE The(d, StatusChange).what
    /\ govCalls' = GovGoto(d, "done")
    /\ UNCHANGED <<votesVars, indexer, checked, faults>>

\* An error of the database or of the node ends the stage.
GovFails(d) ==
    /\ govCalls[d].pc \notin {"none", "done"} /\ Costs
    /\ govCalls' = GovGoto(d, AfterStage(d))
    /\ UNCHANGED <<votesVars, status, indexer, checked>>

GovStep(d) == \/ FindVotes(d) \/ SaveVote(d) \/ FetchProposal(d)
              \/ UpdateProposal(d) \/ ChangeStatus(d) \/ GovFails(d)

-----------------------------------------------------------------------------
\* GovernanceIndexerService.start: an initial sync, then the periodic check

\* indexProposals: what the node lists when it is asked
ListProposals ==
    /\ indexer.pc = "none"
    /\ indexer' = [indexer EXCEPT
         !.pc = IF StatusAt(sent) = "none" THEN "done" ELSE "upsert",
         !.listed = StatusAt(sent)]
    /\ UNCHANGED <<votesVars, status, govCalls, checked, faults>>

UpsertProposal ==
    /\ indexer.pc = "upsert"
    /\ status' = indexer.listed
    /\ indexer' = [indexer EXCEPT !.pc = "votes"]
    /\ UNCHANGED <<votesVars, govCalls, checked, faults>>

\* updateProposalVotesFromTxs: the votes of the transactions found by then
ListVotes ==
    /\ indexer.pc = "votes"
    /\ indexer' = [indexer EXCEPT
         !.pc = IF Cast(CastUpTo(sent)) = {} THEN "done" ELSE "find",
         !.votes = CastUpTo(sent), !.again = ChangedUpTo(sent)]
    /\ UNCHANGED <<votesVars, status, govCalls, checked, faults>>

FindProposalVotes ==
    /\ indexer.pc = "find"
    /\ indexer' = [indexer EXCEPT !.pc = "save", !.copy = GovLoaded]
    /\ UNCHANGED <<votesVars, status, govCalls, checked, faults>>

\* processVotes: the votes listed, oldest first, are set one after the other;
\* one that equals the entry as it then is gets skipped.
Listed == [v \in Voters |-> IF indexer.votes[v] = Nothing THEN indexer.copy.votes[v]
                            ELSE indexer.votes[v]]
ProcessVotes ==
    /\ indexer.pc = "save"
    /\ SaveVotes(indexer.copy, Listed,
         indexer.again \cup {v \in Voters : Listed[v] # indexer.copy.votes[v]})
    /\ indexer' = [SyncIdle EXCEPT !.pc = "done"]
    /\ govCalls' = [x \in Deliveries |->
         IF govCalls[x].pc # "save" THEN govCalls[x]
         ELSE [govCalls[x] EXCEPT !.copy = Outdate(@)]]
    /\ UNCHANGED <<status, checked, faults>>

\* An error of the sync is logged; the check is started all the same.
SyncFails ==
    /\ indexer.pc \notin {"off", "done"} /\ Costs
    /\ indexer' = [SyncIdle EXCEPT !.pc = "done"]
    /\ UNCHANGED <<votesVars, status, govCalls, checked>>

\* checkAndUpdateEndedProposals: a stored proposal in VOTING is asked about.
CheckEnded ==
    /\ indexer.pc = "done" /\ checked = "none" /\ status = "VOTING"
    /\ checked' = StatusAt(sent)
    /\ UNCHANGED <<votesVars, status, govCalls, indexer, faults>>

\* Mutant: the comparison is the wrong way round.
UpdateVoting ==
    /\ checked # "none"
    /\ status' = IF checked = "VOTING" THEN checked ELSE status
    /\ checked' = "none"
    /\ UNCHANGED <<votesVars, govCalls, indexer, faults>>

UpdateEnded ==
    /\ checked # "none"
    /\ status' = IF checked = "VOTING" THEN status ELSE checked
    /\ checked' = "none"
    /\ UNCHANGED <<votesVars, govCalls, indexer, faults>>

SyncStep == \/ ListProposals \/ UpsertProposal \/ ListVotes
            \/ FindProposalVotes \/ ProcessVotes \/ SyncFails
CheckStep == CheckEnded \/ UpdateEnded

GovNext == \/ SyncStep \/ CheckStep
           \/ \E d \in Deliveries : GovStart(d) \/ GovStep(d)

GovSpec == GovInit /\ [][GovNext]_govVars

\* The sync runs on and the interval of the check fires again and again;
\* nobody owes a message, nor the end of a call that one started.
GovFairness == WF_govVars(SyncStep) /\ WF_govVars(CheckStep)

-----------------------------------------------------------------------------
VoteChoices == [Voters -> Countable \cup {Nothing}]
CopyOK(c) == /\ c.new \in BOOLEAN /\ c.votes \in VoteChoices
             /\ c.counts \in [Countable -> Nat] /\ c.count \in Nat
             /\ c.fresh \in BOOLEAN

\* Every variable keeps its type; in particular no VETO is ever stored.
GovTypeOK ==
    /\ votesDoc \in BOOLEAN /\ votes \in VoteChoices
    /\ voteCounts \in [Countable -> Nat] /\ voteCount \in Nat
    /\ status \in Statuses /\ checked \in Statuses
    /\ \A d \in Deliveries :
         /\ govCalls[d].pc \in {"none", "vote", "save", "submit", "store",
                                "status", "done"}
         /\ govCalls[d].fetched \in Statuses /\ CopyOK(govCalls[d].copy)
    /\ indexer.pc \in {"off", "none", "upsert", "votes", "find", "save", "done"}
    /\ indexer.listed \in Statuses /\ CopyOK(indexer.copy)
    /\ miscast \in BOOLEAN

\* The stored counts are those of the stored votes, unless the last save
\* recounted a copy that another call had outdated (updateVoteCounts).
TallyAgrees ==
    miscast \/ (voteCounts = CountOf(votes) /\ voteCount = Cardinality(Cast(votes)))

\* A stored proposal does not stay in VOTING once the chain has ended it: if
\* the status message is lost, late, or overtaken by the answer to an older
\* question, the periodic check finds it (checkAndUpdateEndedProposals).
StatusCatchesUp ==
    [](status = "VOTING" /\ StatusAt(sent) # "VOTING" => <>(status # "VOTING"))
=============================================================================
