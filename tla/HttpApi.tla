------------------------------ MODULE HttpApi ------------------------------
(***************************************************************************)
(* The HTTP interface: what a request passes before its handler, the reads *)
(* that the handler makes and where each of their outcomes ends, and the   *)
(* one page that is kept.  What is read is in the other modules; here is   *)
(* what the client is told of it.                                          *)
(***************************************************************************)
EXTENDS Integers, Sequences

CONSTANTS
    KeepsFor,       \* how long the page is kept, in ticks
    HitWindow,      \* windowMs of the rate limit, in ticks
    MaxHits,        \* and its max
    OwnNetwork,     \* that of the clients of the chain
    Slots,          \* requests of one client, side by side and one after the other
    HttpScenes      \* what may happen: [by, ops, asks, requests, ticks]

-----------------------------------------------------------------------------
\* A read gives something, lacks it, finds it unfit or throws, and the handler
\* goes on or answers with a status.
Proceeds == 0
Gives(says) == [saw |-> "value", says |-> says]
Lacks(says) == [saw |-> "nothing", says |-> says]
Unfit(says) == [saw |-> "unfit", says |-> says]
Throws(says) == [saw |-> "error", says |-> says]
MayFail == {Gives(Proceeds), Throws(500)}
LackOrFail == MayFail \cup {Lacks(404)}

\* A handler: its reads, what it says of parameters it refuses (0: it takes them all),
\* how many reads it makes before it looks at them, what it says in the end, whose
\* network the answer is about, and whether the answer is kept.
Handler(reads, names, bad, before, ends, keeps) ==
    [reads |-> reads, names |-> names, bad |-> bad, before |-> before, ends |-> ends, keeps |-> keeps]
Accepts(reads, names) == Handler(reads, names, Proceeds, 0, 200, FALSE)
Checks(reads, names) == Handler(reads, names, 400, 0, 200, FALSE)
Queues(reads, names) == Handler(reads, names, 400, 0, 202, FALSE)

\* Zone concierge and BSN consumers
GetZoneParams == Checks(<<MayFail>>, "bsn")
GetFinalizedBSNs == Checks(<<MayFail>>, "bsn")
GetFinalizedBSN == Checks(<<LackOrFail>>, "bsn")
GetFinalizationStatus == Checks(<<MayFail>>, "bsn")
GetLatestFinalized == Checks(<<LackOrFail, MayFail>>, "bsn")
GetZoneEpoch == Checks(<<LackOrFail>>, "bsn")
GetBSNProviders == Checks(<<MayFail>>, "bsn")
GetBSNWithProviders == Checks(<<LackOrFail>>, "bsn")
GetBlockSignatures == Checks(<<MayFail>>, "bsn")
GetVoterStats == Checks(<<LackOrFail>>, "bsn")
GetAllVoterStats == Checks(<<MayFail>>, "bsn")
GetConsumers == Checks(<<MayFail>>, "bsn")
GetConsumerStats == Checks(<<MayFail>>, "bsn")
GetConsumer == Checks(<<LackOrFail>>, "bsn")
GetConsumerStatus == Checks(<<MayFail, LackOrFail>>, "bsn")
ZoneHandlers == {
    GetZoneParams, GetFinalizedBSNs, GetFinalizedBSN, GetFinalizationStatus, GetLatestFinalized,
    GetZoneEpoch, GetBSNProviders, GetBSNWithProviders, GetBlockSignatures, GetVoterStats,
    GetAllVoterStats, GetConsumers, GetConsumerStats, GetConsumer, GetConsumerStatus}

\* Blocks and transactions.  A block that is not found is told by the height of the chain,
\* and so is an error that speaks of heights.
GetNetworks == Accepts(<<>>, "any")
StartSync == Queues(<<>>, "any")
GetTx == Checks(<<LackOrFail>>, "query")
GetLatestTxs == Handler(<<MayFail>>, "query", 400, 0, 200, TRUE)
GetBlock == Checks(<<{Gives(200), Lacks(Proceeds), Throws(404), Throws(500)}, {Gives(404), Throws(404)}>>, "query")
GetTxsOfBlock == Checks(<<MayFail>>, "query")
GetLatestBlock == Checks(<<LackOrFail>>, "query")
GetLatestBlocks == Checks(<<MayFail>>, "query")
GetBlockByHash == Checks(<<LackOrFail>>, "query")
GetTransactions == Accepts(<<MayFail>>, "selected")
GetBTCTransactions == Accepts(<<MayFail>>, "selected")
BlockHandlers == {
    GetNetworks, StartSync, GetTx, GetLatestTxs, GetTxsOfBlock, GetLatestBlock, GetLatestBlocks,
    GetBlockByHash, GetTransactions, GetBTCTransactions}

\* Contracts and their codes; the source of a contract is looked for by a field it has not.
GetContracts == Accepts(<<MayFail, MayFail>>, "any")
GetContract == Checks(<<LackOrFail, MayFail>>, "any")
GetContractsOf == Checks(<<MayFail \cup {Lacks(200)}, MayFail, MayFail>>, "any")
GetMethods == Checks(<<LackOrFail>>, "any")
GetSuggestions == Checks(<<LackOrFail, MayFail>>, "any")
QueryContract == Checks(<<{Gives(Proceeds), Throws(400)}>>, "any")
QueryRaw == Checks(<<{Gives(Proceeds), Throws(400)}>>, "any")
GetSchema == Checks(
    <<LackOrFail, LackOrFail \cup {Unfit(400), Unfit(200)}, MayFail \cup {Gives(200), Lacks(400), Unfit(400)}, MayFail>>, "any")
GetCodes == Accepts(<<MayFail, MayFail>>, "any")
GetCode == Checks(<<LackOrFail>>, "any")
GetContractsOfCode == Checks(<<LackOrFail, MayFail, MayFail>>, "any")
GetWasmState == Accepts(<<MayFail>>, "state")
GetContractState == Checks(<<MayFail \cup {Throws(400)}>>, "any")
GetContractHistory == Checks(<<MayFail \cup {Throws(400)}>>, "any")
GetContractTxs == Checks(<<MayFail>>, "any")
GetCodeTxs == Checks(<<MayFail>>, "any")
GetCodeSource == Checks(<<LackOrFail \cup {Unfit(404)}, LackOrFail>>, "query")
GetContractSource == Checks(<<{Lacks(404), Throws(500)}>>, "query")
GetFile == Checks(<<LackOrFail>>, "query")
VerifyUpload == Queues(<<LackOrFail \cup {Unfit(400)}, MayFail>>, "any")
VerifyGitHub == Queues(<<LackOrFail \cup {Unfit(400)}, MayFail>>, "any")
GetVerification == Checks(<<LackOrFail>>, "any")
GetVerifications == Checks(<<MayFail>>, "any")
WasmHandlers == {
    GetContracts, GetContract, GetContractsOf, GetMethods, GetSuggestions, GetSchema, GetCodes, GetCode,
    GetContractsOfCode, GetWasmState, GetContractTxs, GetCodeTxs, GetCodeSource, GetContractSource,
    GetFile, VerifyUpload, VerifyGitHub, GetVerification, GetVerifications}

\* Checkpoints (one asks for the epoch before it looks at its parameters), covenant, governance, parameters
GetCheckpoint == Checks(<<LackOrFail>>, "selected")
GetCheckpoints == Handler(<<MayFail, MayFail, LackOrFail>>, "selected", 400, 1, 200, FALSE)
GetCheckpointVotes == Checks(<<LackOrFail>>, "selected")
GetEpochVotes == Accepts(<<MayFail, LackOrFail>>, "selected")
GetCheckpointStats == Checks(<<MayFail, MayFail, LackOrFail>>, "selected")
GetMembers == Accepts(<<>>, "covenant")
GetMemberStats == Accepts(<<LackOrFail, MayFail>>, "covenant")
GetTxSignatures == Accepts(<<LackOrFail>>, "covenant")
GetRecentTxs == Accepts(<<MayFail>>, "covenant")
GetProposals == Accepts(<<MayFail>>, "selected")
GetProposal == Accepts(<<LackOrFail>>, "selected")
GetProposalVotes == Accepts(<<MayFail \cup {Lacks(200)}, MayFail>>, "selected")
GetProposalStats == Accepts(<<LackOrFail>>, "selected")
GetGovernanceParams == Accepts(<<LackOrFail>>, "selected")
GetAllParams == Accepts(<<MayFail \cup {Throws(404)}>>, "own")
GetModuleParams == Checks(<<LackOrFail \cup {Throws(404)}>>, "own")
ChainHandlers == {
    GetCheckpoint, GetCheckpoints, GetCheckpointVotes, GetEpochVotes, GetCheckpointStats, GetMembers,
    GetMemberStats, GetTxSignatures, GetRecentTxs, GetProposals, GetProposal, GetProposalVotes,
    GetProposalStats, GetGovernanceParams}

\* Validators, finality providers and their rewards
GetValidator == Checks(<<LackOrFail>>, "query")
GetValidators == Checks(<<MayFail>>, "query")
GetSignatures == Checks(<<MayFail>>, "query")
GetSignaturesOf == Checks(<<LackOrFail>>, "query")
GetMissedBlocks == Checks(<<MayFail>>, "query")
GetSignaturesByValoper == Checks(<<LackOrFail>>, "query")
GetProviderDelegations == Checks(<<MayFail>>, "selected")
GetFinalityEpoch == Accepts(<<MayFail>>, "own")
GetProviderEpoch == Accepts(<<MayFail>>, "selected")
GetProviders == Checks(<<MayFail, MayFail, MayFail>>, "selected")
GetInactive == Checks(<<MayFail, MayFail, MayFail, MayFail>>, "selected")
GetProvider == Accepts(<<LackOrFail, MayFail, MayFail>>, "selected")
GetPower == Accepts(<<LackOrFail>>, "selected")
GetVotes == Accepts(<<MayFail, MayFail>>, "selected")
GetStakersOf == Checks(<<MayFail>>, "selected")
GetAllStakers == Checks(<<MayFail>>, "selected")
GetRewards == Checks(<<MayFail>>, "selected")
GetRewardsByKey == Accepts(<<LackOrFail, MayFail>>, "selected")
GetRewardsSummary == Accepts(<<MayFail>>, "selected")
ProviderHandlers == {
    GetValidator, GetValidators, GetSignatures, GetSignaturesOf, GetMissedBlocks, GetSignaturesByValoper,
    GetProviderDelegations, GetFinalityEpoch, GetProviderEpoch, GetProviders, GetInactive, GetProvider, GetPower,
    GetVotes, GetStakersOf, GetAllStakers, GetRewards, GetRewardsByKey, GetRewardsSummary}

\* Delegations, stakers, IBC
GetDelegations == Checks(<<MayFail>>, "selected")
GetDelegation == Accepts(<<LackOrFail>>, "selected")
GetDelegationsOf == Checks(<<MayFail>>, "selected")
GetStakers == Accepts(<<MayFail, MayFail>>, "any")
GetStaker == Accepts(<<LackOrFail>>, "any")
GetStakerParts == Accepts(<<LackOrFail, MayFail>>, "any")
GetChannel == Accepts(<<LackOrFail>>, "selected")
GetChannels == Checks(<<MayFail>>, "selected")
GetChannelStats == Accepts(<<MayFail>>, "selected")
GetChannelActivity == Accepts(<<LackOrFail>>, "selected")
GetClient == Accepts(<<LackOrFail>>, "selected")
GetClients == Checks(<<MayFail>>, "selected")
GetClientStats == Accepts(<<MayFail>>, "selected")
GetConnection == Accepts(<<LackOrFail>>, "selected")
GetConnections == Checks(<<MayFail>>, "selected")
GetConnectionStats == Accepts(<<MayFail>>, "selected")
GetPackets == Checks(<<MayFail>>, "selected")
GetPacketStats == Accepts(<<MayFail>>, "selected")
GetTransfers == Checks(<<MayFail>>, "selected")
GetTransferStats == Accepts(<<MayFail>>, "selected")
GetTotals == Accepts(<<MayFail>>, "selected")
GetRelayers == Accepts(<<MayFail>>, "selected")
ListHandlers == {
    GetDelegations, GetDelegation, GetDelegationsOf, GetStakers, GetStaker, GetStakerParts, GetChannel, GetChannels,
    GetChannelStats, GetChannelActivity, GetClient, GetClients, GetClientStats, GetConnection, GetConnections,
    GetConnectionStats, GetPackets, GetPacketStats, GetTransfers, GetTransferStats, GetTotals, GetRelayers}

\* The routes without a version, which have no network; some refuse by throwing.
ListProviders == Accepts(<<MayFail>>, "legacy")
ShowProvider == Handler(<<MayFail>>, "legacy", 500, 0, 200, FALSE)
GroupStakers == Handler(<<MayFail>>, "legacy", 500, 0, 200, FALSE)
ListStakers == Accepts(<<MayFail>>, "legacy")
ShowStaker == Handler(<<{Gives(Proceeds), Throws(404)}>>, "legacy", 404, 0, 200, FALSE)
ShowStats == Accepts(<<MayFail>>, "legacy")
ShowPhase == Accepts(<<LackOrFail>>, "legacy")
ListPoints == Accepts(<<MayFail, MayFail, MayFail>>, "legacy")
ShowPoints == Accepts(<<LackOrFail>>, "legacy")
ShowBatch == Checks(<<MayFail>>, "legacy")
ShowVotes == Checks(<<MayFail>>, "legacy")
LegacyHandlers == {
    ListProviders, ShowProvider, GroupStakers, ListStakers, ShowStats, ShowPhase, ListPoints, ShowPoints,
    ShowBatch, ShowVotes}

\* Those that tell an error as something else
Veiled == {
    GetBlock, QueryContract, QueryRaw, GetContractState, GetContractHistory, GetAllParams, GetModuleParams, ShowStaker}
Handlers ==
    ZoneHandlers \cup BlockHandlers \cup WasmHandlers \cup ChainHandlers \cup ProviderHandlers \cup ListHandlers
      \cup LegacyHandlers \cup Veiled

-----------------------------------------------------------------------------
\* What a request says of the network, in its query and in its header, and
\* whether the rest of its parameters will do
HttpNetworks == {"mainnet", "testnet"}
Spelled == HttpNetworks \cup {"MAINNET", "TESTNET", "none", "other"}
Queries == [query : Spelled, header : Spelled, fit : BOOLEAN]

ASSUME HttpAssumption ==
    /\ {KeepsFor, HitWindow, MaxHits} \subseteq Nat \ {0} /\ OwnNetwork \in HttpNetworks
    /\ \A s \in HttpScenes :
          s.by \subseteq Slots /\ s.ops \subseteq Handlers /\ s.asks \subseteq Queries /\ {s.ticks, s.requests} \subseteq Nat

VARIABLES
    httpScene,
    serving,        \* the requests
    kept,           \* memoryCache, by the network in the URL
    hits, window,   \* of the client: its requests, and since when they are counted
    came,           \* how many requests have come
    ticks

httpVars == <<httpScene, serving, kept, hits, window, came, ticks>>

\* saw: what its reads met; since: when it came; asOf: when its answer was read; hit: whether that was kept
Serving(op, ask, at, saw, says, since, asOf, hit) ==
    [op |-> op, ask |-> ask, at |-> at, saw |-> saw, says |-> says, since |-> since, asOf |-> asOf, hit |-> hit]
NotServing == Serving(GetNetworks, [query |-> "none", header |-> "none", fit |-> TRUE], 0, {}, 0, 0, 0, FALSE)
NotKept == [since |-> 0, asOf |-> 0, there |-> FALSE]

HttpInit ==
    /\ httpScene \in HttpScenes /\ serving = [q \in Slots |-> NotServing]
    /\ kept = [n \in HttpNetworks |-> NotKept] /\ hits = 0 /\ window = 0 /\ came = 0 /\ ticks = 0

-----------------------------------------------------------------------------
\* networkSelector puts what it is given into small letters.
Lowered(raw) == CASE raw = "MAINNET" -> "mainnet" [] raw = "TESTNET" -> "testnet" [] OTHER -> raw
Chosen(ask) ==
    CASE ask.query # "none" -> Lowered(ask.query)
      [] ask.query = "none" /\ ask.header # "none" -> Lowered(ask.header)
      [] OTHER -> "testnet"

\* The network that a handler takes: that of the selector, or its own reading of the query as it came.
About(op, ask) ==
    CASE op.names = "selected" -> Chosen(ask)
      [] op.names = "query" -> ask.query
      [] op.names \in {"bsn", "state"} -> IF ask.query = "none" THEN "mainnet" ELSE ask.query
      [] op.names = "covenant" -> IF ask.query = "mainnet" THEN "mainnet" ELSE "testnet"
      [] op.names = "own" -> OwnNetwork
      [] OTHER -> "any"
Misnamed(op, ask) == op.names # "legacy" /\ Chosen(ask) = "other"
Misfit(op, ask) == op.bad # 0 /\
    \/ ~ask.fit
    \/ op.names = "query" /\ ask.query \notin HttpNetworks
    \/ op.names = "bsn" /\ ask.query \notin HttpNetworks \cup {"none"}

\* rateLimiter
HitsNow == IF hits = 0 \/ ticks - window >= HitWindow THEN 1 ELSE hits + 1
Counted ==
    /\ hits' = IF HitsNow > MaxHits THEN MaxHits + 1 ELSE HitsNow
    /\ window' = IF HitsNow = 1 THEN ticks ELSE window
    /\ UNCHANGED <<httpScene, ticks>>

ToldAs(r, says) == Serving(r.op, r.ask, 0, r.saw, says, r.since, r.asOf, r.hit)
\* A handler comes to its i-th read, or to its parameters, or to its end.
Reaches(r, i) ==
    CASE i = r.op.before + 1 /\ Misfit(r.op, r.ask) -> ToldAs(r, r.op.bad)
      [] ~(i = r.op.before + 1 /\ Misfit(r.op, r.ask)) /\ i > Len(r.op.reads) -> ToldAs(r, r.op.ends)
      [] OTHER -> [r EXCEPT !.at = i]

\* Mutant: the last moment counts as well.
StillKeptLate(op, ask) ==
    op.keeps /\ ask.fit /\ ask.query \in HttpNetworks /\ kept[ask.query].there /\ ticks - kept[ask.query].since <= KeepsFor

\* cacheMiddleware: what is kept counts from when its request came.
StillKept(op, ask) ==
    op.keeps /\ ask.fit /\ ask.query \in HttpNetworks /\ kept[ask.query].there /\ ticks - kept[ask.query].since < KeepsFor

\* A request comes: to the limit, to the selector, to what is kept, to its handler.
RequestComes(q) ==
    /\ q \in httpScene.by /\ serving[q].at = 0 /\ came < httpScene.requests /\ came' = came + 1
    /\ \E op \in httpScene.ops, ask \in httpScene.asks :
          LET r == Serving(op, ask, 0, {}, 0, ticks, ticks, FALSE) IN
          /\ serving' = [serving EXCEPT ![q] =
                CASE HitsNow > MaxHits -> ToldAs(r, 429)
                  [] ~(HitsNow > MaxHits) /\ Misnamed(op, ask) -> ToldAs(r, 400)
                  [] ~(HitsNow > MaxHits) /\ ~Misnamed(op, ask) /\ StillKept(op, ask) ->
                        Serving(op, ask, 0, {}, 200, ticks, kept[ask.query].asOf, TRUE)
                  [] OTHER -> Reaches(r, 1)]
    /\ Counted /\ UNCHANGED kept

\* A read of a handler ends, and perhaps the handler with it.
ReadEnds(q) ==
    /\ serving[q].at # 0
    /\ \E o \in serving[q].op.reads[serving[q].at] :
          LET s == serving[q]
              r == Serving(s.op, s.ask, s.at, s.saw \cup {o.saw}, s.says, s.since, ticks, s.hit)
              next == IF o.says = Proceeds THEN Reaches(r, r.at + 1) ELSE ToldAs(r, o.says)
          IN /\ serving' = [serving EXCEPT ![q] = next]
             /\ kept' = IF r.op.keeps /\ next.says = 200
                          THEN [kept EXCEPT ![r.ask.query] = [since |-> r.since, asOf |-> ticks, there |-> TRUE]]
                          ELSE kept
    /\ UNCHANGED <<httpScene, hits, window, came, ticks>>

HttpTick == ticks < httpScene.ticks /\ ticks' = ticks + 1 /\ UNCHANGED <<httpScene, serving, kept, hits, window, came>>

HttpNext == (\E q \in Slots : RequestComes(q) \/ ReadEnds(q)) \/ HttpTick

\* A restart takes the requests, what is kept and the counts.
HttpForgets ==
    /\ serving' = [q \in Slots |-> NotServing] /\ kept' = [n \in HttpNetworks |-> NotKept] /\ hits' = 0 /\ window' = 0
    /\ UNCHANGED <<httpScene, came, ticks>>

HttpSpec == HttpInit /\ [][HttpNext \/ HttpForgets]_httpVars

-----------------------------------------------------------------------------
ServingType == [
    op : Handlers, ask : Queries, at : Nat, saw : SUBSET {"value", "nothing", "unfit", "error"},
    says : {0, 200, 202, 400, 404, 429, 500}, since : Nat, asOf : Nat, hit : BOOLEAN]
HttpTypeOK ==
    /\ httpScene \in HttpScenes /\ serving \in [Slots -> ServingType]
    /\ kept \in [HttpNetworks -> [since : Nat, asOf : Nat, there : BOOLEAN]]
    /\ hits \in 0..(MaxHits + 1) /\ window \in Nat /\ came \in Nat /\ ticks \in Nat

\* What a status says is so of what the handler's own reads met: a service that turns an error of
\* the node into a default has given it a value.  Only those named Veiled tell an error as "not
\* found" (routes/index.ts:337) or "bad request" (contract.controller.ts:290); no handler tells one as success.
ToldTruly(r) ==
    /\ r.says \in {200, 202} => "error" \notin r.saw
    /\ r.says = 500 => "error" \in r.saw \/ Misfit(r.op, r.ask)
    /\ r.says = 404 => r.saw \cap {"nothing", "unfit"} # {} \/ r.op \in Veiled
    /\ r.says = 400 =>
          Misnamed(r.op, r.ask) \/ Misfit(r.op, r.ask) \/ r.saw \cap {"nothing", "unfit"} # {} \/ r.op \in Veiled

\* A request that is refused has read nothing, except what comes before the check (bls-checkpoint.controller.ts:57).
RefusedUnread(r) ==
    r.says # 0 /\ (r.says = 429 \/ Misnamed(r.op, r.ask) \/ (Misfit(r.op, r.ask) /\ r.op.before = 0)) => r.saw = {}

\* An answer is about the network that the selector chose, except where the handler asks for that
\* of the process, has a default of its own (BSNConsumerController.ts:53), or takes a query in
\* capitals as it came (covenant.controller.ts:11, history.controller.ts:14); one that checks the
\* query refuses such a one.
AboutChosen(r) ==
    r.says \in {200, 202} =>
        \/ About(r.op, r.ask) \in {"any", Chosen(r.ask)} \/ r.op.names = "own"
        \/ r.op.names = "bsn" /\ r.ask.query = "none"
        \/ r.op.names \in {"covenant", "state"} /\ r.ask.query \notin HttpNetworks

\* An answer that was kept is younger than it may be kept, however long its request took (cache.middleware.ts:78).
KeptYoung(r) == r.hit => r.asOf <= r.since /\ r.since - r.asOf < KeepsFor

HttpHolds ==
    HttpTypeOK /\ \A q \in Slots :
        ToldTruly(serving[q]) /\ RefusedUnread(serving[q]) /\ AboutChosen(serving[q]) /\ KeptYoung(serving[q])
=============================================================================
