# Verification of the Babylon indexer

TLA+ models of the indexer in `src/`, the TLC runs that check them on small instances, and theorems about
them that TLAPS proves for every value of the constants. The models follow the code, not its documentation.
Where a comment promises what the code does not do, a run that ends in a violation shows it.

## 1. The system

One Node.js process, kept alive by PM2, reads the Babylon chain and Bitcoin and keeps what it
finds in MongoDB. A single event loop runs everything, so code between two `await`s is atomic, and every
`await` lets any other handler run. MongoDB writes are single-document operations with no transactions.
Nearly every hard behaviour follows from those two facts.

| Component | State | Operations | Talks to |
|---|---|---|---|
| WebSocket connection (`services/websocket`) | connection map, `reconnectAttempts`, `reconnectLocks`, timers | connect, `handleOpen`, `handleClose`, `handleError`, `handleReconnect`, `reconnectNetwork`, health checks | node; tracker; signature sync |
| Health tracker and gap fill (`WebsocketHealthTracker`, `MissedBlocksProcessor`) | `lastProcessedHeight` in memory and in Redis, a mutex | `updateBlockHeight`, `handleReconnection`, `processMissedBlocks`, load at start-up | node; delegation events |
| Message dispatch (`WebSocketMessageService`) | the processors | `processMessage` runs every processor that accepts a message, in parallel, without a queue | every handler below |
| Validator signatures (`services/validator`) | one document per validator | `handleNewBlock`, `startSync` | NewBlock messages; node |
| BTC phase indexer (`BabylonIndexer`, `database/services`) | transactions, providers, stakers, phase statistics, last block | `scanBlocks` | Bitcoin node |
| BTC delegations (`services/btc-delegations`) | delegations, staker documents with copies of them | staking events, crawler, recalculation script | messages and gap fill; node |
| Block and transaction store (`services/block-processor`) | blocks, transactions, statistics | live blocks, historical sync, recount | node |
| Checkpoints (`services/checkpointing`) | checkpoint per epoch: status, lifecycle | status events, fetcher | messages; node |
| Covenant, governance | signature documents; vote documents, proposal status | events, initial sync, periodic check | messages; node |
| IBC (`services/ibc`) | clients, connections, channels, packets, relayer counters | packet and handshake events, a reconciliation round every five minutes | messages; node |
| Finality (`services/finality`) | signature cache in memory and in Redis, flags, remembered ranges | fetch with retries, range checks, cleanup, driven by API requests | node; API |
| CosmWasm (`services/cosmwasm`) | codes, contracts, counts; verification records, source trees and files | full and incremental passes, verification of a submitted source | node; API; GitHub |
| API services (`FinalityProviderService`, `StakeholderRewardsService`, BSN, `PointsProxyService`, queries, statistics) | entries in Redis with a time to live, maps of the fetches under way | cached reads that read each other, background refresh | node; database; Redis; API |
| Pages of the API (`TxService`, `BlockService`, their caches) | cached pages, cursor history, a count of full copies, cached blocks | pages by cursor or number, the latest block, a block by its height (fetched if missing) | database; node; API |
| HTTP handlers (`api`) | requests being served, one kept page per network, hits of a client | rate limit, choice of the network, kept page, every handler | all services; clients |
| Chain clients (`clients`, `BLSCheckpointFetcher`) | indexes of the node and RPC URLs, the clients made with them | requests with retries, operations with retries, rotation of all clients after a failure | node; everything |
| BSN upserts, decoders | consumers | upserts, decoding | everything |

What is hard, and where it bites, is listed line by line under `hazards` in `PROJECT.json`: handlers that
overlap at an `await`, events that come late, twice, out of order or never, a socket that closes after it was
replaced, saves that conflict and are retried, a batch of which one part fails, and restarts between two writes.

What makes each component correct:

* *Tracker*: no height at or below `lastProcessedHeight` was passed over silently; it catches up with the chain.
* *Connection*: a dead connection is always being repaired, an open one gets its subscriptions, and a healthy
  one is left alone.
* *Signatures*: the counters describe the blocks of the window, whatever overlaps.
* *Phase indexer*: every stake below the resume point is stored and counted once, the phase totals are sums.
* *Delegations*: the staker's copy of a delegation agrees with the delegation, but for what the crawler changes without telling
  the staker, and states reach those of the chain.
* *Store*: no block between two stored blocks is missing for ever; statistics agree with what is stored.
* *Checkpoints*: a status goes back only by a writer that came late; a fetched checkpoint gets its votes.
* *IBC*: reconciliation repairs what events got wrong, as far as the node's page reaches; a packet, and a relayer's work on it, is counted once per event.
* *Covenant, governance*: no signature or vote recorded at the same time as another is lost.
* *Finality*: a remembered range lacks only what a fetch gave up; no flag outlives its fetch; every request is answered.
* *Cached reads*: no answer is older than the entries behind it allow, a newer entry is not replaced by an older one, and
  fetches that wait for each other's entries do not wait in a circle.
* *Chain clients*: a call that gives up has asked every server it could have, or two that had not what it wanted.
* *Pages*: a client that walks them gets what was there all the time, once; the latest block is not cached past its ten
  seconds, and a block of the chain is found.
* *HTTP*: whatever a handler's reads meet, the client is told what happened, about the network it asked for, and no error as
  success; a page that was kept is given out only while it is young.
* *CosmWasm*: every code and contract of the chain is indexed in the end, counts are those of stored contracts, and
  a verdict, the code it is about and the files stored for it belong together.

## 2. Modules

`X.tla` holds constants with their assumptions, one action per handler step between two awaits, the fairness,
and the properties at its end. `MCX.tla` gives values to structured constants. The theorems are in modules of
their own (section 5), which extend the modules they are about and TLAPS. Definitions whose comment starts with "Mutant" are plausible faults: none is used by the
specification, and each documents a change that a property must notice. The exact lines that a definition stands
for are in the `map` of `PROJECT.json`.

    ResumeLedger                 what a resume point promises
      ^ implemented by
    HealthTracker, BlockStore    (INSTANCE ResumeLedger WITH ..., property KeepsLedger)

    Messages                     the node, its subscriptions and deliveries
      ^ extended by
    Covenant, Governance, Checkpoints, TxStore
      ^ composed by
    MessageService               one message starts a call of each

    Delegations <- extended by - StakerSheets
    IbcState   <- extended by -  IbcPackets
    WasmIndex  <- extended by -  WasmVerifier

    FinalityVotes, CachedReads, TxPages, BlockPages, NodeClients, HttpApi
      ^ composed by
    ApiProcess                   one process, one restart

    WsConnection, ValidatorSignatures, PhaseScan stand alone

### ResumeLedger
The abstract specification of everything that resumes from a stored height: a resume point, the heights settled and
those in somebody's hands. What is settled stays so. A crash may drop what was in hand above the resume point,
never below it. The point moves only to a height below which nothing is missing. The tracker implements it with
its Redis height, the block store with its highest stored block.

### HealthTracker
State: the chain (`tip`, and `firing` between a block's NewBlock event and its Tx events), the socket and the
subscriptions accepted on it, messages on the wire, `lastProcessedHeight` in memory (`last`) and in Redis
(`cached`), the queue of the mutex with the position of its holder, the start-up load. The history variable
`passed` holds the heights that nobody will look at again.
Actions: `BlockEnter`, `GapBatch`, `BlockAdvance`, `StoreHeight` are `updateBlockHeight` cut at its awaits;
`ReconnectEnter`, `ReconnectHeight`, `ReconnectAdvance` are `handleReconnection`; `LoadGet` and `LoadSet` are
the load that does *not* take the mutex; `Restart` loses memory and keeps Redis. Height queries may be answered
by an endpoint that lags, and heights of a gap may fail, which the code only logs.
The socket is reduced to closed, opened and ready here.

### WsConnection
State: the connection in the map, sockets that are no longer in it (counted), close events to come, timers,
attempts, the lock of `reconnectNetwork` and the pending checks of the monitor. Handlers get the network, not
the connection they were installed on, so an event of an old socket acts on the new one: the `Stray...`
actions. An aborted handshake emits its events from `process.nextTick`, which `Calm` expresses.
HealthTracker's closed / opened / ready socket is an abstraction of this module. It is not stated as a
refinement, because the tracker's socket also loses the messages on it, which this module does not carry.

### ValidatorSignatures
The document of one validator. Four database round trips of each `handleNewBlock` call are four actions
(`Find`, `Create` or `CountOthers`, `Increment`, `ReadBack`, `SetTotals`), so live blocks and the batches of
`startSync` interleave. `snap` is what a call read back. `startSync` is `StartSync` to `SyncDone`, with the
binary search over pruned heights reduced to what it can answer.

### PhaseScan
`scanBlocks` of `BabylonIndexer`. `pc` walks one batch through fetch, insert, the parallel updates of providers
and stakers (`ReadDoc`, `WriteDoc` per document), and per height the phase statistics (`FlagTxs`, `IncStats`)
and the resume height (`Mark`). `strays` are updates that a rejected `Promise.all` leaves running into the next
batch. `Crash` may come anywhere; `Start` models what a restart reads and resets. Amounts are added, so caps
and overflow are real.

### Delegations
`chain` moves and emits events; `Deliver` hands any emitted event to `handleEvent`, live or again. Each call
looks at the delegation, writes it, reads its staker's document and saves it (`Look`, `Insert` or `Write`,
`ReadStaker`, `SaveStaker`); the crawler's service is another, which writes the delegation and stops (`CrawlWrite`). mongoose's version check is `Fresh`; a conflict is retried on a fresh document
(`VersionConflict`) until `TriesLeft` is false. The crawler's pages are computed with skip and limit over the
shrinking result, as in the code. `Recalc...` is the recalculation script, a second process. Two history variables say where the
staker's copy may be outdated: `overtaken` has delegations with an update that was given up or overtaken, `crawled` those that
the crawler changed and that no event or recalculation has brought to the staker since.

### StakerSheets
The figures in a staker's document: totals, counts by state, of the phase, of the finality provider, and the recent
delegations, which each save of `Delegations` writes with the copies it read. `Updated` is the order of the code:
`WithRecent`, then `WithStats` with the `OldState` it finds in the list that `WithRecent` has just changed, then `WithTotals`.
So an increment never sees a change, and what an update leaves right is what `recalculateTotals` counts again.
`Recalculated` is the sheet the script builds.

### BlockStore
`blocks` are the stored heights, `live` the heights in `processBlockFromWebsocket`, `sync[c]` one call of
`startSync`: that of the boot, or one of the API, which nothing keeps from overlapping it. `ReadLatest`,
`ReadHeight`, `ReadWindow`, `SyncBlock` and `SyncDone` are `startSync`, `syncFromHeight` and `syncLatestBlocks` cut at
their awaits; only `syncFromHeight` looks at `isSyncing`. `SaveAskedBlock` is the block of the chain that a reader asked for and that was
not stored: it is fetched and saved at any height. `Latest` is where the next sync begins. The history variable `lost` names
the heights that nobody will fetch, each for a reason one can point to in the code: a failed block is only logged, a sync was
told to start above it or fell back to the latest blocks, a live block, or one that a reader asked for, was stored above it while the process knew
nothing of it, or the process died between the two. The promise is that there is no further reason.

### Messages and MessageService
The node sends a message once for each of the five subscriptions it matches, so a transaction may arrive twice,
and `processMessage` starts all processors at once and queues nothing: `Deliveries` are handed over late, out of
order or never. `Chains` lists the histories that take place, with the background services that run in each.
`MessageService` composes the four components below: `ProcessMessage` hands a delivery to all of them in one
step, as `Promise.all` does, and their calls then interleave freely.

### Covenant
One covenant document. A call loads it, changes one entry of its copy, recounts the copy and saves only what it changed,
as mongoose does (`SaveEntry`): entries of two saves both survive, counts need not. `miscounted` records that the
last save recounted an outdated copy.

### Governance
The votes document of a proposal and its status. Votes, the initial sync and the check of ended proposals
all read, await and write. A vote VETO makes `updateVoteCounts` throw, as in the code, so it is never stored.
A handler writes its voter's entry even where the option is the same, since the time of the vote is another; the sync skips entries equal to the
copy it holds, unless the voter has changed options on the chain (`again`).

### Checkpoints
The status of one epoch's checkpoint with four writers: the handler of status events, the fetch of a sealed
checkpoint, the sync of missing epochs and the sync of statuses. `Creatable` is the schema: a document without
a signature is refused. `unvoted` records votes that failed after the checkpoint was stored.

### TxStore
Stored transactions and their count. The document of an upsert is never `isNew`, so nothing increments the count, and
only the three callers of `updateStats` bring it up to date, racing with saves and with each other.

### IbcState and IbcPackets
`IbcState` has the documents of a client, its connection and its channels with their two kinds of writers: events, and
rounds of reconciliation, each a pass over clients, connections and channels that reads all documents, asks the
node, compares and saves, then fills in counterparties. A round works on copies; two rounds may overlap. Event states and
node states have different names (`Api`). The node is asked without pagination, so it names the first `page` objects of a kind in the order of
its store (`Rank`), and those behind are `Beyond`. `IbcPackets` adds packet events, each of which starts three calls side by
side: the packet's status, the relayer's numbers with its list of channels, and the channel's packet count, which the
rounds overwrite. A packet received shares the document of one sent when the channel has the same id at both ends, so
the scene `Outcomes` has both kinds of events for one packet. The increment of a
relayer's channel asks for channel and port in two conditions without `$elemMatch`, and the positional `$` takes the place that the condition looked at last has
found: `IncEntry` raises the entry of the channel or the first one of its port. `Scenes` picks which of this takes place in a behaviour.

### WasmIndex and WasmVerifier
The chain has codes with their contracts, which may migrate. A full pass goes through pages of codes (newest first, each
page keyed by the last code of the one before) and the contracts of each; an incremental pass takes the codes above the
greatest one stored, then looks for new contracts of those it knows. `isRunning` is set only after the first pass, and the
two timers do not look at each other, so passes overlap: a pass is a record with its place in the code, and every find, save
and count of it is an action. A contract that has migrated is counted for its new code while the old one keeps its number
until its next recount. `WasmVerifier` adds submissions: a record, the build (its result is the stored hash, another, or an error), the marks of
the code and its contracts, the source tree and its files, each deleted and then stored with no exclusion.

### FinalityVotes
One cache of votes per height and the two flags of a fetch: `processing` for the height and `locks` for an attempt. A
request asks for a range, splits what is missing into batches, fetches each height and remembers the range. An attempt reads the
height of the chain, perhaps sleeps, reads the votes, and retries when there are none or when the height is recent. A node that cannot be reached is seen as height 0, so as
"recent", or as no votes (`CallFails`); only Redis makes an attempt fail. `return
this.fetchAndCacheSignatures(...)` inside the `try` is not awaited, so the `finally` of each outer attempt runs while the retry is
still working: the height is then no longer in `processing`, against the comment that a request in progress is skipped, and
`Released` says which flags fall when. A retry after a success returns at once, since the height has data: later votes are never added.

### CachedReads
`getWithRevalidate` of four services, `getStats` with its refresher, and the reads that get and set without a map
of fetches under way. `Plans` has the 33 keys: what a fetch asks of its own, which entries it reads, at which stage, what
an error does to it (it is thrown, a stage swallows it, or the fetch ends with a default), and its time to live. The active providers and
the total power begin with the height of the chain, for which an error is 0 (`Height`): their entries may be incomplete though all else is thrown. `entries` is what
Redis has, `wire` the commands on the one connection, answered in order, `flight` the map of promises, `readers` who waits for
an answer of Redis or for a fetch. `Hit`, `HitOld`, `Join` and `Miss` are what a reader does with an answer, up to its
next await; `Stored` ends a fetch, `Deliver` resumes who awaits its result. A failed GET reads as no entry and a
failed SET as done, as `CacheService` has it.
Time is in ticks of five minutes, the usual time to live; three ticks stand for hours. `Lag` is how long a fetch may take: the
calls of the node have no time limit, so `AnswersAreRecent` is relative to it. Since an entry's time to live in Redis is the
age at which it is revalidated, `HitOld` is taken only in the last moment of an entry: `lastFetched` is read before the SET.
An answer is no older than its key's time to live and a fetch allow (`AgeOf`), or by as much again of an entry that this fetch has read: keys
that read each other add up their ages. `EntriesRenew` is `EntriesFollow` (what replaces an entry was begun after that one had been
fetched, so it is older only by what it has read) and `Renews` (between complete entries not even by that, with at most one mishap).

### TxPages
Transactions have a position, their height and time. `AskPage`, `FindPage`, `AnswerPage` and `FindPrev` are
`getLatestTransactions` cut at its awaits; a hit on the first page starts `RefreshPage` unless one is under way. `walk` is a
client that goes on with the cursor it was given, and notes where each transaction was when each of its pages was read. `jobs` are
the callers of `saveTx`: a message, which saves twice, a sync, and a request for a height, which looks for the stored ones first and
fetches the rest. For the types in `LiteTxs` a save decides by a count that may be cached, half a minute old, or 0 by an error.
The time of a transaction is that of its processing (`createBaseTx`), so saving it again moves it, except for those that the API
fetched, whose time is their block's.

### BlockPages
`getter` asks for the latest block or for one by its height: cache, database, then node and `saveBlock`; what is not found is
answered "future" or "not found" by the height of the chain. `saver` is `saveBlock` by a live block or a sync: the write,
and then the clearing of two cache entries. `lister` goes through the pages by number: cache, count, find. `passed` is a history
variable, the saves that were done between a reader's question and its answer; `given`, `twice` and `all` are what a lister got and might have.
Until the database has a block the latest one is answered "not found" (see section 4).

### NodeClients
Three loops around a request to the chain. `SendAgain` is the interceptor of `BaseClient`, which sends a request again to the same
server; `rounds` is `retryOperation`; `RotateClients` is one attempt of `withFailover` that has failed: it moves the
indexes of all URLs and makes all clients anew, whoever else uses them. `Operations` says of each call of each client whose URL it asks, how often, which
answers end it at once, and whether an error gives a default. `pinned` is the client that the indexer of contracts made once; `RotateNodeUrl` is
the checkpoint fetcher, which rotates a URL of the clients but not the clients. `asking` are calls side by side, `met` the servers one has asked, `lacked` those that had
not what it asked for, `moved` a history variable: another call rotated in between. `AsksAround` and `StaysAtOne` say who gets to ask which servers.

### HttpApi
What a request passes before its handler (`rateLimiter`, `networkSelector`, `cacheMiddleware`), and the handlers of all routes. A handler is a
row: its reads in order, with what each outcome (a value, nothing, something unfit, an error) leads to, go on or answer with a
status; what it says of parameters it refuses, and after how many reads; which network it takes; and whether its answer is kept. `networkSelector` puts the name into small letters (`Lowered`);
handlers that read the query themselves take it as it came (`About`), so a query MAINNET is testnet's to the covenant handlers. `RequestComes` is the way to
the handler, `ReadEnds` one await of it. The rows are grouped as the routers are. `serving` remembers of each request what its reads met (`saw`), when it
came (`since`) and when what it was told was read (`asOf`). `kept` is `memoryCache` by the network in the URL: its time is that of the
request, not of the answer. `Veiled` names the handlers that tell an error as "not found" or "bad request".
`ToldTruly` says what each status means with respect to the reads of the handler (a service that turns an error into a default has told the handler nothing of it),
`RefusedUnread` that a request which is refused has touched nothing, `AboutChosen` whose network an answer is about, with the exceptions that the code has, and `KeptYoung` how old a kept page may be.

### ApiProcess
`FinalityVotes`, `CachedReads`, `TxPages`, `BlockPages`, `NodeClients` and `HttpApi` in one process. They share nothing but the event loop and
`ApiRestart`, which takes the flags, promises, page caches and half-done calls of all, and leaves what Redis and MongoDB have.

## 3. Runs

| Run | Instance | Shows |
|---|---|---|
| `tracker` | 3 blocks, batches of 2, 1 fault, 1 restart | `Coverage`; the tracker implements `ResumeLedger`; `CatchesUp`: after the last fault the height reaches the chain's, also when a block was announced to nobody |
| `connection` | 2 attempts, 3 troubles | `ConnectionHolds` (`RepairPending`, `WillSubscribe`), and `KeepsConnecting` once troubles end |
| `connection_storm` | 2 attempts, 2 troubles | **violation** of `ComesToRest` |
| `signatures` | 3 heights (one pruned), window 2, batches of 2, one live call, 1 fault | `StatisticsHold` (`TotalsBounded`, which is `SignedWithinTotal` and `TotalWithinWindow`, and `StreaksAreTrue`), `SyncCovers` |
| `phase_scan` | 6 blocks, 3 phases, 4 stakes, `INDEX_SPECIFIC_PHASE` unset, 1 or 2, 2 faults, 1 restart | `ResumeCoverage`, `NeverCountedTwice`, `PhaseTotalsHold` (`CapHolds`, `TotalWithinParts`), `ExactWhenUndisturbed`, `Terminates` |
| `delegations` | 2 delegations of one staker, one that expires, 2 event calls, the crawler, 1 recent delegation kept, 2 troubles | `FiguresHold`, `Agreement`, `KeepsDelegations`, `CreatedOnce`, `Recovers` |
| `delegations_quorum` | the same without trouble | **violation** of `OnlyFromPending` |
| `blocks` | 3 heights, one of which readers ask for, the boot's sync and the API's, 1 fault, 1 restart | `SyncsHold` (`NoSilentGap`, `LockHasHolder`), the store implements `ResumeLedger`, `SyncEnds` |
| `messages` | 7 histories of the chain, 1 fault | `DocumentsHold` (covenant `CountsAgree` and `NothingPending`, governance `TallyAgrees`, checkpoint `FetchedHasVotes`), `KeepsSignatures`; governance: `StatusCatchesUp`; checkpoints: `FallsBackByLateWriter`; transactions: `StatsCatchUp` |
| `ibc` | 6 scenes of a client, a connection and two channels, pages of 1, 2 rounds, 3 packets, 1 fault | `DocumentsAgree` (`CountsExact`, `InactiveHasCause`, `SumsWithin`), `OutcomeStays`, `Converges` |
| `cosmwasm` | 7 scenes of 3 codes, 2 contracts, 2 passes, 2 submissions, pages of 1 | `PassesHold` (`CodesKnown`, `CountHolds`), `VerifierHolds` (`VerdictHolds`, `SourceOfOne`), `Indexes` |
| `api` | scenes of 7 heights, 2 providers, 2 requests, 1 retry, batches of 2, a cache of 2; scenes of 33 keys, 2 users, up to 4 reads, 4 ticks, 1 mishap; scenes of 8 transactions in pages of 2, 2 clients; scenes of 4 blocks in pages of 1, 2 readers, 2 clients; scenes of calls with 3 node URLs, 2 RPC URLs, 2 retries, 2 callers; scenes of requests: 4 for the page that is kept, in 2 slots over 3 ticks, with at most 2 in a window, and one of each handler with 24 kinds of parameters | votes: `SignersStay`, `Answered`; reads: `AnswersAreRecent`, `EntriesRenew`, `ReadsGoOn`; both: `ApiHolds` (`RangeKnown`, `FlagsHeld`, `ReadsHold`); pages: `PagesHold` (`WalksComplete`, `BacksUp`, `FullBounded`, `LatestHolds`, `AnswersHold`, `ListsComplete`); clients: `ClientsHold` (`AsksAround`, `StaysAtOne`); requests: `HttpHolds` (`ToldTruly`, `RefusedUnread`, `AboutChosen`, `KeptYoung`) |

A name in parentheses is a named part of the invariant before it. The invariants of `messages`, `ibc`, `cosmwasm` and
`api` that have parts include their modules' type invariants. All type invariants are proved.

**Bounds.** Each is a constant commented "bound". Three heights with batches of two give a full batch, a
partial one, and a height that is neither first nor last. One fault together with one restart (tracker, blocks), or two
faults and a restart (phase scan), lets a fault hit the repair of another. Two attempts distinguish the first, a further and the
last try. A window of two is passed by the third block, and a recent list of one is cut by the second. The
stakes of the phase scan are chosen so that the cap takes two of the three of phase 1, one batch crosses into
phase 2, one height has two stakes and one holds an invalid transaction. One staker with two delegations and two event
calls beside the crawler's is the smallest instance in which an update of one delegation conflicts with one of
the other *and* two updates of the same delegation overlap. In `blocks` a block count of two is less than the chain,
so that the fallback leaves a block out, and `fromHeight` 2 lets an API call begin above an empty store.

`messages` and `ibc` give no free counters but histories (`MCMessageService.tla`, `MCIbcPackets.tla`), each the smallest in which
one component meets its hazards: a signature beside the one that makes the delegation ACTIVE, delivered twice; a vote, its
change, another's vote and the end of a proposal beside the sync; a vote repeated and one that cannot be counted; the first and the last
part of a checkpoint's life beside both syncs; a transaction saved four times beside the counts; one message that every
processor takes. For IBC: a handshake, a channel that opens and closes with a packet in it, one that opens and pushes another from the node's page of one, two overlapping rounds, three
packets of one relayer in two channels of one port (two may push the same channel while the third counts for the other), and a packet with every outcome. Components of
different histories share no documents, so the product of their histories would add interleavings and no behaviour;
`MixedChain` alone runs them together, to show that one message starts them all.

`cosmwasm` and `api` are built from scenes in the same way (`MCWasmVerifier.tla`, `MCApiProcess.tla`). Three codes in pages
of one make a page that is first, middle and last, and an incremental pass that finds one new code, or two; two contracts let one
migrate to the code of the other. Two passes are the two timers overlapping. A cache of two heights makes
cleanup drop what an earlier request has fetched. A scene of reads picks the keys that are asked for: one key read four times
over four ticks, so that its entry expires; each key that reads others, in the second or third stage of `stats` and `zcEpoch`; the
statistics beside their refresher; the points beside their update; and every key once. Two users are a reader and one that
joins it; six fetches are more than any scene starts at once. One mishap is a bound that `Renews` needs: a GET and a SET that
both fail can bring an older entry back.

The scenes of pages have four stored transactions, two pages, beside one that comes and one that is processed again, so that a walk can meet a
transaction that arrives above it, one that moves out of a page it has not reached, and a page that ends within a height; two
clients share the cached pages. A tick is the five seconds of the first page, two stand for the minute of the others and for
the half minute of the count. Three saves of one lite type with a most of one copy in full are enough to exceed it by a
stale count and by a count that failed. Three or four blocks in pages of one give a last page whose count is outdated, a cached page older than the
one in front of it, and a reader of the latest block that overlaps a save.

Three node URLs are the fewest in which a rotation by another can bring a call back to a server while one is left unasked; two RPC URLs
make fewer servers than attempts. Two callers rotate under each other.

A page is kept for two ticks and hits are counted over three, so that an entry expires, is replaced by a slower, older request, and a window ends, with
a third request refused in between. Handlers do not meet each other, so each is asked once, with every combination of query, header and fitness.

**Fairness.** Weak fairness is given to what the event loop owes: dispatched messages, settled promises, timers
and intervals. MongoDB and the nodes answer in the end, if only with an error. The node commits up to the bound.
`WsConnection` needs strong fairness of `Opens` alone, because a reconnect may replace a handshake in progress
again and again: a handshake tried infinitely often succeeds at last. `PhaseScan` has weak fairness of the scan's
steps, `Start` included, since PM2 restarts the process. In `Delegations` only the crawler is fair: no event is owed to
anybody, so `Recovers` rests on the crawler alone. `BlockStore` has it of the start of the process (PM2), the
subscription, live saves and the steps of each sync. In `MessageService` no delivery is owed and no call has to end:
`StatusCatchesUp` rests on the initial sync and the interval of the check, `StatsCatchUp` on the start-up count and its
hourly interval. In `IbcPackets` only the rounds are fair, which `setInterval` starts for ever. In `WasmVerifier` each pass is weakly fair; the timer of the full pass needs
strong fairness, because only so many passes at once is a bound of the model that the code does not have. In `ApiProcess` new blocks
come and the steps of a request are taken, votes are not owed; `ReadsGoOn` says without fairness that a waiting reader is always owed a step by Redis, the node or
a result, each of which is used up by that step, so reads end. No failure, delay,
request or restart is ever owed.

**Deadlock.** Every configuration says `CHECK_DEADLOCK FALSE`: the chain, the deliveries and the troubles
are bounded, so a behaviour comes to rest when all of them are used up; a scan also stops when it is
done. That nothing is left hanging there is said by the liveness properties instead.

## 4. What the violations show

1. `connection_storm`: `reconnectNetwork` closes a live socket whose late close event starts a chain. Its timer
   closes the new connection five seconds later, whose own close event starts the next chain. Every open resets the
   attempts, so this goes on without any further failure (`WebSocketOrchestratorService.ts:152`).
2. `delegations_quorum`: the quorum handler's check and write are separated by an await
   (`BTCDelegationEventHandler.ts:318`).

Met while modelling, modelled as the code has them, and not given a run of their own:

* Past the window `totalBlocksInWindow` stays at its limit while signed blocks still increment, so misses never leave the
  window and the rate drifts to 100 %, although line 28 calls it "Performance for last 10k blocks" (`ValidatorSignatureService.ts:195`).
* The retries of a finality fetch are returned without `await` (`FinalityBlockProcessor.ts:285`), see `FinalityVotes` above.
* The jump to the next phase is overwritten by `batchEnd + 1` (`BabylonIndexer.ts:221`).
* A restart between `$inc` and `updateLastProcessedBlock` counts a height twice (`PhaseStatsService.ts:181`).
* An update that a failed batch left running overwrites phase stakes that the next batch merged (`TransactionService.ts:312`).
* `saveConnection` adds one to the client's `connection_count` on every save, although its comment says that a new
  connection does (`IBCConnectionRepository.ts:33`). `Counted` is that line.
* The node's lists are asked for without pagination (`IBCReconciliationService.ts:318`, `372`, `401`): channels past its default page
  are taken for gone, and marked INACTIVE, though the node has them. `InactiveHasCause` names that cause, `Converges` is about the others.
* Without `$elemMatch` the positional `$` may raise another channel's count for a relayer of two channels
  (`IBCRelayerRepository.ts:146`); only the sum over a port is right, which is what `SumsWithin` says.
* The crawler has a service of its own, whose `updateDelegationState` never tells the staker (`BTCDelegationService.ts:446`): the staker's
  document learns of it with the next event or recalculation. `Agreement` excepts delegations in `crawled`.
* `GET /block/:height` stores any block of the chain that is missing (`BlockService.ts:94`), and the next sync resumes above it: what
  lies between is fetched by nobody. `lost` has that as a reason of its own.
* `getCurrentHeight` answers an error with 0 (`BlockClient.ts:58`). The providers active at height 0 are none and their power is zero, which is
  stored for five minutes as if it were complete (`FinalityProviderService.ts:180`, `245`, `395`).
* Reconciliation saves a spread mongoose document for clients and connections that the node does not name, so they are
  never marked; `MarkedAll` says so.
* Pages end where `limit` does, and the next one begins strictly below the time of its last transaction
  (`TxRepository.ts:214`): of transactions with the same height and time, those that did not fit are on no page. `WalksComplete` excepts them.
  Only the first page has a cursor when nothing follows it (`TxService.ts:196`).
* The cursor of the page before, where there is no history of it, is that of the newest transaction (`TxService.ts:273` sorts downwards),
  which may skip any number of pages; `BacksUp` says no more than that it does not lead to a lower height: within one height it may.
* More than `maxStoredFullInstances` are stored in full, by a count cached for thirty seconds or an error, which counts none
  (`TxRepository.ts:493`, `520`); `FullBounded` says how many.
* A height of which only some transactions are stored is answered as if it were whole (`TxService.ts:111`).
* `BlockClient.getLatestBlock` answers without the `result` that `convertRawBlockToBaseBlock` looks for (`BlockMapper.ts:58`): the fallback of
  `BlockService.getLatestBlock` never succeeds, so an empty store has no latest block.
* `BlockService` answers every error with `null`, so the branches for `FutureBlockError` (`block-processor.controller.ts:318`) are never taken.
  A request for the next height may be answered "not found" although the block came meanwhile; `AnswersHold` is about blocks that were there.
* `updateStakerStats` looks for the old state where the new one has just been put (`StakerStatsService.ts:32`), and
  `recalculateTotals` resets every count but that of EXPIRED (`NewStakerService.ts:150`): an expired delegation is counted
  again at each later update of its staker, and the figures of the phase and the provider change only when the script runs.
* The checkpoint fetcher rotates a URL and asks that of the clients, which do not move (`BLSCheckpointFetcher.ts:215`): its retries ask
  the same node, unless another call rotates. The index is then ahead of the clients, and the next rotation skips a node (`StaysAtOne`, `moved`).
* Operations that give a default after an error never fail over, since `withFailover` sees no error (`BaseClient.ts:224`). Two calls
  that fail together rotate twice, which may lead one back to the server it has just asked. With more RPC URLs than
  node URLs some are never tried, since the attempts are counted by the node URLs (`BabylonClient.ts:306`).
* `GET /block/:height` answers a missing block by comparing it with the height of the chain (`block-processor.controller.ts:281`); the client answers 0
  when it cannot ask, so with the chain out of reach every missing block is told as one of the future.
* The source code of a contract is looked for by a field that source codes do not have (`source-code.controller.ts:118`): the answer is always 404.
* The rate limit lets 200 requests through, where its comment says 100 (`middleware/index.ts:38`).
* The BSN handlers take mainnet where a request names no network, while `networkSelector` takes testnet (`BSNConsumerController.ts:53`,
  `network-selector.ts:17`), and forget the header; `AboutChosen` excepts them. The covenant handlers compare with
  `'mainnet'` as it is written, where the selector lowers it first (`network-selector.ts:20`): `?network=MAINNET` is answered with 200 about
  testnet (`covenant.controller.ts:11`), and the Wasm state is asked for under that name (`history.controller.ts:14`). `AboutChosen` excepts both.
* A slower, older request writes its page over that of a newer one (`cache.middleware.ts:78`); `KeptYoung` holds because the page keeps the older time.
* A resumed signature sync starts after the greatest `lastSignedBlock`, which may lie above heights never counted
  (`ValidatorSignatureService.ts:47`); the code promises neither a gapless resume nor that a block is counted once.

## 5. Proofs

All theorems are about `Spec` (`ConnectionSpec`, `SignatureSpec`, `SheetSpec`, `VerifierSpec`, `HttpSpec`, `ApiSpec` in `WsConnection`,
`ValidatorSignatures`, `StakerSheets`, `WasmVerifier`, `HttpApi`, `ApiProcess`), without fairness, for every value of the constants that
satisfies the named assumptions of the modules. Every invariant that a passing run checks is proved, and every action property but
one half of `EntriesRenew`, the refinements of `ResumeLedger` included. None of the invariants is inductive as it stands; each is
proved from a stronger one, which is named here.

* **EdgeProofs**, about the edges of the process, `HealthTracker` (`TypeCorrect`, `CoverageHolds`, `ResumeCoverageHolds`, `KeepsLedgerHolds`),
  `WsConnection` (`ConnectionTypeCorrect`, `RepairPendingHolds`, `WillSubscribeHolds`, together `ConnectionHoldsAlways`) and `HttpApi` (`HttpHoldsAlways`). `IInv` extends
  coverage of `last` to every other place a height can come from: Redis, the value the unlocked load holds, announced
  blocks on the wire, queued calls, and the holder of the mutex in its gap. It also says that the staking
  subscription comes before the NewBlock one. The key lemma, `CoveredStays`, says that no step uncovers a height.
  `KeepsLedgerHolds` is the refinement of `ResumeLedger`, under `IsProduction` (without it the code
  processes the new block and leaves the gap below it). For the connection a repair is a token: a
  close event, a retry, a timer or the lock. Whatever consumes one creates the next, or gives up. For a request, `HandlerOK` says of
  every row what its outcomes may answer, so the proof looks at each handler once; a request being served was not refused and has met
  nothing that ends it, and what is kept was asked for before it was read, and read before now.
* **BlockStoreProofs** (`TypeCorrect`, `NoSilentGapHolds`, `LockHasHolderHolds`, `SyncsHoldAlways`, `ImplementsLedger`, `NothingMissingHolds`,
  `ResumesOverNothing`). The inductive invariant `Inv` has four parts: `Safe` (types, the lock and its holder, calls at
  rest), `Known` (every committed height is stored, stood for, lost or unheard), `NoSilentGap`, and `Passed` (below the height a
  loop is at nothing is missing). `ImplementsLedger` maps each step to `Work`, to `Resume` (when the highest stored block
  changes) or to a stutter. `NothingMissingHolds` is the promise of the abstract specification, and `ResumesOverNothing`
  carries it over to the store.
* **PhaseScanProofs** (`TypeCorrect`, `NeverCountedTwiceHolds`, `ResumeCoverageHolds`, `PhaseTotalsHoldAlways`, `ExactWhenUndisturbedHolds`).
  `CountInv`: updates under way, awaited or stray, are about stored stakes not yet counted, and no two are about the same one.
  `CoverInv` relates the resume point, the height of the loop and the batch to what is settled; a scan of a later phase settles what
  lies below it. `TotalsInv` keeps the total of each phase within the sum of its parts and the active stake of phase 1 within its cap.
  `ExactInv` is about scans that nothing has disturbed: documents hold their stored stakes but those of an update under way
  (`DocsExact`), what is stored lies below the batch or in it (`CursorExact`), a phase that is scanned has its statistics
  (`KnownExact`), and these add up to the stakes that are stored and not still due in the batch (`SumsExact`).
* **DelegationsProofs**, about `Delegations` (`TypeCorrect`, `AgreementHolds`, `KeepsDelegationsHolds`, `CreatedOnceHolds`) and `StakerSheets`
  (`SheetsImplementDelegations`, `FiguresHoldAlways`). `Chained`: every call carries a state that the chain has had. `Copies`: a
  document that was read and not saved by others since equals the stored one. `Agrees`: the copy agrees, or exactly one update
  will make it agree, or the crawler was the last to change the delegation. Each step of `SheetSpec` is one of `Spec` that also writes a sheet, so all that is proved of `Spec` holds of
  it. `FigureInv` joins it with what the script has seen and found: an update keeps counts and lists together, save where
  EXPIRED is counted again, and a recalculation counts once more.
* **HandlerProofs**, about `ValidatorSignatures` (`SignatureTypesCorrect`, `SignedWithinTotalHolds`, `TotalWithinWindowHolds`, together
  `TotalsBoundedHolds`; `StreaksAreTrueHolds`, with it `StatisticsHoldAlways`; `SyncCoversHolds`) and `MessageService` (`TypeCorrect`, `DocumentsHoldAlways`,
  `KeepsSignaturesHolds`, `FallsBackByLateWriterHolds`). Of the signatures: the snapshots of calls are typed as well, and the signed count
  is within the total in the document and in every snapshot a call may still write; the total is bounded by the calls between
  increment and overwrite and by the errors so far. `CoverInv` says where a sync's heights are: below its place each is settled, pruned,
  or in a call under way, and a batch it waits for has a call for each. `StreakInv` says that while calls have not overlapped at
  most one is under way, and that the streaks are the runs of last outcomes (`RunsAre`), or will be when that call has set its totals.
  Of the messages: `ServiceInv` has a part for each component, and a step that hands over a message is one of each. `CovInv`: a copy that nobody
  has saved over equals the document, and whoever is pending in the document is pending in every copy. `GovInv`: a copy of the votes that is
  about to be saved, and fresh, equals the document. `CkptInv`: the document has a status that the chain has reached, and a call or a sync
  writes the status of an event that was sent, so one that falls back was read before. `TxInv`: what is saved is a transaction of a message, and
  those counted are finitely many.
* **IndexerProofs**, about `WasmVerifier` (`PassesHoldAlways`, `VerifierHoldsAlways`) and `IbcPackets` (`DocumentsAgreeHolds`, `OutcomeStaysHolds`).
  `WasmInv` says what each pass has in its hands at each place (`PlacesOK`) and that what is in hand, stored or next has nothing unknown
  below it (`InOrder`); every step is one of `PassMoves` or `WorkerMoves`. `VerifierInv` adds what a record says at each stage of
  its submission (`RecordsOK`) and whose files are where (`StoringOK`: submissions that store side by side have crossed). `IbcInv` has three
  parts. `StateInv`: documents, and the copies a round works on, fit the chain, and nothing is INACTIVE without an error or a channel beyond the page (`Fits`).
  `PacketInv`: calls are of events that happened, each is delivered once, and those of a packet stand in the inbox in their order.
  `RelayInv`: the relayer's total lies between the outcomes counted or about to be, and those with the calls that broke off; each channel with a call done has an entry, and the entries of a port's channels have
  together as many as there are calls done for them. What one more entry (`OneMore`) and one call's move (`CallMoved`) do to
  the numbers are lemmas of their own.
* **ApiProofs**, about `ApiProcess` (`RangeKnownHolds`, `CacheHoldsAlways`, `SignersStayHolds`, `PagesHoldAlways`, `ApiHoldsAlways`,
  `AnswersAreRecentHolds`, `ReadsGoOnHolds`, `EntriesFollowHolds`, `ClientsHoldAlways`, `ServesHttp`). Each step is one of one component, beside which the others stutter, or the
  restart of all, so `ApiInv` has a part for each. `VoteInv` says which flags each stage of an attempt holds, its retries counted in, so that
  `Released` gives back what was taken, and that a range is remembered only when what it lacks was given up or is in a batch. `PageInv` and
  `BlockInv` relate what is cached or in a reader's hands to what was stored when it was read, however long ago that was: `HistoryOK` says which
  cursor led to which, `WalksOK` that a walk has met whatever was stored above it all the time and has not moved since.
  `ReadInv` ties readers, commands and fetches to each other in both directions (`Linked`): whoever waits for
  Redis has one command on the wire, whoever waits for a result has joined a fetch that is in the map or about to deliver,
  and a fetch that waits for an entry is the reader of that entry. It bounds ages (`FetchOK`, `EntriesKept`): a fetch under way has
  asked the node no more than `Lag` ago, and what it read on the way was as recent as its key allows. `Busy` gives `ReadsGoOn`: what a
  fetch reads is a leaf, a key whose own fetch reads nothing, so a chain of waiting readers ends at a command, a request or a result.
  `ClientInv` puts the servers on a ring: a call that nobody has disturbed is `attempt - 1` steps from where it began, has met every server
  on the way, and stands where the clients stand (`InTurn`); `NextIsOneAhead` is the step of the ring. `ServesHttp` carries `HttpHoldsAlways` over to the
  whole process.
* **SumTheorems** has no theorem of its own. Its lemmas are about sums over finite sets: how `SumFunctionOnSet` changes with one
  element, one value, a union or a part, and that a set of numbers has a least one. The library's induction theorems take an operator;
  `SubsetInduction` states the claim as a set of subsets instead, and a counterexample would have a smallest one.

Assumed of the environment, where an argument needs it: in `Messages`, `Governance` and `Checkpoints`, that a chain is a
sequence of messages whose events carry statuses of their kind; in `StakerSheets`, `PhaseScan`, `Covenant`, `Governance`, `WasmIndex` and
`IbcPackets`, that what is counted (stakes, transactions, members, voters, contracts, passes, events) is finite. TLC evaluates each of these
assumptions on the runs.

Only model-checked:

* the liveness properties (`CatchesUp`, `KeepsConnecting`, `Terminates`, `Recovers`, `SyncEnds`, `StatusCatchesUp`,
  `StatsCatchUp`, `Converges`, `Indexes`, `Answered`), which need fairness and ENABLED;
* `Renews`, the second half of `EntriesRenew`: that of two complete entries the later one is never the older is true of at most one
  mishap, and counting mishaps through every reader is an argument of its own. Its first half, `EntriesFollow`, is proved of any number;
* the two runs that end in a violation, which refute what they check.

## 6. What is abstracted or left out

* Amounts, keys, signatures and texts are numbers or names; decoding gives a stake or an invalid one.
* A client call gives a value, an older one, or an error after its retries; how it gets there is `NodeClients`, which the others do not extend.
* `HealthTracker` takes every height to carry staking events, which is the demanding case.
* `ValidatorSignatures` has one validator; others appear through `lastSignedBlock` alone.
* `StakerSheets` has one phase, one provider and one network, and every delegation stakes the same; the start and end
  heights of delegations are left out.
* A delegation's history of updates given up is excluded from `Agreement`: the code makes no promise for it.
* A batch of the phase scan that crosses into the next phase counts that phase's heights in the first one; the
  sums over all phases stay exact, which is what `ExactWhenUndisturbed` says. Stakes stored by a batch that
  died before its updates are never counted for their provider; the code does not promise it.
* The crawler asks about PENDING and VERIFIED delegations only, so a lost UNBONDED or EXPIRED event leaves a
  delegation ACTIVE; `Recovers` says no more than the code does.
* `BlockStore` keeps heights, not the contents of blocks; the transactions of a block, whose failures never fail
  the block, are in `TxStore`.
* The client and the connection of `IbcPackets`' scenes are first on the node's page; one that the
  page leaves out is repaired by no round, and never marked.
* `Covenant` has one transaction, `Governance` one proposal, `Checkpoints` one epoch and IBC one client: the code
  never relates two documents of a kind. The weights of a split vote and a vote's metadata are left out.

Not modelled, with the reason in full under `components`:

* *The running finality service*: `start()` is commented out in `src/index.ts:77`, so its periodic update, its new blocks, its
  SSE clients and the epoch statistics never run.
* *Writes of the BSN services*: upserts of consumers from what a query returned. `syncAll` writes the registration height and
  hash of the list, which has none, over those of a registration; nothing reads them again. The signature service stores nothing from events.
* *BTC delegation full sync*: optional; one more writer of `Delegations` that never touches a staker.
* *Queries*: what an aggregation computes; its read is a key of `CachedReads`. The `reindex...` methods have no caller.
* *What handlers compute, decoders*: filters, page numbers, the contents of answers and the answer 304; decoders are pure functions over
  encodings, and the models take their results. The page cache of contracts and raw answers are not modelled. Together these, the data models, Swagger texts and
  scripts are most of the lines of the repository, which is why the map covers about a third of it.
* *Start-up, shutdown and scripts*: wiring, whose effects (restarts, the boot's sync, the recalculation) are actions.

## 7. Plan

What is left, most important first:

1. Signatures of rollups (`BSNSignatureService`) as one more caller beside the transactions of a message.
2. A refinement of HealthTracker's socket by `WsConnection`, once the latter carries messages.
3. A proof of `Renews`: an invariant that says, of each fetch under way, whether a mishap has let another begin beside it.
