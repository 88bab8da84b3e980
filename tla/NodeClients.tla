---------------------------- MODULE NodeClients ----------------------------
(***************************************************************************)
(* The clients of the chain: which server a call asks, how often, and what *)
(* makes it give up.  Three loops are nested: a client sends a request     *)
(* again, an operation is tried again, and a call that fails rotates the   *)
(* clients of all, to the next URL of each list.  The checkpoint fetcher   *)
(* rotates a URL without them, and some clients are never rotated.         *)
(***************************************************************************)
EXTENDS Integers

CONSTANTS
    Nodes, Rpcs,    \* how many node URLs and RPC URLs are configured
    Retries,        \* MAX_RETRIES, of the clients and of the fetcher
    MaxParts,       \* bound: pages of a list
    Askers,
    ClientScenes    \* what may happen: [by, ops]

-----------------------------------------------------------------------------
\* An operation: whose URL it asks, how often it sends a request and tries the
\* whole, with which answers a server ends it at once, how many requests it may
\* be made of, whether an error gives a default, and who goes on after an error.
Request(to) == [to |-> to, sends |-> Retries + 1, rounds |-> 1, ends |-> {}, parts |-> {1},
                quiet |-> FALSE, by |-> "clients"]
Quiet(op) == [op EXCEPT !.quiet = TRUE]
Tried(op) == [op EXCEPT !.rounds = Retries]
Twice(op) == [op EXCEPT !.rounds = 2]
Sends(op, times) == [op EXCEPT !.sends = times]
Ended(op, answers) == [op EXCEPT !.ends = answers]
Parts(op, numbers) == [op EXCEPT !.parts = numbers]
By(op, who) == [op EXCEPT !.by = who]

\* Blocks
CurrentHeight == Quiet(Tried(Request("rpc")))
BlockResults == Ended(Sends(Request("rpc"), 1), {"ahead"})
LatestBlock == Request("node")
BlockByHeight == Ended(Request("rpc"), {"lacks"})
TxSearch == Twice(Request("rpc"))
BlockByHash == Request("rpc")

\* Transactions
Transaction == Ended(Request("node"), {"lacks", "hex"})
SearchTxs == Quiet(Request("node"))
DelegateTxs == Request("node")
UnbondingTxs == Request("node")
StakingTxs == Request("node")

\* Governance: lists are read page by page
Proposals == Quiet(Parts(Request("node"), 1..MaxParts))
ProposalVotes == Quiet(Parts(Request("node"), 1..MaxParts))
ProposalTally == Quiet(Request("node"))
ProposalDetails == Quiet(Request("node"))
TallyParams == Quiet(Request("node"))

\* Finality and parameters; three requests of some go side by side
CurrentEpochOf == Quiet(Tried(Request("node")))
FinalityParams == Request("node")
ProvidersAt == Request("node")
VotesAt == Quiet(Tried(Request("node")))
BabylonParams == Request("node")
IncentiveParams == Request("node")
UnbondingPeriod == Quiet(Request("node"))
CosmosParams == Request("node")
MintParams == Parts(Request("node"), {3})
GovParams == Parts(Request("node"), {3})
DistributionParams == By(Request("node"), "nobody")

\* Contracts: asked by the controller with the client of the moment, by the
\* indexer with one it made once and for all
ContractQuery == Ended(By(Request("node"), "nobody"), {"refused"})
RawQuery == By(Request("node"), "nobody")
WasmLists == By(Request("node"), "pinned")
WasmQuery == Sends(By(Request("node"), "pinned"), 1)

\* The checkpoint fetcher asks the URL of the clients, with loops of its own.
CheckpointTxs == By(Sends(Request("node"), 1), "fetcher")
FetcherEpoch == By(Sends(Request("node"), 1), "epochs")

Operations == {
    CurrentHeight, BlockResults, LatestBlock, BlockByHeight, TxSearch, BlockByHash,
    Transaction, SearchTxs, DelegateTxs, UnbondingTxs, StakingTxs,
    Proposals, ProposalVotes, ProposalTally, ProposalDetails, TallyParams,
    CurrentEpochOf, FinalityParams, ProvidersAt, VotesAt, BabylonParams, IncentiveParams,
    UnbondingPeriod, CosmosParams, MintParams, GovParams, DistributionParams,
    ContractQuery, RawQuery, WasmLists, WasmQuery, CheckpointTxs, FetcherEpoch}

ASSUME ClientAssumption ==
    /\ {Nodes, Rpcs, Retries, MaxParts} \subseteq Nat \ {0}
    /\ \A s \in ClientScenes : s.by \subseteq Askers /\ s.ops \subseteq Operations

-----------------------------------------------------------------------------
VARIABLES
    clientScene,
    nodeAt, rpcAt,  \* nodeUrlIndex and rpcUrlIndex
    clients,        \* the URLs with which the clients were made
    pinned,         \* that of the indexer's client, 0 before it is made
    asking          \* the call of each caller

clientVars == <<clientScene, nodeAt, rpcAt, clients, pinned, asking>>

\* met: the servers it asked; lacked: those that had not what it asked for;
\* moved: another has rotated meanwhile, or a URL without its client before.
Asked(op, at, attempt, server, first, met, lacked, moved, how) ==
    [op |-> op, at |-> at, attempt |-> attempt, round |-> 1, part |-> 1, sent |-> 1, server |-> server,
     first |-> first, met |-> met, lacked |-> lacked, moved |-> moved, how |-> how]
NotAsking == Asked(DistributionParams, "idle", 1, 1, 1, {}, {}, FALSE, "none")

ClientInit ==
    /\ clientScene \in ClientScenes
    /\ nodeAt = 1 /\ rpcAt = 1 /\ clients = [node |-> 1, rpc |-> 1]
    /\ pinned = 0 /\ asking = [c \in Askers |-> NotAsking]

UrlAfter(i, n) == IF i = n THEN 1 ELSE i + 1
UnderWay(r) == r.at \in {"asked", "failed"}
ServerOf(op) ==
    CASE op.by = "pinned" /\ pinned # 0 -> pinned
      [] op.to = "rpc" -> clients.rpc
      [] OTHER -> clients.node
Done(r, how) == [r EXCEPT !.at = "over", !.how = how]
SetsAsking(c, r) == asking' = [asking EXCEPT ![c] = r] /\ UNCHANGED <<clientScene, nodeAt, rpcAt, clients, pinned>>

-----------------------------------------------------------------------------
BeginCall(c) ==
    /\ c \in clientScene.by /\ asking[c].at = "idle"
    /\ \E op \in clientScene.ops :
          /\ asking' = [asking EXCEPT ![c] =
                Asked(op, "asked", 1, ServerOf(op), ServerOf(op), {ServerOf(op)}, {},
                     op.by = "clients" /\ op.to = "node" /\ clients.node # nodeAt, "none")]
          /\ pinned' = IF op.by = "pinned" THEN ServerOf(op) ELSE pinned
    /\ UNCHANGED <<clientScene, nodeAt, rpcAt, clients>>

\* A request is answered: the last, or one of several.
RequestReturns(c) ==
    LET r == asking[c] IN
    /\ r.at = "asked"
    /\ \/ (\E n \in r.op.parts : n > r.part) /\ SetsAsking(c, [r EXCEPT !.part = @ + 1, !.sent = 1])
       \/ r.part \in r.op.parts /\ SetsAsking(c, Done(r, "answer"))

\* A request fails and is sent again, to the same server.
SendAgain(c) ==
    LET r == asking[c] IN
    r.at = "asked" /\ r.sent < r.op.sends /\ SetsAsking(c, [r EXCEPT !.sent = @ + 1])

\* A request fails for good: by the last error, by one that is not sent again,
\* by an answer that makes no sense, or by one that ends it.  The operation
\* tries again, takes it for nothing, or throws.
RequestFails(c) ==
    LET r == asking[c] IN
    /\ r.at = "asked"
    /\ \E why \in r.op.ends \cup {"error"} :
          \/ r.round < r.op.rounds /\ SetsAsking(c, [r EXCEPT !.round = @ + 1, !.part = 1, !.sent = 1])
          \/ r.round = r.op.rounds /\ r.op.quiet /\ SetsAsking(c, Done(r, "default"))
          \/ r.round = r.op.rounds /\ ~r.op.quiet /\ SetsAsking(c, [r EXCEPT !.at = "failed", !.how = why])

\* withFailover ends: at the last attempt, or since no other server will do.
\* The fetcher has a loop for the height in one for the epoch.
Attempts(op) ==
    CASE op.by = "clients" -> Nodes [] op.by = "fetcher" -> Retries * Retries
      [] op.by = "epochs" -> Retries [] OTHER -> 1
NoMore(r) ==
    \/ r.attempt = Attempts(r.op) \/ r.how \in {"hex", "ahead"}
    \/ r.how = "lacks" /\ r.lacked # {}
Lacking(r) == IF r.how = "lacks" THEN r.lacked \cup {r.server} ELSE r.lacked
GiveUp(c) ==
    LET r == asking[c] IN
    /\ r.at = "failed" /\ NoMore(r)
    /\ SetsAsking(c, [r EXCEPT !.at = "over", !.lacked = Lacking(r)])

\* The next attempt, and others that are under way
NextAttempt(r, server) ==
    Asked(r.op, "asked", r.attempt + 1, server, r.first, r.met \cup {server}, Lacking(r), r.moved, "none")
SeenMoving(r) == IF UnderWay(r) THEN [r EXCEPT !.moved = TRUE] ELSE r
GoesOnWith(c, server) ==
    asking' = [d \in Askers |-> IF d = c THEN NextAttempt(asking[c], server) ELSE SeenMoving(asking[d])]

\* Mutant: the operation keeps the client it was first called with.
RotatesInVain(c) ==
    LET r == asking[c] IN
    /\ r.at = "failed" /\ r.op.by = "clients" /\ ~NoMore(r)
    /\ nodeAt' = UrlAfter(nodeAt, Nodes) /\ rpcAt' = UrlAfter(rpcAt, Rpcs)
    /\ clients' = [node |-> nodeAt', rpc |-> rpcAt']
    /\ GoesOnWith(c, r.server)
    /\ UNCHANGED <<clientScene, pinned>>

\* rotateClients, and the same operation with the next clients
RotateClients(c) ==
    LET r == asking[c] IN
    /\ r.at = "failed" /\ r.op.by = "clients" /\ ~NoMore(r)
    /\ nodeAt' = UrlAfter(nodeAt, Nodes) /\ rpcAt' = UrlAfter(rpcAt, Rpcs)
    /\ clients' = [node |-> nodeAt', rpc |-> rpcAt']
    /\ GoesOnWith(c, IF r.op.to = "rpc" THEN rpcAt' ELSE nodeAt')
    /\ UNCHANGED <<clientScene, pinned>>

\* The fetcher goes on after an error of its height or of the server; any other it throws.
RotateNodeUrl(c) ==
    LET r == asking[c] IN
    /\ r.at = "failed" /\ r.op.by = "fetcher"
    /\ \/ /\ ~NoMore(r) /\ nodeAt' = UrlAfter(nodeAt, Nodes) /\ GoesOnWith(c, clients.node)
          /\ UNCHANGED <<clientScene, rpcAt, clients, pinned>>
       \/ SetsAsking(c, Done(r, "error"))

\* Its question for the epoch goes to the URL that the clients have by then.
AskAgain(c) ==
    LET r == asking[c] IN
    r.at = "failed" /\ r.op.by = "epochs" /\ ~NoMore(r) /\ SetsAsking(c, NextAttempt(r, clients.node))

ClientNext == \E c \in Askers :
    \/ BeginCall(c) \/ RequestReturns(c) \/ SendAgain(c) \/ RequestFails(c) \/ GiveUp(c)
    \/ RotateClients(c) \/ RotateNodeUrl(c) \/ AskAgain(c)

\* A restart begins with the first URLs.
ClientForgets ==
    /\ nodeAt' = 1 /\ rpcAt' = 1 /\ clients' = [node |-> 1, rpc |-> 1]
    /\ pinned' = 0 /\ asking' = [c \in Askers |-> NotAsking] /\ UNCHANGED clientScene

-----------------------------------------------------------------------------
Urls(op) == IF op.to = "rpc" THEN Rpcs ELSE Nodes
Servers(op) == 1..Urls(op)
AskingType == [
    op : Operations, at : {"idle", "asked", "failed", "over"}, attempt : Nat \ {0}, round : Nat \ {0},
    part : Nat \ {0}, sent : Nat \ {0}, server : Nat \ {0}, first : Nat \ {0}, met : SUBSET (Nat \ {0}),
    lacked : SUBSET (Nat \ {0}), moved : BOOLEAN,
    how : {"none", "answer", "default", "error", "lacks", "hex", "ahead", "refused"}]
ClientTypeOK ==
    /\ clientScene \in ClientScenes /\ nodeAt \in 1..Nodes /\ rpcAt \in 1..Rpcs /\ pinned \in 0..Nodes
    /\ clients \in [node : 1..Nodes, rpc : 1..Rpcs] /\ asking \in [Askers -> AskingType]
    /\ \A c \in Askers :
          LET r == asking[c] IN
          /\ r.met \cup {r.server, r.first} \subseteq Servers(r.op)
          /\ r.attempt <= Attempts(r.op) /\ r.round <= r.op.rounds /\ r.sent <= r.op.sends

\* A call that gives up has asked as many servers as there are node URLs, from
\* its first one on, or two that had not what it asked for - unless others have
\* rotated meanwhile, which may bring it back to a server it has just asked, or
\* a URL had been rotated without its client (BabylonClient.ts:306, 429).
Distance(i, j, n) == IF j >= i THEN j - i ELSE j - i + n
Around(r) ==
    \A s \in Servers(r.op) : Distance(r.first, s, Urls(r.op)) < Nodes => s \in r.met
AsksAround ==
    \A c \in Askers :
        LET r == asking[c] IN
        r.at = "over" /\ r.op.by = "clients" /\ r.how \in {"error", "lacks"} /\ ~r.moved
            => Around(r) \/ \E s, t \in r.lacked : s # t

\* Nobody else ever asks a second server: not what gives a default, since its
\* error never reaches the failover (BaseClient.ts:224), and not the fetcher, since
\* it rotates a URL and asks that of the clients (BLSCheckpointFetcher.ts:215).
StaysAtOne ==
    \A c \in Askers :
        LET r == asking[c] IN
        r.at # "idle" /\ (r.op.quiet \/ r.op.by # "clients") /\ ~(r.op.by \in {"fetcher", "epochs"} /\ r.moved)
            => r.met = {r.first}

ClientsHold == ClientTypeOK /\ AsksAround /\ StaysAtOne /\ clients.rpc = rpcAt
=============================================================================
