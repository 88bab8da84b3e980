------------------------------ MODULE IbcState ------------------------------
(***************************************************************************)
(* IBC clients, connections and channels in MongoDB.  Two writers keep     *)
(* them: the events of transactions (IBCClientService,                     *)
(* IBCConnectionService, IBCChannelService) and, every five minutes, a     *)
(* round of IBCReconciliationService that compares all documents with the  *)
(* node's answer.  A round works on what it read at its beginning, some of *)
(* its saves write back the whole document it read, and setInterval starts *)
(* the next round whether or not this one is through.  The node is asked   *)
(* without pagination: its answer is the first page of what it has.        *)
(***************************************************************************)
EXTENDS Integers, FiniteSets

CONSTANTS
    Client,         \* a client, with the connections opened under it
    Connections, Channels,
    Over,           \* Over[c]: the connection that channel c runs over
    Rank,           \* Rank[x]: place of x's key in the order of the node's store
    Rounds,         \* rounds of reconciliation that may overlap
    Scenes          \* what takes place: which objects are on the chain and which
                    \* change, in which rounds, with which packets (IbcPackets),
                    \* how many fit a page of the node, how many errors

Objects == {Client} \cup Connections \cup Channels

\* An object and what must be on the chain before it.
Basis(x) == {x} \cup (IF x = Client THEN {}
                     ELSE IF x \in Channels THEN {Client, Over[x]} ELSE {Client})

ASSUME StateAssumption ==
    /\ Client \notin Connections \cup Channels /\ Connections \cap Channels = {}
    /\ Over \in [Channels -> Connections] /\ Rank \in [Objects -> Nat]
    /\ IsFiniteSet(Connections) /\ IsFiniteSet(Channels)

ASSUME SceneAssumption ==
    \A s \in Scenes : /\ s.there \subseteq Objects /\ s.moving \subseteq Objects
                      /\ \A x \in s.there : Basis(x) \subseteq s.there
                      /\ s.rounds \subseteq Rounds
                      /\ s.page \in Nat \ {0} /\ s.faults \in Nat

VARIABLES
    scene,          \* the one of Scenes that takes place
    onChain,        \* onChain[x]: state of x on the chain
    wire,           \* events of x's changes that have been sent
    doc,            \* doc[x]: the document of x
    round,          \* round[r]: a round of reconciliation
    counted,        \* history: packets counted for a stored channel
    overwritten,    \* history: channels whose count an old copy has replaced
    faults

stateVars == <<onChain, wire, doc, round, counted, overwritten>>

\* A document: the state; whether it leads to the counterparty's chain
\* (chain_id of a client, client_id of a connection, counterparty_chain_id of
\* a channel); connection_count of a client, packet_count of a channel.
Document(state, peer, count) == [state |-> state, peer |-> peer, count |-> count]
NoDoc == Document("none", FALSE, 0)
Stored(x) == doc[x] # NoDoc

\* The node's answers call the states by other names than the events do.
Api == [none |-> "none", ACTIVE |-> "ACTIVE", INIT |-> "STATE_INIT",
        TRYOPEN |-> "STATE_TRYOPEN", OPEN |-> "STATE_OPEN", CLOSED |-> "STATE_CLOSED"]

NoRound == [pc |-> "idle", of |-> {}, db |-> [x \in Objects |-> NoDoc],
            api |-> [x \in Objects |-> "none"], todo |-> {}]

Costs == faults < scene.faults /\ faults' = faults + 1

StateInit ==
    /\ scene \in Scenes /\ faults = 0
    /\ onChain = [x \in Objects |-> IF x \notin scene.there THEN "none"
                                    ELSE IF x = Client THEN "ACTIVE" ELSE "OPEN"]
    /\ wire = {} /\ doc = [x \in Objects |-> NoDoc]
    /\ round = [r \in Rounds |-> NoRound]
    /\ counted = [c \in Channels |-> 0] /\ overwritten = {}

-----------------------------------------------------------------------------
\* The chain.  What x depends on comes first; the event of a change may never
\* arrive.
Ready(x) == \/ x = Client
            \/ x \in Connections /\ onChain[Client] # "none"
            \/ x \in Channels /\ onChain[Over[x]] = "OPEN"

NextStates(x) ==
    CASE onChain[x] = "none"             -> IF x = Client THEN {"ACTIVE"}
                                            ELSE {"INIT", "TRYOPEN"}
      [] onChain[x] \in {"INIT", "TRYOPEN"} -> {"OPEN"}
      [] onChain[x] = "OPEN"             -> IF x \in Channels THEN {"CLOSED"} ELSE {}
      [] OTHER                           -> {}

ChainMoves(x) ==
    /\ x \in scene.moving /\ Ready(x)
    /\ \E s \in NextStates(x) :
         /\ onChain' = [onChain EXCEPT ![x] = s]
         /\ wire' \in {wire, wire \cup {<<x, s>>}}
    /\ UNCHANGED <<doc, round, counted, overwritten, faults>>

-----------------------------------------------------------------------------
\* Writers

\* Documents after connection k was saved with what is known of it.
\* saveConnection counts the connection for its client each time.
Counted(d) == [d EXCEPT ![Client].count = IF d[Client] = NoDoc THEN @ ELSE @ + 1]
SaveConnection(k, state) ==
    Counted([doc EXCEPT ![k] = Document(state, TRUE, 0)])

\* Events are written whatever state is stored.
ClientEvent(s) ==
    doc' = IF Stored(Client) THEN doc
           ELSE [doc EXCEPT ![Client] = Document(s, FALSE, 0)]

\* open_ack and open_confirm save the fields of a mongoose document that they
\* spread, which may fail; without a document they store one without client_id.
ConnectionEvent(k, s) ==
    IF s # "OPEN" THEN doc' = SaveConnection(k, s)
    ELSE IF Stored(k) THEN doc' \in {doc, [doc EXCEPT ![k].state = s]}
    ELSE doc' = [doc EXCEPT ![k] = Document(s, FALSE, 0)]

\* A channel is created without its client_id, which its schema refuses; the
\* updates of a channel do not create one.
ChannelEvent(c, s) ==
    doc' = IF s = "INIT" \/ ~Stored(c) THEN doc ELSE [doc EXCEPT ![c].state = s]

HandleEvent(e) ==
    /\ e \in wire /\ wire' = wire \ {e}
    /\ \/ e[1] = Client /\ ClientEvent(e[2])
       \/ e[1] \in Connections /\ ConnectionEvent(e[1], e[2])
       \/ e[1] \in Channels /\ ChannelEvent(e[1], e[2])
    /\ UNCHANGED <<onChain, round, counted, overwritten, faults>>

\* updatePacketStats: $inc, for a stored channel only.
CountPacket(c) ==
    /\ doc' = [doc EXCEPT ![c].count = IF Stored(c) THEN @ + 1 ELSE @]
    /\ counted' = [counted EXCEPT ![c] = IF Stored(c) THEN @ + 1 ELSE @]

-----------------------------------------------------------------------------
\* A round: clients, then connections, then channels, each read from the
\* database, then asked from the node, compared and saved; then the
\* counterparties of channels.

At(pc, of) == [NoRound EXCEPT !.pc = pc, !.of = of]

\* A stage that is through, or that an error has broken off, is followed by
\* the next one.
NextStage(of) == IF of = {Client} THEN At("read", Connections)
                 ELSE IF of = Connections THEN At("read", Channels)
                 ELSE At("find", Channels)

EndOfStage(r) == round' = [round EXCEPT ![r] = NextStage(@.of)]

StartRound(r) ==
    /\ r \in scene.rounds /\ round[r].pc = "idle"
    /\ round' = [round EXCEPT ![r] = At("read", {Client})]
    /\ UNCHANGED <<onChain, wire, doc, counted, overwritten, faults>>

Copy(of) == [x \in Objects |-> IF x \in of THEN doc[x] ELSE NoDoc]

\* getAll...: an error gives an empty list.
ReadAll(r) ==
    /\ round[r].pc = "read"
    /\ \/ /\ UNCHANGED faults
          /\ round' = [round EXCEPT ![r].pc = "fetch", ![r].db = Copy(round[r].of)]
       \/ Costs /\ round' = [round EXCEPT ![r].pc = "fetch"]
    /\ UNCHANGED <<onChain, wire, doc, counted, overwritten>>

\* Objects of the chain behind the node's default page, the only one asked for:
\* the store orders them by their keys.
Kind(x) == IF x = Client THEN {Client} ELSE IF x \in Connections THEN Connections ELSE Channels
Beyond(x) == Cardinality({y \in Kind(x) : onChain[y] # "none" /\ Rank[y] < Rank[x]}) >= scene.page

\* fetch...FromAPI: an error of the node gives an empty list too.
Fetch(r) ==
    /\ round[r].pc = "fetch"
    /\ \/ /\ UNCHANGED faults
          /\ round' = [round EXCEPT ![r].pc = "save", ![r].todo = round[r].of,
                 ![r].api = [x \in Objects |-> IF x \in round[r].of /\ ~Beyond(x)
                                               THEN onChain[x] ELSE "none"]]
       \/ Costs /\ round' = [round EXCEPT ![r].pc = "save", ![r].todo = round[r].of]
    /\ UNCHANGED <<onChain, wire, doc, counted, overwritten>>

\* Mutant: a channel differs by its counterparty only
DiffersByPeer(x, known, s) ==
    \/ x = Client \/ known = NoDoc
    \/ x \in Connections /\ ~known.peer

\* is...DataDifferent; a client's status is not in its schema.
Differs(x, known, s) ==
    \/ x = Client \/ known.state # Api[s]
    \/ x \in Connections /\ ~known.peer

Outdated(r) == {x \in round[r].todo : /\ round[r].api[x] # "none"
                                      /\ Differs(x, round[r].db[x], round[r].api[x])}

SaveObject(r, x) ==
    /\ round[r].pc = "save" /\ x \in Outdated(r)
    /\ round' = [round EXCEPT ![r].todo = @ \ {x}]
    /\ LET state == Api[round[r].api[x]] IN
       doc' = IF x \in Connections THEN SaveConnection(x, state)
              ELSE [doc EXCEPT ![x] = Document(state, x = Client \/ @.peer, @.count)]
    /\ UNCHANGED <<onChain, wire, counted, overwritten, faults>>

\* Those the node did not name.
Missing(r) == {x \in round[r].of : round[r].db[x] # NoDoc /\ round[r].api[x] = "none"}

SavedAll(r) ==
    /\ round[r].pc = "save" /\ Outdated(r) = {}
    /\ round' = [round EXCEPT ![r].pc = "mark", ![r].todo = Missing(r)]
    /\ UNCHANGED <<onChain, wire, doc, counted, overwritten, faults>>

\* A save of the document as the round read it.
SaveCopy(c, copy) ==
    /\ doc' = [doc EXCEPT ![c] = copy]
    /\ overwritten' = IF copy.count = doc[c].count THEN overwritten
                      ELSE overwritten \cup {c}

MarkInactive(r, c) ==
    /\ round[r].pc = "mark" /\ c \in round[r].todo \cap Channels
    /\ round' = [round EXCEPT ![r].todo = @ \ {c}]
    /\ SaveCopy(c, [round[r].db[c] EXCEPT !.state = "INACTIVE"])
    /\ UNCHANGED <<onChain, wire, counted, faults>>

\* A client or a connection is never marked: what would be saved is the
\* mongoose document spread, without the fields of the document.
MarkedAll(r) ==
    /\ round[r].pc = "mark" /\ round[r].todo \cap Channels = {}
    /\ EndOfStage(r)
    /\ UNCHANGED <<onChain, wire, doc, counted, overwritten, faults>>

\* A failed save ends the stage, that of channels with the round.
SaveFails(r) ==
    /\ \/ round[r].pc = "save" /\ Outdated(r) # {}
       \/ round[r].pc = "mark" /\ round[r].todo \cap Channels # {}
    /\ Costs
    /\ IF round[r].of = Channels THEN round' = [round EXCEPT ![r] = NoRound]
                                 ELSE EndOfStage(r)
    /\ UNCHANGED <<onChain, wire, doc, counted, overwritten>>

\* updateChannelCounterpartyInfo reads the channels once more.
FindChannels(r) ==
    /\ round[r].pc = "find"
    /\ \/ /\ UNCHANGED faults
          /\ round' = [round EXCEPT ![r] = [At("peers", Channels) EXCEPT
                 !.db = Copy(Channels), !.todo = {c \in Channels : Stored(c)}]]
       \/ Costs /\ round' = [round EXCEPT ![r] = NoRound]
    /\ UNCHANGED <<onChain, wire, doc, counted, overwritten>>

\* getConnection and getClient lead to the chain, or there is an error, and
\* the next channel has its turn.
Resolves(c) == doc[Over[c]].peer /\ doc[Client].peer

SetCounterparty(r, c) ==
    /\ round[r].pc = "peers" /\ c \in round[r].todo
    /\ round' = [round EXCEPT ![r].todo = @ \ {c}]
    /\ \/ /\ Resolves(c) /\ ~round[r].db[c].peer
          /\ SaveCopy(c, [round[r].db[c] EXCEPT !.peer = TRUE])
          /\ UNCHANGED faults
       \/ /\ ~Resolves(c) \/ round[r].db[c].peer
          /\ UNCHANGED <<doc, overwritten, faults>>
       \/ Costs /\ UNCHANGED <<doc, overwritten>>
    /\ UNCHANGED <<onChain, wire, counted>>

EndRound(r) ==
    /\ round[r].pc = "peers" /\ round[r].todo = {}
    /\ round' = [round EXCEPT ![r] = NoRound]
    /\ UNCHANGED <<onChain, wire, doc, counted, overwritten, faults>>

RoundStep(r) ==
    \/ StartRound(r) \/ ReadAll(r) \/ Fetch(r) \/ SavedAll(r) \/ MarkedAll(r)
    \/ SaveFails(r) \/ FindChannels(r) \/ EndRound(r)
    \/ \E x \in Objects : SaveObject(r, x)
    \/ \E c \in Channels : MarkInactive(r, c) \/ SetCounterparty(r, c)

-----------------------------------------------------------------------------
States == {"none", "ACTIVE", "INACTIVE", "INIT", "TRYOPEN", "OPEN", "CLOSED",
           "STATE_INIT", "STATE_TRYOPEN", "STATE_OPEN", "STATE_CLOSED"}
Documents == [state : States, peer : BOOLEAN, count : Nat]

StateTypeOK ==
    /\ scene \in Scenes /\ faults \in 0..scene.faults
    /\ onChain \in [Objects -> DOMAIN Api] /\ wire \subseteq Objects \X DOMAIN Api
    /\ doc \in [Objects -> Documents]
    /\ round \in [Rounds -> [pc : {"idle", "read", "fetch", "save", "mark", "find", "peers"},
                             of : {{}, {Client}, Connections, Channels},
                             db : [Objects -> Documents], api : [Objects -> DOMAIN Api],
                             todo : SUBSET Objects]]
    /\ counted \in [Channels -> Nat] /\ overwritten \subseteq Channels

\* A channel's packet_count is the number of packets counted for it since it
\* was stored, unless a round wrote back a copy that it had read before the
\* latest of them; it is never more.
CountsExact ==
    \A c \in Channels : /\ doc[c].count <= counted[c]
                        /\ c \notin overwritten => doc[c].count = counted[c]

\* No channel is taken for gone without an error of the node, or others before
\* it that fill the page: each one that a round has read was on the chain, and
\* the node is asked after the read.
InactiveHasCause ==
    \A c \in Channels : doc[c].state = "INACTIVE" => faults > 0 \/ Beyond(c)

\* What rounds and events may not do to a channel's document between them.
ChannelsHold == StateTypeOK /\ CountsExact /\ InactiveHasCause

\* Reconciliation repairs everything events and earlier rounds left wrong:
\* once the chain rests, each connection and channel the node's page shows ends
\* up stored with the chain's state, and each channel with its counterparty's
\* chain.
Agrees(x) == onChain[x] # "none" /\ (\A y \in Basis(x) : ~Beyond(y)) =>
    doc[x].state = Api[onChain[x]] /\ doc[x].peer
Converges ==
    <>[](scene.rounds # {} => \A x \in Connections \cup Channels : Agrees(x))
=============================================================================
