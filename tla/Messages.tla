------------------------------ MODULE Messages ------------------------------
(***************************************************************************)
(* What the node sends over the socket.  The indexer subscribes to five    *)
(* queries (WebSocketMessageService.initializeSubscriptions); a message is *)
(* sent once for each query it matches, so the processors of a Tx message  *)
(* may run twice on the same content.  Nothing orders the deliveries: the  *)
(* calls they start run beside each other.                                 *)
(***************************************************************************)
EXTENDS Integers, FiniteSets, Sequences

CONSTANTS
    Chains,         \* what may happen: messages of the node, and services
    Nothing,        \* no event, no transaction, no vote
    MaxFaults       \* bound: errors of the database or the node

Subscriptions ==
    {"btc_staking", "new_block", "new_tx", "checkpoint_for_bls", "governance"}

\* A history is a sequence of messages; each names the queries it matches, its events, and the transaction
\* it carries (Nothing when no property follows that transaction); services
\* are those of the background that get to run.
ASSUME MessagesAssumption ==
    /\ \A c \in Chains :
         /\ c.messages \in Seq({c.messages[n] : n \in DOMAIN c.messages})
         /\ \A n \in DOMAIN c.messages : c.messages[n].topics \subseteq Subscriptions
    /\ MaxFaults \in Nat

VARIABLES
    chain,          \* the history that takes place, one of Chains
    sent,           \* its messages 1..sent have been sent by the node
    faults          \* errors met by any handler

node == <<chain, sent>>

Deliveries == UNION {UNION {{n} \X c.messages[n].topics : n \in DOMAIN c.messages} :
                     c \in Chains}

\* A delivery is handed to processMessage late, out of order, or never.
Arrives(d) == d[1] <= sent /\ d[2] \in chain.messages[d[1]].topics

EventsOf(n) == chain.messages[n].events
\* events.find: the handlers take the first event of a type.
Has(d, type) == \E e \in EventsOf(d[1]) : e.type = type
The(d, type) == CHOOSE e \in EventsOf(d[1]) : e.type = type

\* The subscriptions to the event Tx
TxQueries == {"btc_staking", "new_tx", "governance"}

Runs(service) == service \in chain.services

Costs == faults < MaxFaults /\ faults' = faults + 1

MessagesInit == chain \in Chains /\ sent = 0 /\ faults = 0

Sends ==
    /\ sent < Len(chain.messages) /\ sent' = sent + 1
    /\ UNCHANGED <<chain, faults>>
=============================================================================
