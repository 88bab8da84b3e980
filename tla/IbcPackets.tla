----------------------------- MODULE IbcPackets -----------------------------
(***************************************************************************)
(* The packets of IBC channels.  A transaction's packet event starts three *)
(* calls that run side by side (IBCEventHandler.                           *)
(* processCommonPacketOperations): one stores the packet, one adds up the  *)
(* work of the relayer who signed, one counts the packet for its channel,  *)
(* whose document the rounds of IbcState rewrite meanwhile.  Events are    *)
(* taken up in the order of the chain, but their calls overlap.            *)
(***************************************************************************)
EXTENDS IbcState, Sequences, FiniteSetsExt, Functions

CONSTANT PortOf     \* PortOf[c]: the port of channel c

\* A packet event: its packet, what happened to it, the channel it is counted
\* for, whether a signer is known, whether it was relayed with success.
Send == "send_packet"
Recv == "recv_packet"
Ack == "acknowledge_packet"
Expiry == "timeout_packet"
Kinds == {Send, Recv, Ack, Expiry}

Events == UNION {s.events : s \in Scenes}
Packets == {e.packet : e \in Events}

ASSUME PacketAssumption ==
    /\ IsFiniteSet(Events) /\ PortOf \in [Channels -> STRING]
    /\ \A e \in Events : /\ e.kind \in Kinds /\ e.chan \in Channels
                         /\ e.signed \in BOOLEAN /\ e.ok \in BOOLEAN

VARIABLES
    happened,       \* packet events of the chain
    inbox,          \* those sent and not yet taken up, in order
    call,           \* call[e]: what the three calls of e have still to do
    packet,         \* packet[p]: the status in the document of p
    relayer,        \* the document of the relayer
    late            \* history: packets whose outcome came during their send

packetVars == <<happened, inbox, call, packet, relayer, late>>
vars == <<scene, faults, stateVars, packetVars>>

NotTaken == [save |-> FALSE, relay |-> "none", count |-> FALSE]
Steps == {"none", "total", "outcome", "find", "inc", "push", "done", "broken"}

Init ==
    /\ StateInit
    /\ happened = {} /\ inbox = <<>> /\ late = {}
    /\ call = [e \in Events |-> NotTaken]
    /\ packet = [p \in Packets |-> "none"]
    /\ relayer = [total |-> 0, ok |-> 0, failed |-> 0, active |-> <<>>]

-----------------------------------------------------------------------------
\* Each thing happens to a packet once.  One of this chain is sent before it is
\* acknowledged or expires, and only one of the two happens.  One received has
\* the document of one sent if the channel has the same id at both ends.
Possible(e) ==
    /\ onChain[e.chan] = "OPEN"
    /\ \A o \in happened : o.packet = e.packet => o.kind # e.kind
    /\ e.kind \in {Ack, Expiry} =>
         /\ \E s \in happened : s.packet = e.packet /\ s.kind = Send
         /\ ~\E o \in happened : o.packet = e.packet /\ o.kind \in {Ack, Expiry}

Happens(e) ==
    /\ e \in scene.events \ happened /\ Possible(e)
    /\ happened' = happened \cup {e}
    /\ inbox' \in {inbox, Append(inbox, e)}
    /\ UNCHANGED <<scene, faults, stateVars, call, packet, relayer, late>>

Saving(p) == \E e \in Events : e.packet = p /\ e.kind = Send /\ call[e].save

\* Mutant: the latest first
TakeUpLatest ==
    /\ inbox # <<>> /\ inbox' = SubSeq(inbox, 1, Len(inbox) - 1)
    /\ LET e == inbox[Len(inbox)] IN
       /\ call' = [call EXCEPT ![e] = [save |-> TRUE, count |-> FALSE, relay |-> "none"]]
       /\ late' = IF Saving(e.packet) THEN late \cup {e.packet} ELSE late
    /\ UNCHANGED <<scene, faults, stateVars, happened, packet, relayer>>

\* handleEvent.  The relayer of a sent packet is not tracked, nor one who is
\* not known; a sent packet is not counted.
TakeUp ==
    /\ inbox # <<>> /\ inbox' = Tail(inbox)
    /\ LET e == Head(inbox) IN
       /\ call' = [call EXCEPT ![e] =
              [save |-> TRUE, count |-> e.kind # Send,
               relay |-> IF e.signed /\ e.kind # Send THEN "total" ELSE "none"]]
       /\ late' = IF Saving(e.packet) THEN late \cup {e.packet} ELSE late
    /\ UNCHANGED <<scene, faults, stateVars, happened, packet, relayer>>

StatusOf == [k \in Kinds |-> CASE k = Send -> "SENT" [] k = Recv -> "RECEIVED"
                               [] k = Ack -> "ACKNOWLEDGED" [] k = Expiry -> "TIMEOUT"]

\* savePacket, or an error, which is logged: whatever status is stored, the
\* event's replaces it.
SavePacket(e) ==
    /\ call[e].save /\ call' = [call EXCEPT ![e].save = FALSE]
    /\ \/ packet' = [packet EXCEPT ![e.packet] = StatusOf[e.kind]] /\ UNCHANGED faults
       \/ Costs /\ UNCHANGED packet
    /\ UNCHANGED <<scene, stateVars, happened, inbox, relayer, late>>

\* processPacketStatistics
CountForChannel(e) ==
    /\ call[e].count /\ call' = [call EXCEPT ![e].count = FALSE]
    /\ \/ CountPacket(e.chan) /\ UNCHANGED faults
       \/ Costs /\ UNCHANGED <<doc, counted>>
    /\ UNCHANGED <<scene, onChain, wire, round, overwritten,
                   happened, inbox, packet, relayer, late>>

-----------------------------------------------------------------------------
\* trackRelayerActivity, one update after the other; an error ends it.
Relayed(e, next) ==
    /\ call' = [call EXCEPT ![e].relay = next]
    /\ UNCHANGED <<scene, stateVars, happened, inbox, packet, late>>

AddTotal(e) ==
    /\ call[e].relay = "total" /\ Relayed(e, "outcome")
    /\ relayer' = [relayer EXCEPT !.total = @ + 1] /\ UNCHANGED faults

AddOutcome(e) ==
    /\ call[e].relay = "outcome" /\ Relayed(e, "find")
    /\ relayer' = IF e.ok THEN [relayer EXCEPT !.ok = @ + 1]
                          ELSE [relayer EXCEPT !.failed = @ + 1]
    /\ UNCHANGED faults

\* updateRelayerChannelStats: is the channel in active_channels?  Only then
\* a count is increased, otherwise an entry is pushed.
EntriesOf(cs) == {i \in DOMAIN relayer.active : relayer.active[i].chan \in cs}
SamePort(c) == {d \in Channels : PortOf[d] = PortOf[c]}

FindEntry(e) ==
    /\ call[e].relay = "find"
    /\ Relayed(e, IF EntriesOf({e.chan}) = {} THEN "push" ELSE "inc")
    /\ UNCHANGED <<relayer, faults>>

\* The filter asks for the channel and for its port without $elemMatch: the
\* positional $ is the first entry that meets the one that the server has looked
\* at last, be it another channel's of the same port.
IncEntry(e) ==
    /\ call[e].relay = "inc" /\ Relayed(e, "done")
    /\ \E asked \in {{e.chan}, SamePort(e.chan)} :
         relayer' = [relayer EXCEPT !.active[Min(EntriesOf(asked))].count = @ + 1]
    /\ UNCHANGED faults

\* Mutant: $set of the list
SetEntries(e) ==
    /\ call[e].relay = "push" /\ Relayed(e, "done")
    /\ relayer' = [relayer EXCEPT !.active = <<[chan |-> e.chan, count |-> 1]>>]
    /\ UNCHANGED faults

PushEntry(e) ==
    /\ call[e].relay = "push" /\ Relayed(e, "done")
    /\ relayer' = [relayer EXCEPT !.active = Append(@, [chan |-> e.chan, count |-> 1])]
    /\ UNCHANGED faults

RelayFails(e) ==
    /\ call[e].relay \in {"total", "outcome", "find", "inc", "push"}
    /\ Relayed(e, "broken") /\ Costs /\ UNCHANGED relayer

PacketStep(e) ==
    \/ SavePacket(e) \/ CountForChannel(e) \/ AddTotal(e) \/ AddOutcome(e)
    \/ FindEntry(e) \/ IncEntry(e) \/ PushEntry(e) \/ RelayFails(e)

-----------------------------------------------------------------------------
StateStep ==
    /\ UNCHANGED <<scene, packetVars>>
    /\ \/ \E x \in Objects : ChainMoves(x)
       \/ \E e \in wire : HandleEvent(e)
       \/ \E r \in Rounds : RoundStep(r)

Next == StateStep \/ TakeUp \/ \E e \in Events : Happens(e) \/ PacketStep(e)

Spec == Init /\ [][Next]_vars

\* setInterval starts rounds for ever, and the promises of a round resolve.
FairSpec ==
    Spec /\ \A r \in Rounds : WF_vars(RoundStep(r) /\ UNCHANGED <<scene, packetVars>>)

-----------------------------------------------------------------------------
TypeOK ==
    /\ StateTypeOK
    /\ happened \subseteq Events /\ inbox \in Seq(Events) /\ late \subseteq Packets
    /\ call \in [Events -> [save : BOOLEAN, relay : Steps, count : BOOLEAN]]
    /\ packet \in [Packets -> {"none", "SENT", "RECEIVED", "ACKNOWLEDGED", "TIMEOUT"}]
    /\ relayer \in [total : Nat, ok : Nat, failed : Nat,
                    active : Seq([chan : Channels, count : Nat])]
    /\ \A e \in Events : call[e].relay = "inc" => EntriesOf({e.chan}) # {}

\* The relayer's numbers add up although the calls of several events
\* interleave: a packet in total is a success, a failure, or one whose
\* outcome is still to come or was lost to an error.  A channel has an entry as
\* soon as a call for it got through, and the entries of a port's channels hold
\* together one for each call that did, were they pushed twice: each by itself
\* may have got what is another's (IBCRelayerRepository.ts:146).
With(S) == {e \in Events : call[e].relay \in S}
Broken == Cardinality(With({"broken"}))
SumsWithin ==
    /\ LET pending == Cardinality(With({"outcome"})) IN
       /\ relayer.ok + relayer.failed + pending <= relayer.total
       /\ relayer.total <= relayer.ok + relayer.failed + pending + Broken
    /\ \A c \in Channels :
         /\ EntriesOf({c}) # {} <=> \E e \in With({"done"}) : e.chan = c
         /\ SumFunctionOnSet([i \in DOMAIN relayer.active |-> relayer.active[i].count],
                             EntriesOf(SamePort(c)))
              = Cardinality({e \in With({"done"}) : e.chan \in SamePort(c)})

\* What rounds and the calls of overlapping events leave of each other in the
\* documents of channels and of the relayer.
DocumentsAgree == ChannelsHold /\ TypeOK /\ SumsWithin

\* The document of a packet whose acknowledgement or expiry was stored shows
\* another status only if the event came while its send was being stored, or
\* for the packet received that shares the document
\* (IBCPacketRepository.ts:16).
OutcomeStays ==
    [][\A p \in Packets : packet[p] \in {"ACKNOWLEDGED", "TIMEOUT"}
           => packet'[p] \in {packet[p], "RECEIVED"} \/ p \in late]_vars
=============================================================================
