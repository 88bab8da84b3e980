---------------------------- MODULE MCIbcPackets ----------------------------
\* Scenes around one client, its connection and two channels of one port, of
\* which the later one comes first in the node's order (channel-10, channel-9).
EXTENDS IbcPackets

Event(p, kind, chan, signed, ok) ==
    [packet |-> p, kind |-> kind, chan |-> chan, signed |-> signed, ok |-> ok]
Scene(there, moving, rounds, events, most) ==
    [there |-> there, moving |-> moving, rounds |-> rounds, events |-> events,
     page |-> 1, faults |-> most]

MCOver == [c \in {"ch", "later"} |-> "cn"]
MCPortOf == [c \in {"ch", "later"} |-> "transfer"]
MCRank == [x \in {"cl", "cn", "ch", "later"} |-> IF x = "ch" THEN 1 ELSE 0]
Open == {"cl", "cn", "ch"}

\* Client and connection open
Handshake == Scene({}, {"cl", "cn"}, {"r1"}, {}, 1)

\* A channel opens and closes, with a packet in it
ChannelLife == Scene({"cl", "cn"}, {"ch"}, {"r1"}, {Event("p1", Recv, "ch", FALSE, TRUE)}, 1)

\* A channel that pushes the other one from the page
FullPage == Scene(Open, {"later"}, {"r1"}, {}, 0)

\* Rounds overlap
Overlap == Scene(Open, {}, {"r1", "r2"}, {Event("p1", Recv, "ch", FALSE, TRUE)}, 1)

\* A relayer's packets in two channels, and one with every outcome it may have,
\* and received
Relays == Scene(Open \cup {"later"}, {}, {},
                {Event("p1", Recv, "ch", TRUE, FALSE), Event("p2", Recv, "later", TRUE, TRUE),
                 Event("p3", Recv, "later", TRUE, TRUE)}, 1)
Outcomes == Scene(Open, {}, {},
                  {Event("p1", Send, "ch", TRUE, TRUE), Event("p1", Ack, "ch", TRUE, TRUE),
                   Event("p1", Expiry, "ch", TRUE, FALSE), Event("p1", Recv, "ch", FALSE, TRUE)}, 1)

MCScenes == {Handshake, ChannelLife, FullPage, Overlap, Relays, Outcomes}
=============================================================================
