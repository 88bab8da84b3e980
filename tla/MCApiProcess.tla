--------------------------- MODULE MCApiProcess ---------------------------
\* Scenes of the votes, of the reads, of the pages, the blocks, the clients and
\* HTTP, and a few of two of them, or with a restart.
EXTENDS ApiProcess

Scene(by, asks, voters, from, to, most) ==
    [by |-> by, asks |-> asks, voters |-> voters, tip |-> from, top |-> to, faults |-> most]
Both == {"v1", "v2"}
Voting == {
    Scene({"q1", "q2"}, {<<2, 2>>, <<2, 3>>}, Both \X {2}, 5, 6, 0),
    Scene({"q1", "q2"}, {<<2, 3>>}, {<<"v1", 2>>}, 6, 7, 0),
    Scene({"q1", "q2"}, {<<2, 2>>}, {<<"v1", 2>>}, 6, 7, 1),
    Scene({"q1"}, {<<2, 2>>}, Both \X {2}, 5, 6, 1),
    Scene({"q1"}, {<<1, 2>>}, {"v1"} \X (0..2), 6, 7, 0),
    Scene({"q1"}, {<<0, 0>>, <<3, 0>>}, {"v1"} \X {3}, 6, 7, 1)}
Short == Scene({"q1"}, {<<2, 2>>}, {<<"v1", 2>>}, 6, 7, 1)
Still(most) == Scene({}, {}, {}, 3, 3, most)

ReadScene(asks, auto, budget, upto, most) ==
    [asks |-> asks, auto |-> auto, budget |-> budget, upto |-> upto, mishaps |-> most]
Reading == {
    ReadScene({"fpAll"}, {}, 4, 4, 1),
    ReadScene({"fpDetails", "fpActive"}, {}, 3, 2, 1),
    ReadScene({"zcStatus", "zcFinalized"}, {}, 3, 3, 1),
    ReadScene({"stats"}, {"stats"}, 2, 2, 1),
    ReadScene({"zcEpoch", "zcAll"}, {}, 2, 1, 1),
    ReadScene({"bsnTypes", "bsnList"}, {}, 3, 2, 1),
    ReadScene({"rewardsSummary", "rewards"}, {}, 2, 2, 1),
    ReadScene({"points"}, {"pointsUpdate"}, 2, 2, 1)}
Brief == {
    ReadScene({"fpPower", "totalPower"}, {}, 2, 2, 1),
    ReadScene(Keys \ {"pointsUpdate"}, {}, 1, 1, 1)}
NoReads == ReadScene({}, {}, 0, 1, 0)

HeightOfTx == [t \in Txs |-> CASE t = "a" -> 4 [] t \in {"b", "c", "h"} -> 3 [] t = "d" -> 2 [] OTHER -> 1]
Brings(kind, txs) == [kind |-> kind, txs |-> txs]
PageScene(by, walks, stored, calls, upto, most) ==
    [by |-> by, walks |-> walks, stored |-> stored, jobs |-> calls, upto |-> upto, slips |-> most]
Paging == {
    PageScene({"w"}, {FirstPage}, {"b", "c", "d", "h"},
              {Brings("message", <<"a">>), Brings("sync", <<"b">>)}, 2, 0),
    PageScene({"w"}, {FirstPage, SecondPage}, {"a", "b", "c", "d", "h"}, {Brings("sync", <<"b">>)}, 2, 1),
    PageScene({"w", "v"}, {FirstPage}, {"a", "b", "c", "h"}, {Brings("sync", <<"c">>)}, 2, 0)}
Storing == {
    PageScene({}, {}, {}, {Brings("sync", <<"e">>), Brings("sync", <<"f">>), Brings("ask", <<"g">>)}, 4, 0),
    PageScene({}, {}, {}, {Brings("message", <<"e">>), Brings("sync", <<"f", "g">>)}, 3, 1)}
Gathered == PageScene({"w"}, {FirstPage}, {"b", "d", "h"}, {Brings("ask", <<"c">>), Brings("sync", <<"c">>)}, 2, 1)
NoPages == PageScene({}, {}, {}, {}, 1, 0)

BlockScene(by, asks, lists, stored, saves, from, to, upto, most) ==
    [by |-> by, asks |-> asks, lists |-> lists, stored |-> stored, saves |-> saves,
     head |-> from, top |-> to, upto |-> upto, lapses |-> most]
Blocks == {
    BlockScene({"g1", "g2"}, {LatestKey}, {}, {1}, {}, 1, 2, 2, 0),
    BlockScene({"g1"}, {2, 4}, {}, {1}, {2}, 3, 4, 0, 1),
    BlockScene({}, {}, {"l1", "l2"}, {1, 2}, {}, 2, 3, 1, 0),
    BlockScene({"g1"}, {2}, {"l1"}, {1, 3}, {}, 3, 4, 0, 0)}
Few == BlockScene({"g1"}, {LatestKey, 3}, {"l1"}, {2}, {}, 2, 3, 0, 0)
NoBlocks == BlockScene({}, {}, {}, {}, {}, 0, 0, 0, 0)

ClientScene(by, ops) == [by |-> by, ops |-> ops]
Calling == {
    ClientScene({"k1", "k2"}, {FinalityParams, CheckpointTxs}),
    ClientScene({"k1", "k2"}, {BlockResults, CheckpointTxs})}
Everything == ClientScene({"k1"}, Operations)
Silent == ClientScene({}, {})

HttpScene(by, ops, asks, upto, most) == [by |-> by, ops |-> ops, asks |-> asks, requests |-> upto, ticks |-> most]
Named(query, header, fit) == [query |-> query, header |-> header, fit |-> fit]
Served == {
    HttpScene({"h1", "h2"}, {GetLatestTxs}, {Named("mainnet", "none", TRUE), Named("mainnet", "testnet", FALSE)}, 4, 3),
    HttpScene({"h1"}, {GetLatestTxs}, {Named("mainnet", "none", TRUE), Named("testnet", "mainnet", TRUE)}, 4, 3)}
Any == HttpScene({"h1"}, Handlers, [query : {"mainnet", "MAINNET", "none", "other"}, header : {"TESTNET", "none", "other"}, fit : BOOLEAN], 1, 0)
Unserved == HttpScene({}, {}, {}, 0, 0)

MCScenes == Voting \cup {Short, Still(0), Still(1)}
OneRead == ReadScene({"fpAll"}, {}, 1, 1, 1)
MCReadScenes == Reading \cup Brief \cup {NoReads, OneRead}
MCPageScenes == Paging \cup Storing \cup {Gathered, NoPages}
MCBlockScenes == Blocks \cup {Few, NoBlocks}
MCClientScenes == Calling \cup {Everything, Silent}
MCHttpScenes == Served \cup {Any, Unserved}
MCSettings ==
    (Voting \X {NoReads} \X {NoPages} \X {NoBlocks} \X {Silent} \X {Unserved})
      \cup ({Still(0)} \X Reading \X {NoPages} \X {NoBlocks} \X {Silent} \X {Unserved})
      \cup ({Still(1)} \X Brief \X {NoPages} \X {NoBlocks} \X {Silent} \X {Unserved})
      \cup {<<Short, OneRead, NoPages, NoBlocks, Silent, Unserved>>}
      \cup ({Still(0)} \X {NoReads} \X (Paging \cup Storing) \X {NoBlocks} \X {Silent} \X {Unserved})
      \cup {<<Still(1), NoReads, Gathered, NoBlocks, Silent, Unserved>>}
      \cup ({Still(0)} \X {NoReads} \X {NoPages} \X Blocks \X {Silent} \X {Unserved})
      \cup {<<Still(1), NoReads, NoPages, Few, Silent, Unserved>>}
      \cup ({Still(0)} \X {NoReads} \X {NoPages} \X {NoBlocks} \X Calling \X {Unserved})
      \cup {<<Still(1), NoReads, NoPages, NoBlocks, Everything, Unserved>>}
      \cup ({Still(0)} \X {NoReads} \X {NoPages} \X {NoBlocks} \X {Silent} \X Served)
      \cup {<<Still(1), NoReads, NoPages, NoBlocks, Silent, Any>>}
=============================================================================
