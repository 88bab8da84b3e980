--------------------------- MODULE MCWasmVerifier ---------------------------
\* Scenes of the CosmWasm indexer: passes that overlap on codes, on a
\* contract, a pass beside a contract that migrates, verifications.
EXTENDS WasmVerifier

Scene(codes, passes, movers, moves, jobs, most) ==
    [codes |-> codes, passes |-> passes, movers |-> movers, migrations |-> moves,
     jobs |-> jobs, faults |-> most]
Both == {"p1", "p2"}

MCScenes == {
    Scene(2, Both, {}, 0, {}, 1),
    Scene(3, {"p1"}, {}, 0, {}, 1),
    Scene(1, Both, {"c1"}, 0, {}, 1),
    Scene(2, {"p1"}, {"c1", "c2"}, 1, {}, 0),
    Scene(2, {"p1"}, {"c1"}, 1, {}, 1),
    Scene(1, {"p1"}, {"c1"}, 0, {"j1"}, 1),
    Scene(1, {"p1"}, {}, 0, {"j1", "j2"}, 1)}
=============================================================================
