SPECIFICATION FairVerifierSpec
CONSTANTS
    MaxCode = 3
    Contracts = {"c1", "c2"}
    Passes = {"p1", "p2"}
    Jobs = {"j1", "j2"}
    PageLimit = 1
    WasmScenes <- MCScenes
INVARIANTS PassesHold VerifierHolds
PROPERTY Indexes
CHECK_DEADLOCK FALSE
