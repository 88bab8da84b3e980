SPECIFICATION FairSpec
CONSTANTS
    Nothing = Nothing
    Chains <- AllChains
    MaxFaults = 1
    Members = {"m1", "m2", "m3"}
    Voters = {"v1", "v2"}
    Power <- Weights
INVARIANTS DocumentsHold
PROPERTIES KeepsSignatures StatusCatchesUp FallsBackByLateWriter StatsCatchUp
CHECK_DEADLOCK FALSE
