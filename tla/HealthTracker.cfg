SPECIFICATION FairSpec
CONSTANTS
    MaxHeight = 3
    BatchSize = 2
    MaxAttempts = 1
    MaxFaults = 1
    MaxRestarts = 1
    IsProduction = TRUE
INVARIANT Coverage
PROPERTIES KeepsLedger CatchesUp
CHECK_DEADLOCK FALSE
