SPECIFICATION FairSpec
CONSTANTS
    MaxHeight = 3
    Calls = {"boot", "api"}
    Boot = "boot"
    FromHeights = {0, 2}
    Asked = {2}
    BlockCount = 2
    MaxFaults = 1
    MaxRestarts = 1
INVARIANT SyncsHold
PROPERTIES KeepsLedger SyncEnds
CHECK_DEADLOCK FALSE
