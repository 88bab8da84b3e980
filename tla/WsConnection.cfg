CONSTANTS
  MaxReconnectAttempts = 2
  MaxTrouble = 3
SPECIFICATION FairConnectionSpec
INVARIANT ConnectionHolds
PROPERTY KeepsConnecting
CHECK_DEADLOCK FALSE
