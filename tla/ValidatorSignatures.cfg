CONSTANTS
  MaxHeight = 3
  Window = 2
  RecentLimit = 1
  BatchSize = 2
  MaxHistory = 3
  Pruned = 1
  MaxLive = 1
  MaxErrors = 1
SPECIFICATION SignatureSpec
INVARIANTS StatisticsHold SyncCovers
CHECK_DEADLOCK FALSE
