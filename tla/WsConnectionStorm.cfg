CONSTANTS
  MaxReconnectAttempts = 2
  MaxTrouble = 2
SPECIFICATION FairConnectionSpec
PROPERTIES ComesToRest
CHECK_DEADLOCK FALSE
