CONSTANTS
    Stakes = {"a", "b"}
    Stakers = {"staker"}
    StakerOf <- OneStaker
    Handlers = {h1, h2}
    Moves <- MCMoves
    PageSize = 1
    MaxTries = 2
    MaxDeliveries = 2
    MaxTrouble = 0
    RecentMax = 1
SPECIFICATION SheetSpec
PROPERTY OnlyFromPending
CHECK_DEADLOCK FALSE
