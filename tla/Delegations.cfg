CONSTANTS
    Stakes = {"a", "b"}
    Stakers = {"staker"}
    StakerOf <- OneStaker
    Handlers = {h1, h2}
    Moves <- MCMoves
    PageSize = 1
    MaxTries = 2
    MaxDeliveries = 2
    MaxTrouble = 2
    RecentMax = 1
SPECIFICATION FairSheets
INVARIANTS Agreement FiguresHold
PROPERTIES KeepsDelegations CreatedOnce Recovers
CHECK_DEADLOCK FALSE
