SPECIFICATION FairSpec
CONSTANTS
    Client = "cl"
    Connections = {"cn"}
    Channels = {"ch", "later"}
    Over <- MCOver
    PortOf <- MCPortOf
    Rank <- MCRank
    Rounds = {"r1", "r2"}
    Scenes <- MCScenes
INVARIANTS DocumentsAgree
PROPERTIES OutcomeStays Converges
CHECK_DEADLOCK FALSE
