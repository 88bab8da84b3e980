SPECIFICATION ApiSpec
CONSTANTS
    Providers = {"v1", "v2"}
    Requests = {"q1", "q2"}
    MaxHeight = 7
    LastN = 2
    MaxRetries = 1
    BatchSize = 2
    MaxCache = 2
    MinKeep = 1
    Scenes <- MCScenes
    Users = {11, 12}
    MaxFetches = 6
    Lag = 1
    ReadScenes <- MCReadScenes
    Txs = {"a", "b", "c", "d", "e", "f", "g", "h"}
    HeightOf <- HeightOfTx
    LiteTxs = {"e", "f", "g"}
    Limit = 2
    MaxFull = 1
    HotTTL = 1
    WarmTTL = 2
    CountTTL = 2
    DbLag = 1
    Walkers = {"w", "v"}
    PageScenes <- MCPageScenes
    Top = 4
    BlocksPerPage = 1
    BlockTTL = 1
    BlockLag = 1
    Getters = {"g1", "g2"}
    Listers = {"l1", "l2"}
    BlockScenes <- MCBlockScenes
    Nodes = 3
    Rpcs = 2
    Retries = 2
    MaxParts = 2
    Askers = {"k1", "k2"}
    ClientScenes <- MCClientScenes
    KeepsFor = 2
    HitWindow = 3
    MaxHits = 2
    OwnNetwork = "testnet"
    Slots = {"h1", "h2"}
    HttpScenes <- MCHttpScenes
    Settings <- MCSettings
INVARIANTS ApiHolds PagesHold ClientsHold HttpHolds AnswersAreRecent ReadsGoOn
PROPERTIES SignersStay EntriesRenew Answered
CHECK_DEADLOCK FALSE
