\* Three nodes, all connected, of which one mines; a connection may break at any time.
CONSTANTS
    n1 = n1
    n2 = n2
    n3 = n3
    Nodes = {n1, n2, n3}
    Links <- Triangle
    Starts <- AllConnected
    Retention = 9
    SyncLimit = 9
    SyncBatch = 2
    MaxBlocksSeen = 1
    StaleJobs = FALSE
    Works <- Ones
    MaxShares = 2
    MaxBlocks = 1
    MaxLosses = 1
    MaxRestarts = 0
SPECIFICATION FairSpec
PROPERTIES
    LostAnswerHeals
    BlocksReachEveryone
    RelayDiesOut
\* Mining stops at the bound, and then the pool is quiet.
CHECK_DEADLOCK FALSE
