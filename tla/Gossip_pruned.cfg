\* A newcomer joins a pool that has pruned its first share.
CONSTANTS
    n1 = n1
    n2 = n2
    n3 = n3
    Nodes = {n1, n2}
    Links <- Pair
    Starts <- NewcomerOnly
    Retention = 1
    SyncLimit = 9
    SyncBatch = 1
    StaleJobs = FALSE
    Works <- Ones
    MaxShares = 4
    MaxBlocksSeen = 1
    MaxBlocks = 0
    MaxLosses = 0
    MaxRestarts = 0
SPECIFICATION FairSpec
PROPERTIES
    NewNodesSync
\* Mining stops at the bound, and then the pool is quiet.
CHECK_DEADLOCK FALSE
