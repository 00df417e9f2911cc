\* Two nodes, connected before the first share, that both mine, or a newcomer without miners
\* that joins at any time and may restart.
CONSTANTS
    n1 = n1
    n2 = n2
    n3 = n3
    Nodes = {n1, n2}
    Links <- Pair
    Starts <- TogetherOrNewcomer
    Retention = 9
    SyncLimit = 9
    SyncBatch = 1
    StaleJobs = TRUE
    Works <- HeavyMinority
    MaxShares = 4
    MaxBlocksSeen = 1
    MaxBlocks = 0
    MaxLosses = 0
    MaxRestarts = 1
SPECIFICATION FairSpec
INVARIANTS
    TypeOK
    AnnouncedIsProvable
    UnprovenIsUnannounced
    PendingIsAsked
PROPERTIES
    PeeringMerges
    NewNodesSync
\* Mining stops at the bound, and then the pool is quiet.
CHECK_DEADLOCK FALSE
