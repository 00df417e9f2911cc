\* Forks, uncles two heights back, reorganisations of any depth and pruning; a constant limit.
CONSTANTS
    Window = 1
    UncleDepth = 2
    UnclePenaltyPercent = 20
    BootstrapTarget = 12
    ShareTime = 1
    RetargetWindow = 3
    RetargetClamp = 1
    MaxTarget = 12
    MaxDrift = 1
    Miners = {m1}
    MaxShares = 6
    MaxGenesis = 2
    MaxReorg = 6
    Timestamps = {0}
    ParentHeights = {1}
    Limits = {12}
    Factors = {1, 2}
    MaxUncles = 2
    Clocks = {0}
SPECIFICATION Spec
INVARIANTS
    TypeOK
    BestTipIsHeaviest
    HorizonKept
    WorkCreditedOnce
