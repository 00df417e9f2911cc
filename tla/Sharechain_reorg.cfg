\* Reorganisations of at most a full window, in a store that prunes, while the limit moves.
CONSTANTS
    Window = 1
    UncleDepth = 1
    UnclePenaltyPercent = 20
    BootstrapTarget = 4
    ShareTime = 2
    RetargetWindow = 3
    RetargetClamp = 2
    MaxTarget = 16
    MaxDrift = 1
    Miners = {m1}
    MaxShares = 6
    MaxGenesis = 1
    MaxReorg = 1
    Timestamps = {0, 3}
    ParentHeights = {1}
    Limits = {1, 2, 4, 5, 8, 16}
    Factors = {1}
    MaxUncles = 1
    Clocks = {0, 2}
SPECIFICATION Spec
INVARIANTS
    ReorgSeesFullWindow
    VerdictUnaffectedByPruning
PROPERTIES
    ImplementsLedger
