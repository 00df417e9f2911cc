\* Every reward, minimum and weight in small ranges, for four addresses; targets at the edges
\* of the compact form, hashes near and far from them; workers from very fast to too slow for
\* any factor; a few windows of requests.
CONSTANTS
    Addresses = {1, 2, 3, 4}
    Rewards = {0, 1, 7, 12, 100}
    Minimums = {0, 1, 3, 5}
    Weights = {0, 1, 2, 3, 5, 9}
    MaxBytes = 4
    Targets <- EdgeTargets
    Offsets <- NearOffsets
    TargetSeconds = 60
    FirstFactor = 4
    MaxFactor = 1024
    Paces = {1, 3, 7, 14, 15, 40, 200}
    MaxAhead = 2
    Lucks = {1, 50, 500}
    MaxLucky = 2
    Kinds = {"hello", "getshares"}
    Limit <- OneHello
    WindowSize = 2
    HardStrikes = 2
    MaxMessages = 5
    MaxClock = 3
SPECIFICATION AnySpec
INVARIANTS
    PaysExactly
    NobodyDroppedInVain
    PaidInProportion
    CreditIsEarned
    RefusalIsMarginal
    OvershootIsBounded
    IgnoredOnlyOverLimit
    ServedLessThanTwice
PROPERTIES
    FactorSettles
\* One reward is split, one proof is graded, one connection ends.
CHECK_DEADLOCK FALSE
