\* The limit moves with the pace of the shares; stamps run ahead of both clocks.
CONSTANTS
    a = a
    b = b
    Window = 1
    UncleDepth = 1
    UnclePenaltyPercent = 20
    BootstrapTarget = 8
    ShareTime = 1
    RetargetWindow = 2
    RetargetClamp = 2
    MaxTarget = 16
    MaxDrift = 2
    Miners = {a, b}
    Skew <- OneFast
    Leads = {0}
    CertVersions <- Activation
    Factors = {2}
    MaxShares = 3
    MaxTime = 1
SPECIFICATION Spec
INVARIANTS
    JobsStayValid
    PeersAgree
\* The bounds on time and shares end the run.
CHECK_DEADLOCK FALSE
