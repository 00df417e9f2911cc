\* Two proofs for one job.
CONSTANTS
    MaxTemplates = 1
    MaxShares = 2
    MaxTasks = 2
    MaxCrashes = 0
SPECIFICATION Spec
INVARIANTS
    DuplicatesAreHarmless
\* The bounds on tips, shares and submissions end every behaviour.
CHECK_DEADLOCK FALSE
