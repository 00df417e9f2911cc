\* Own and peers' shares race while the parent tip moves; everything may fail, the process may crash.
CONSTANTS
    MaxTemplates = 2
    MaxShares = 2
    MaxTasks = 3
    MaxCrashes = 1
SPECIFICATION FairSpec
INVARIANTS
    TypeOK
    PendingIsValidated
    PausedOnlyToProve
    SubmittedOnce
PROPERTIES
    FoundBlockIsSubmitted
\* The bounds on tips, shares and submissions end every behaviour.
CHECK_DEADLOCK FALSE
