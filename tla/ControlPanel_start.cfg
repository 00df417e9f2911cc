SPECIFICATION FairSpec
CONSTANTS
    MaxClicks = 3
INVARIANT StartIsNeverStuck
PROPERTY OwnPearldDoesNotStrand
\* A closed window stops for good.
CHECK_DEADLOCK FALSE
