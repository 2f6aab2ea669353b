SPECIFICATION FairSpec
CONSTANTS
    Deploys = {1, 2}
    None = None
    MaxAttempts = 2
    Reboots = 1
INVARIANTS
    WholeUnderTimers
    Attended
PROPERTIES
    SuccessIsLit
    DarkEnds
CHECK_DEADLOCK FALSE
CONSTRAINT Uncrossed
