SPECIFICATION FairSpec
CONSTANTS
    Deploys = {1}
    None = None
    MaxAttempts = 1
    Reboots = 0
PROPERTIES
    WorstCaseDark
CHECK_DEADLOCK FALSE
