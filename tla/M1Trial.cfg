SPECIFICATION FairSpec
CONSTANTS
    Legs = {"a", "b"}
    Targets = {1}
    TargetOf <- Dates
    DayAhead <- Ahead
    HoursPerDay = 2
    MaxHour = 5
    LossStop = 1
    FutilityMin = 1
    FutilityLoss = 5
    FinalEntries = 1
    FinalDays = 1
    FailureLimit = 1
    WindowDays = 2
    Batch = 2
    MaxFaults = 1
INVARIANTS
    FinalReadBounds
    ShadowCrossingsStay
    FaithfulReports
PROPERTIES
    HaltStopsEntries
    EveryDayReconciled
    AlarmHalts
CHECK_DEADLOCK FALSE
