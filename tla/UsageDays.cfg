SPECIFICATION Spec

CONSTANTS
    Units = {"sfo", "rest"}
    Sfo = "sfo"
    Cities <- OneCityEach
    HourlyPages = 1
    DailyBudget = 3
    MonthlyBudget = 5
    SoftCeiling = 4
    Breaker = 1
    MonthLength = 2
    LegacyEvents = 1
    LastDay = 2
    MaxStarts = 2

INVARIANTS
    SentWithinBudget
    DeadKeyIsCheap

PROPERTIES
    OnlyAnswersResetTheRun

CHECK_DEADLOCK FALSE
