SPECIFICATION Spec
CONSTANTS
    Count = 3
    Size = 3
    HasBid <- LastHasNoBid
    MaxTries = 2
INVARIANTS
    NothingLeftBehind
PROPERTIES
    HeldToSettlement
CHECK_DEADLOCK FALSE
