SPECIFICATION Spec
CONSTANTS
    o1 = o1
    o2 = o2
    c1 = c1
    c2 = c2
    s1 = s1
    Orders = {o1, o2}
    Closers = {c1, c2}
    NoOrder = NoOrder
    Slots = {s1}
    SlotOf <- OneSlot
    Trades = {1, 2}
    Costs = {2}
    ExitNets = {1, 3}
    Payout = 4
    MaxContracts = 2
SYMMETRY CloserSymmetry
INVARIANTS
    LedgerReconciles
    ReservationBacked
    QuantityConserved
PROPERTIES
    ResolvedRowsStay
CHECK_DEADLOCK FALSE
