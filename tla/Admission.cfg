SPECIFICATION Spec
CONSTANTS
  m1 = m1
  m2 = m2
  Markets = {m1, m2}
  Scripts = {s1, s2}
  ByHand = {h}
  Settings = {{"live"}, {"research"}}
  Orders = {o1, o2, o3}
  Decisions = {d1, d2}
  Sides = {"YES", "NO"}
  Scopes = {"city", "all"}
  Peers <- ScopePeers
  Capital = 10
  LivePct <- Shares
  LivePosition = 20
  LivePause = 2
  Minimum = 1
  TargetCap <- Caps
  TargetPosition = 2
  TargetLoss = 3
  TargetGoal = 2
  Charge = 60
  Spends = {1, 2}
  Offers <- OfferedPairs
  Boxes <- YesNoBox
  Profits <- ClosingProfits
  MaxDay = 1
  MaxContexts = 2
SYMMETRY Interchangeable
INVARIANTS
  TargetWithinLimits
  LiveWithinLimits
  OneLivePosition
  EvidenceMatchesOrders
CHECK_DEADLOCK FALSE
