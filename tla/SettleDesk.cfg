SPECIFICATION Spec
CONSTANTS
  a = a
  b = b
  c = c
  low = low
  high = high
  Lots = {a, b}
  Markets = {low, high}
  MarketOf <- OnEach
  Highs = {70, 71}
  Yes <- Bins
  BuysYes = {a}
  Archived = {a}
  Labelled = {low}
  None = None
  ManualHighs = {71}
  Commands = {"restate"}
  Runs = {"timer", "operator"}
  Finals = 2
  Kills = 0
  Failures = 0
INVARIANT LedgerFollowsJournal
PROPERTIES DecidedStays
