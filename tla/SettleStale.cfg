SPECIFICATION Spec
CONSTANTS
  a = a
  b = b
  c = c
  low = low
  high = high
  Lots = {a, b}
  Markets = {low, high}
  MarketOf <- OnEach
  Highs = {70, 71}
  Yes <- Bins
  BuysYes = {a}
  Archived = {a}
  Labelled = {}
  None = None
  ManualHighs = {}
  Commands = {"restate"}
  Runs = {"timer"}
  Finals = 2
  Kills = 0
  Failures = 0
INVARIANT VerdictIsOfBooking
