SPECIFICATION FairSpec
CONSTANTS
  a = a
  b = b
  c = c
  low = low
  high = high
  Lots = {a, b}
  Markets = {low, high}
  MarketOf <- OnEach
  Highs = {70, 71}
  Yes <- Bins
  BuysYes = {a}
  Archived = {a}
  Labelled = {}
  None = None
  ManualHighs = {}
  Commands = {"verify", "restate", "backfill"}
  Runs = {}
  Finals = 2
  Kills = 1
  Failures = 1
INVARIANTS OneHighPerDay DayFollowsJournal VerificationIsOfBooking
PROPERTIES DriftIsFlagged TradedDayIsRecorded
