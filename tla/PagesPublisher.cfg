SPECIFICATION FairSpec
CONSTANTS
    Ceiling = 2
    MaxDeferrals = 2
    Attempts = 2
    MaxBuilds = 2
    Releases = 1
    MaxForeign = 1
    MaxFaults = 1
INVARIANTS
    WholeSite
    ReleaseHonest
    HistoryBounded
PROPERTIES
    NeverOlder
    DataGetsOut
