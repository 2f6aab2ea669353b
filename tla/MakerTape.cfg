SPECIFICATION TapeFairSpec
CONSTANTS
    Quotes = {1, 2}
    Trades = {1, 2}
    QuoteTerms <- SharedQuotes
    TradeTerms <- SharedTrades
    Research = "research"
    Grace = 1
    MaxTime = 3
INVARIANTS
    VolumeConserved
    RowsMatchJournal
    ReplayIsNoop
PROPERTIES
    ExpiryLosesNothing
    QuotesEnd
CHECK_DEADLOCK FALSE
