CONSTANTS
    s1 = s1
    s2 = s2
    s3 = s3
    Signals = {s1, s2, s3}
    SignalOf <- AllSignals
    Quote <- OneQuote
    Levels <- TwoLevels
    HaltBelow = 950
    FreeMargin = 1000
    MarginPerLot = 10
    Budget = 10
    MaxAccountAge = 0
    DecisionTtl = 1
    Scenarios <- Cases
    MaxLag = 0
    MaxTime = 2
    MaxUpdates = 2
    Symbols <- OneSymbol
    Base <- Bases
    Quoted <- Quotes
    MinLot = 1
    MaxLot = 10
    SymbolLots <- LotCaps
    RiskPerTrade = 10
    RiskPerStrategy = 15
    RiskTotal = 15
    StageLimits <- StageCaps
    SameDirection = 2
    Leverage = 30
    MarginRatio = 1
    MinStopSpreads = 2
SPECIFICATION FairSpec
INVARIANTS TypeOK HaltStopsEntries BlindSpotBounded FlatAtRest
PROPERTIES EntersOnce IntentAnswered
CHECK_DEADLOCK FALSE
