CONSTANTS
    c1 = c1
    c2 = c2
    Tasks = {c1, c2}
    Lots = 2
    Lookback = 1
    Retention = 2
    MaxDelay = 1
    MaxTime = 3
    MaxDeals = 3
    MaxRepeats = 1
    MaxCrashes = 1
SPECIFICATION Spec
INVARIANTS TypeOK BooksMatch NothingMissed TradeWhole
SYMMETRY Callers
CHECK_DEADLOCK FALSE
