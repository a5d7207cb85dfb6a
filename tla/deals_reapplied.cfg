CONSTANTS
    c1 = c1
    c2 = c2
    Tasks = {c1}
    Lots = 2
    Lookback = 1
    Retention = 2
    MaxDelay = 1
    MaxTime = 3
    MaxDeals = 2
    MaxRepeats = 1
    MaxCrashes = 0
SPECIFICATION Spec
INVARIANTS AppliedOnce
CHECK_DEADLOCK FALSE
