CONSTANTS
    n1 = n1
    Equity <- Levels
    OldEquity <- OldLevels
    DailyLimit = 2
    WeeklyLimit = 5
    PeakLimit = 10
    WeekDays = 2
    MaxDays = 1
    Nonces = {}
    MaxFaults = 2
    MaxCrashes = 0
SPECIFICATION Spec
INVARIANTS MismatchStaysHalted
CHECK_DEADLOCK FALSE
