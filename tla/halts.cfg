CONSTANTS
    n1 = n1
    Equity <- Levels
    OldEquity <- OldLevels
    DailyLimit = 2
    WeeklyLimit = 5
    PeakLimit = 10
    WeekDays = 2
    MaxDays = 1
    Nonces = {n1}
    MaxFaults = 2
    MaxCrashes = 1
SPECIFICATION FairSpec
INVARIANTS TypeOK HaltHasEpisode HaltIsTold StuckStaysHalted
PROPERTIES HaltsLeftInOrder ReconHaltEnds
CHECK_DEADLOCK FALSE
