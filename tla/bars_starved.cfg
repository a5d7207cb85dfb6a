SPECIFICATION Spec
CONSTANTS
    Runners <- TheRunners
    Minute = 2
    Htf = 2
    Grace = 1
    MaxTime = 7
    MaxQuotes = 3
    MaxLag = 1
INVARIANT EveryRunnerSeesBars
CHECK_DEADLOCK FALSE
