CONSTANTS
    champion = champion
    challenger = challenger
    paper = paper
    none = none
    Versions = {champion, challenger, paper}
    Parent <- Family
    NoVersion = none
    DemoOnly = {paper}
    MinWeeks = 1
    SwapGap = 2
    RollbackWindow = 1
    LiveWindow = 0
    LiveLimit = 1
    RetireWindow = 3
    RetireAfter = 2
    StartLedgers <- Ledgers
    MaxTime = 1
    MaxRecords = 10
    MaxCrashes = 1
SPECIFICATION PartsSpec
INVARIANTS PartsTypeOK DemotedIsClosed StagesTold AnswersAreTrue ChainUnbroken FillsHonest BarsHoldTheirQuotes LearningHonest RecordsStand AnswersHold SetupsStand FailuresMended
PROPERTIES AlertsArrive
CHECK_DEADLOCK FALSE
