CONSTANTS
    m1 = m1
    p1 = p1
    Orders = {m1}
    Resting = {}
    Timed = {}
    MaxSl = 1
    MaxLost = 1
    MaxRefused = 0
    Decisions <- MarketDecisions
    Modes = {TRUE}
    Controls = {"halt_close"}
    MaxControls = 1
    MaxCrashes = 0
    NoOrder = NoOrder
SPECIFICATION FairSpec
PROPERTIES HaltClosesPositions
CHECK_DEADLOCK FALSE
