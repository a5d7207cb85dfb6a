CONSTANTS
    m1 = m1
    p1 = p1
    Orders = {m1, p1}
    Resting = {p1}
    Timed = {}
    MaxSl = 1
    MaxLost = 1
    MaxRefused = 1
    Decisions <- BothDecisions
    Modes = {TRUE}
    Controls = {"halt", "cancel", "close", "demote"}
    MaxControls = 1
    MaxCrashes = 0
    NoOrder = NoOrder
SPECIFICATION FairSpec
PROPERTIES StopRestored TradePublished
CHECK_DEADLOCK FALSE
