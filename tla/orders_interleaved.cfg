CONSTANTS
    m1 = m1
    p1 = p1
    Orders = {m1, p1}
    Resting = {p1}
    Timed = {p1}
    MaxSl = 1
    MaxLost = 1
    MaxRefused = 0
    Decisions <- BothDecisions
    Modes = {FALSE}
    Controls = {"cancel"}
    MaxControls = 1
    MaxCrashes = 0
    NoOrder = NoOrder
SPECIFICATION Spec
INVARIANTS NoDoubleExposure TradedOnce
CHECK_DEADLOCK FALSE
