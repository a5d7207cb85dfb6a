CONSTANTS
    m1 = m1
    p1 = p1
    Orders = {p1}
    Resting = {p1}
    Timed = {}
    MaxSl = 1
    MaxLost = 1
    MaxRefused = 0
    Decisions <- RestingDecisions
    Modes = {TRUE}
    Controls = {}
    MaxControls = 0
    MaxCrashes = 0
    NoOrder = NoOrder
SPECIFICATION Spec
INVARIANTS OneIntentOneTicket
CHECK_DEADLOCK FALSE
