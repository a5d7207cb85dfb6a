CONSTANTS
    m1 = m1
    p1 = p1
    Orders = {m1, p1}
    Resting = {p1}
    Timed = {}
    MaxSl = 2
    MaxLost = 1
    MaxRefused = 2
    Decisions <- BothDecisions
    Modes = {TRUE}
    Controls = {"halt_close", "tighten"}
    MaxControls = 1
    MaxCrashes = 1
    NoOrder = NoOrder
SPECIFICATION Spec
INVARIANTS TypeOK WriteAhead ConsumedOnDisk FilledOnce PositionsAgree ConfirmedIsProtected
PROPERTIES OrdersFollowLife
CHECK_DEADLOCK FALSE
