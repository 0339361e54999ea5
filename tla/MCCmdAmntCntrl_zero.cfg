SPECIFICATION Spec
CONSTANTS
    Workers = {w1, w2}
    Free = Free
    MaxReqLimit = 1
    MaxFailRatio = 50
    FailMin = 0
    Intvl = 1
    TimeMod = 8
    StartTime = 2
    MaxTime = 4
    MaxReqs = 5
    MaxOrders = 1
CHECK_DEADLOCK FALSE
INVARIANT NeverDividesByZero
