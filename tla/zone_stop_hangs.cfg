SPECIFICATION FairSpec
CONSTANTS
    Loops = {l1, l2}
    NoLoop = nil
    Callers = {c1}
    IsSource = FALSE
    Backpressure = FALSE
    Queue = 3
    Prebuffer = 2
    Stall = 2
    RetryMin = 2
    RetryMax = 2
PROPERTY StopReturns
CHECK_DEADLOCK FALSE
