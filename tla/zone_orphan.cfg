SPECIFICATION Spec
CONSTANTS
    Loops = {l1, l2}
    NoLoop = nil
    Callers = {c1, c2}
    IsSource = FALSE
    Backpressure = FALSE
    Queue = 3
    Prebuffer = 2
    Stall = 2
    RetryMin = 2
    RetryMax = 2
INVARIANT StoppedMeansNoStream
CHECK_DEADLOCK FALSE
