SPECIFICATION FairSpec
CONSTANTS
    Loops = {l1, l2}
    NoLoop = nil
    Callers = {c1}
    IsSource = FALSE
    Backpressure = FALSE
    Queue = 3
    Prebuffer = 2
    Stall = 2
    RetryMin = 2
    RetryMax = 2
PROPERTIES
    KeepsChannel
    CancelledLoopEnds
    DeliveringStreamPlays
CHECK_DEADLOCK FALSE
