SPECIFICATION TFairSpec
CONSTANTS
    Loops = {l1}
    NoLoop = nil
    Callers = {c1}
    IsSource = TRUE
    Backpressure = TRUE
    Queue = 3
    Prebuffer = 2
    Stall = 2
    RetryMin = 2
    RetryMax = 2
    Shifts = {1}
    Static = 0
    Devices = {d1, d2}
    None = none
PROPERTIES
    SilentProducerStopsPlaying
    DeliveringSourcePlays
    FirstFrameIsMeasured
    DeviceFollows
