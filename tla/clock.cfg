SPECIFICATION FairAuditSpec
CONSTANTS
    Targets = {0, 4, 7, 13}
    NoEstimate = none
    Static = 4
    Step = 6
    SlewNum = 2
    SlewDen = 3
    MaxGap = 3
    MaxSpan = 9
INVARIANTS
    SlewRateBounded
PROPERTIES
    ServesMediaClock
    Converges
