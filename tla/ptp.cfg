SPECIFICATION FairSpec
CONSTANTS
    Masters = {a, b}
    TwoStep = {a}
    Assist = {}
    None = none
    MinSamples = 2
    Window = 2
    SampleMaxAge = 1
    PendingMaxAge = 0
    Holdover = 1
    SeqMod = 2
    Laps = 2
    Weathers = {TRUE}
    MaxDelay = 0
    MaxAir = 2
INVARIANTS
    TypeOK
    WindowIsRecent
    PairedSamples
PROPERTIES
    LoneMasterLocks
    SilenceEndsEstimate
