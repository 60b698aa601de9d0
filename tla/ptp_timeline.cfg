SPECIFICATION Spec
CONSTANTS
    Masters = {a, b}
    TwoStep = {a}
    Assist = {a}
    None = none
    MinSamples = 2
    Window = 3
    SampleMaxAge = 1
    PendingMaxAge = 0
    Holdover = 0
    SeqMod = 2
    Laps = 1
    Weathers = {FALSE}
    MaxDelay = 0
    MaxAir = 2
INVARIANTS OneTimeline
