SPECIFICATION FairSpec
CONSTANTS
    Files = {f}
    Zones = {z}
    Handlers = {h}
    Warmers = {w1, w2}
    None = none
    MaxVersion = 3
    Broken = {1}
INVARIANTS
    TypeOK
    WarmedOnce
PROPERTIES
    PadsKeepTheirPromise
    DroppedFileIsWarmed
