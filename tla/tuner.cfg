SPECIFICATION FairSpec
CONSTANTS
    Callers = {c1, c2}
    Units = {u1, u2}
    FM = {fm}
    DAB = {dab}
    Ensembles = {}
    Off = off
    None = none
INVARIANTS
    TypeOK
    OneReceiver
    ShownIsTuned
PROPERTIES
    RequestsReturn
    ExitIsNoticed

