SPECIFICATION MCSpec
CONSTANTS
    Handlers = {h1, h2}
    First = h1
    Ids = {"a", "b"}
    Declared <- MCDeclared
    Stated <- MCStated
    Envs <- MCEnvs
    Flag = none
    None = none
    ChunkMillis = 20
    QueueChunks = 6
    PrebufferChunks = 2
    MaxStations = 2
    Polls = {p1, p2}
    Timers = {t1, t2}
    Garbled = garbled
    Watchable <- MCWatchable
INVARIANTS
    CTypeOK
    RestartKeepsStations
    StatedIsKept
    BuffersFit
    OneTimer
PROPERTIES
    ButtonsEndWithList
CHECK_DEADLOCK FALSE
