SPECIFICATION FairSpec
CONSTANTS
    Parts = {q1}
    Pages = {p1, p2}
    Readers = {p1}
    Conns = {c1, c2}
    None = none
    NotifyCap = 1
    ChanCap = 1
    MaxVersion = 1
INVARIANTS
    TypeOK
    SendsAreOpen
PROPERTIES
    FeedIsMonotone
    LatestIsShown
    HandlersEnd
CHECK_DEADLOCK FALSE
