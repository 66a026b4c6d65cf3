CONSTANTS
    None = None
    Peers = {p1, p2}
    Genesis = 0
    PerCount = 3
    Buffer = 1
    CloseCount = 2
    Ahead = 1
    MaxBlock = 2
    MaxFailures = 1
SPECIFICATION FairSpec
INVARIANTS
    TypeOK
    KnownIsStored
    CacheShort
PROPERTIES
    ProgressOrDrop
CHECK_DEADLOCK FALSE
