SPECIFICATION FairSpec
CONSTANTS
    c1 = c1
    c2 = c2
    c3 = c3
    Main = main
    Nobody = nobody
    NoLog = nolog
    Acts <- MCActs
    Loops = {l1, l2}
    MaxHeight = 2
    Calls = {c1, c2}
    Resetters = {r1}
    Faults = {"read", "batch", "onPersist", "committee", "reset"}
    MaxCrashes = 1
    MaxResets = 2
    MayInvoke = FALSE
INVARIANTS
    TypeOK
    OneLoop
    HeightsAgree
    BlocksComplete
    GlobalIndexDense
PROPERTIES
    ResolvedIsPersisted
    AtomicBlocks
    NextBlockSettles
    StopReturns
CHECK_DEADLOCK FALSE
