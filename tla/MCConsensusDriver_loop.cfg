SPECIFICATION FairSpec
CONSTANTS
    c1 = c1
    c2 = c2
    Main = main
    Nobody = nobody
    PrivateNet = TRUE
    Callers = {c1, c2}
    Resetters = {r1}
    Drivers = {d1, d2}
    Throws = {"init", "timer", "payload", "persist", "transaction", "reset"}
    MaxItems = 3
    MaxBlocks = 2
    MaxPauses = 2
INVARIANTS
    TypeOK
    OneDriver
    LatestBlockFirst
    TimerKept
PROPERTIES
    KeepsRunning
    PauseEnds
CHECK_DEADLOCK FALSE
