SPECIFICATION FairSpec
CONSTANTS
    c1 = c1
    c2 = c2
    Main = main
    Nobody = nobody
    PrivateNet = TRUE
    Callers = {}
    Resetters = {r1}
    Drivers = {d1, d2}
    Throws = {}
    MaxItems = 2
    MaxBlocks = 0
    MaxPauses = 2
PROPERTIES
    PauseReturns
CHECK_DEADLOCK FALSE
