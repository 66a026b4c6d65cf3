SPECIFICATION FairSpec
CONSTANTS
    c1 = c1
    c2 = c2
    Main = main
    Nobody = nobody
    PrivateNet = TRUE
    Callers = {c1}
    Resetters = {r1}
    Drivers = {d1, d2}
    Throws = {}
    MaxItems = 2
    MaxBlocks = 1
    MaxPauses = 0
PROPERTIES
    RunNowAnswered
CHECK_DEADLOCK FALSE
