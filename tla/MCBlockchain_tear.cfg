SPECIFICATION Spec
CONSTANTS
    c1 = c1
    c2 = c2
    c3 = c3
    Main = main
    Nobody = nobody
    NoLog = nolog
    Acts <- MCActs
    Loops = {l1, l2}
    MaxHeight = 2
    Calls = {c1, c2}
    Resetters = {}
    Faults = {"tear"}
    MaxCrashes = 1
    MaxResets = 0
    MayInvoke = FALSE
INVARIANTS
    GlobalIndexOrdered
CHECK_DEADLOCK FALSE
