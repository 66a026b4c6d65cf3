SPECIFICATION Spec
CONSTANTS
    c1 = c1
    c2 = c2
    c3 = c3
    Main = main
    Nobody = nobody
    NoLog = nolog
    Acts <- MCActs
    Loops = {l1, l2}
    MaxHeight = 2
    Calls = {c1, c2}
    Resetters = {r1}
    Faults = {}
    MaxCrashes = 0
    MaxResets = 1
    MayInvoke = FALSE
INVARIANTS
    ResetStartsOver
CHECK_DEADLOCK FALSE
