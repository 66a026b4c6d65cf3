SPECIFICATION Spec
CONSTANTS
    c1 = c1
    c2 = c2
    c3 = c3
    Main = main
    Nobody = nobody
    NoLog = nolog
    Acts <- MCActs
    Loops = {l1, l2}
    MaxHeight = 2
    Calls = {c1, c2, c3}
    Resetters = {}
    Faults = {"read", "batch", "updates", "nep17", "onPersist", "committee", "tear"}
    MaxCrashes = 2
    MaxResets = 0
    MayInvoke = TRUE
SYMMETRY Symmetry
INVARIANTS
    HeightsClose
    ChangesOfLedger
    OnlyNextHashIsLost
CHECK_DEADLOCK FALSE
