SPECIFICATION FairSpec
CONSTANTS
    None = none
    Starts <- MCStarts
    Stops <- MCStops
    BatchSize = 2
    QueueSize = 3
    MaxHeight = 7
    MaxResets = 1
    MayFail = TRUE
INVARIANTS
    TypeOK
    QueueBounded
    BatchOnChain
PROPERTIES
    InOrder
    NextAnswered
CHECK_DEADLOCK FALSE
