CONSTANTS
    t1 = t1
    t2 = t2
    alice = alice
    bob = bob
    Tx = {t1, t2}
    Senders = {alice, bob}
    SenderOf <- MCSenderOf
    PaysTo <- MCPaysTo
    Settings <- MCSettings
    BlockTx = 1
    PoolSize = 1
    Attempts <- MCAttempts
    MaxResets = 1
SPECIFICATION FairSpec
INVARIANTS
    TypeOK
    OncePerChain
    Affordable
    SentIsKept
PROPERTIES
    PoolDrains
CHECK_DEADLOCK FALSE
