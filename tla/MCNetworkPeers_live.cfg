SPECIFICATION FairSpec
CONSTANTS
    o1 = o1
    o2 = o2
    i1 = i1
    n1 = n1
    n2 = n2
    NoPeer = nopeer
    Nonces = {n1, n2}
    RemoteOf <- TwoNodes
    Self = n2
    Conns <- DialConns
    Outbound = {o1, o2}
    Inbound = {}
    Seeds = {o1}
    PeerSeeds = {o2}
    MaxPeers = 2
    MayReset = TRUE
PROPERTIES
    AttemptsEnd
    SeedsRetried
CHECK_DEADLOCK FALSE
