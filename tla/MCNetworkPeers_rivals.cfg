SPECIFICATION Spec
CONSTANTS
    o1 = o1
    o2 = o2
    i1 = i1
    n1 = n1
    n2 = n2
    NoPeer = nopeer
    Nonces = {n1, n2}
    RemoteOf <- TwoNodes
    Self = n2
    Conns <- RivalConns
    Outbound = {o1}
    Inbound = {i1}
    Seeds = {o1}
    PeerSeeds = {}
    MaxPeers = 2
    MayReset = FALSE
INVARIANTS
    TypeOK
    ConnectedIsOpen
    BestPeerLives
    BestPeerExists
CHECK_DEADLOCK FALSE
