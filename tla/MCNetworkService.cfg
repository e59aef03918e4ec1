SPECIFICATION FairSpec
CONSTANTS
    Cids = {d1, d2}
    Peers = {p1}
    Callers = {c1, c2}
    BootstrapPeers = {}
    MaxConns = 2
INVARIANTS WaitersHaveQuery PeersFollowConnections QueriesMatchBitswap
PROPERTIES GetsAnswered
CHECK_DEADLOCK FALSE
