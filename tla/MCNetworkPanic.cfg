SPECIFICATION Spec
CONSTANTS
    Cids = {d1}
    Peers = {p1}
    Callers = {c1, c2}
    BootstrapPeers = {}
    MaxConns = 1
INVARIANTS CommandsHandled
CHECK_DEADLOCK FALSE
