SPECIFICATION ConsFairSpec
CONSTANTS
    t1 = t1
    t2 = t2
    x = x
    Txs = {t1, t2, x}
    Undecodable = {x}
    Genesis = Genesis
    Malformed = Malformed
    Missing = Missing
    Payloads <- MCPayloads
    Clients = {c1, c2}
    QueryCap = 1
    MaxBlocks = 2
INVARIANT BetweenBlocks
PROPERTIES ImplementsOutline ImplementsLedger ClientsReleased BlocksFinish
