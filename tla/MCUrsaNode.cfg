SPECIFICATION NodeFairSpec
CONSTANTS
    Ids = {k1, k2, k3}
    Handlers = {h1, h2}
    Month = 2
    U64 = 8
    MaxTime = 3
    Nodes = {n1}
    NoKey = NoKey
    Torn = Torn
    MaxEvents = 3
    Texts <- MCTexts
INVARIANTS RunsUnderSavedKey SettingsKept
PROPERTIES RegisteredAreListed NodesComeUp
