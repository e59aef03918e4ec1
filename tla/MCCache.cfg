SPECIFICATION MCSpec
CONSTANTS
    Keys = {a, b, c}
    Lengths = {1, 2, 4}
    MaxSize = 3
    TtlBuf = 3
    ClockSteps <- StrictClock
    MaxClock = 8
    MaxCount = 4
    LKeys = {k1, k2, k3, k4}
    Values = {u, w}
    Caps <- CapsChecked
    NoCap = NoCap
    Nodes = {n1, n2, n3, n4, n5}
    Nil = Nil
SYMMETRY MCSymmetry
INVARIANTS TypeOK TtlIndexAgrees CapacityRespected ListMatchesStore
PROPERTIES EvictsLfuThenLru ExpiresExactly ImplementsContentCache ImplementsQueue
