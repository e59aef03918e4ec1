SPECIFICATION Spec
CONSTANTS
    Keys = {a, b}
    Lengths = {1}
    MaxSize = 3
    TtlBuf = 1
    ClockSteps = {0, 1}
    MaxClock = 3
    MaxCount = 3
INVARIANT TtlLenIsStoreLen
