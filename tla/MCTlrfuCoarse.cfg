SPECIFICATION FairSpec
CONSTANTS
    Keys = {a, b, c}
    Lengths = {1, 4}
    MaxSize = 3
    TtlBuf = 1
    ClockSteps <- CoarseClock
    MaxClock = 2
    MaxCount = 3
INVARIANTS IndexesAgree UsedSizeExact
PROPERTIES CallsReturn ImplementsContentCache
