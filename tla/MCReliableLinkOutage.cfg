SPECIFICATION Spec
CONSTANTS
    HalfSpace = 4
    Window = 2
    MaxRetries = 1
    Base = 1
    Jitter = 0
    Defer = 1
    Horizon = 2
    MaxGap = 12
    LastTransfer = 14
INVARIANTS AckedMeansProcessed
CHECK_DEADLOCK FALSE
