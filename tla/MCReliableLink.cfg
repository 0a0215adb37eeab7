SPECIFICATION Spec
CONSTANTS
    HalfSpace = 5
    Window = 2
    MaxRetries = 2
    Base = 1
    Jitter = 0
    Defer = 1
    Horizon = 3
    MaxGap = 4
    LastTransfer = 11
PROPERTIES ImplementsService EveryTransferEnds
CHECK_DEADLOCK FALSE
