SPECIFICATION SoakSpec
CONSTANTS
    SeqValues = 3
    HealthTimeout = 1
    MinFrame = 10
    Mtu = 230
    KnownTypes = {"STAT_REQ", "STAT_RSP"}
    Far = "loopback"
    PayloadBytes = 230
    Duration = 4
    Interval = 1
    Timeout = 2
    DrainStep = 1
    HealthEvery = 1
    MaxLate = 1
    WireRoom = 2
INVARIANTS EachFrameOnce OwnAnswer
PROPERTIES SoakEnds
