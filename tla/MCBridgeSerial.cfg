SPECIFICATION LineSpec
CONSTANTS
    SlipCap = 4
    HostCap = 4
    MinFrame = 2
    Mtu = 3
    KnownTypes <- MCKnownTypes
    Messages <- MCMessages
    Oversized <- MCOversized
    Reports <- MCReport
    Bytes <- MCBytes
    MaxSent = 2
    MaxHeard = 1
    MaxFaults = 1
INVARIANTS HostGetsWhatWasEmitted EveryFrameAccounted
PROPERTY IntactFrameDecoded
CHECK_DEADLOCK FALSE
