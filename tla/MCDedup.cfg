SPECIFICATION Spec
CONSTANTS
    r = r
    v1 = v1
    v2 = v2
    Regular = r
    Visitors = {v1, v2}
    LastRegular = 15
    LastVisitor = 0
    Nodes <- Everyone
    MaxId <- LastFrames
    Peers = 2
    HalfSpace = 4
    Window = 2
    Horizon = 2
    MaxGap = 9
SYMMETRY Symmetry
INVARIANTS NoDoubleProcessing FirstCopyInWindowAccepted RecentSendersKept
