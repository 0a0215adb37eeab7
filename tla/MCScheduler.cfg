SPECIFICATION Spec
CONSTANTS
    FaultThreshold = 3
    TimeoutFloor = 1
    TimeoutFactor = 2
    Vtables <- TwoKinds
    MaxLate = 2
    MaxCommands = 2
INVARIANTS RetiredByStrikes WarmBeforeMeasuring
PROPERTIES FailuresAreSpaced EveryoneGoesFirst ReportsOrRetires
