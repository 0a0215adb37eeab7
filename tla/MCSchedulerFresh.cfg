SPECIFICATION Spec
CONSTANTS
    FaultThreshold = 3
    TimeoutFloor = 1
    TimeoutFactor = 2
    Vtables <- OneSensor
    MaxLate = 2
    MaxCommands = 2
INVARIANT EveryCycleMeasures
