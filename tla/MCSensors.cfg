SPECIFICATION Spec
CONSTANTS
    FaultThreshold = 2
    TimeoutFloor = 1
    TimeoutFactor = 1
    BmeSlots = 2
    Wired = {"low", "high"}
    GpioSlots = 1
    MaxDebounce = 2
    DefaultDebounce = 1
    MaxTransitions = 3
    AddrOf <- MCAddrOf
    Pins = {"p1"}
    Installations <- MCInstallations
    BmeVtable <- MCBmeVtable
    GpioVtable <- MCGpioVtable
    AnyRecovery = FALSE
    MaxRuns = 2
    MaxCommands = 1
INVARIANTS SlotsAreOwned OneConversion FreshAfterStart
PROPERTIES DebouncedChange SteadyLevelReported
