SPECIFICATION TickingSpec
CONSTANTS
    PayloadMax = 2
    MaxFragments = 3
    FragTimeout = 2
    CfgIds = {"c1"}
    Bodies = {"a", "b"}
INVARIANTS CompleteIsWhole CrcFailsOnlyOnDamage
PROPERTIES SlotTurnsOver TransactionKeepsSlot
