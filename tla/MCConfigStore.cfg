SPECIFICATION StoreSpec
CONSTANTS
  Configs = {c1, c2, c3}
  NoConfig = NoConfig
  Failing = {"status"}
INVARIANT RamAgreesWithNvs
PROPERTIES ActiveSlotKept ImplementsCell
