SPECIFICATION Spec
CONSTANTS
    MillisMod = 10
    NodeRounding = 0
    HostRounding = 1
    Outputs <- MCOutputs
    Warmup <- MCWarmup
    Interval = 2
    MaxPass = 2
    Failing = {}
    Values = {0, 1, 2, 3, 4}
    RuleTables <- MCRuleTables
PROPERTY AlwaysAgree
