SPECIFICATION Spec
CONSTANTS
    MillisMod = 10
    NodeRounding = 0
    HostRounding = 0
    Outputs <- MCOutputs
    Warmup <- MCWarmup
    Interval = 2
    MaxPass = 2
    Failing = {1, 2}
    Values = {0, 1, 2, 3, 4}
    RuleTables <- MCRuleTables
PROPERTIES NeverDisagree EachFireIsEarned SteadyConditionFires
