SPECIFICATION Spec
CONSTANTS
    k1 = k1
    k2 = k2
    Keys <- TwoKeys
    Cost = 2
    Burst = 2
    MaxWindow = 3
    IdleTTL = 4
    EvictPeriod = 2
INVARIANTS TypeOK WithinRate IdleKeysAreForgotten
PROPERTIES ImplementsTokenBucket
