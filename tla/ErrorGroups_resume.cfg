SPECIFICATION FairGroupSpec
CONSTANTS
    k1 = k1
    k2 = k2
    s1 = s1
    s2 = s2
    w1 = w1
    w2 = w2
    Keys <- OneSwitched
    Dispatched <- OneKey
    Groups <- OneGroup
    SwitchKey <- SwitchOne
    Workers <- TwoWorkers
    RetryLimit = 1
    MaxAttempt = 1
    Operations <- NoOperations
    FaultKinds <- NoFaults
    MaxFaults = 0
PROPERTIES
    CompleteFinishes
CHECK_DEADLOCK FALSE
