SPECIFICATION GroupSpec
CONSTANTS
    k1 = k1
    k2 = k2
    s1 = s1
    s2 = s2
    w1 = w1
    w2 = w2
    Keys <- TwoAndOneSwitched
    Dispatched <- TwoKeys
    Groups <- TwoGroups
    SwitchKey <- SwitchOne
    Workers <- OneWorker
    RetryLimit = 1
    MaxAttempt = 1
    Operations <- NoOperations
    FaultKinds <- NoFaults
    MaxFaults = 0
PROPERTIES
    FinishedWhenProcessed
CHECK_DEADLOCK FALSE
