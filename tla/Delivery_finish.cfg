SPECIFICATION FairSpec
CONSTANTS
    k1 = k1
    k2 = k2
    w1 = w1
    w2 = w2
    Keys <- TwoKeys
    Dispatched <- TwoKeys
    Workers <- TwoWorkers
    RetryLimit = 2
    MaxAttempt = 2
    Operations <- StopAndCancel
    FaultKinds <- FinishFaults
    MaxFaults = 1
INVARIANTS
    NoDeliveryForgotten
PROPERTIES
    FinishedWhenProcessed
    StopNotOverwritten
    RunningFinishes
CHECK_DEADLOCK FALSE
