SPECIFICATION Spec
CONSTANTS
    k1 = k1
    k2 = k2
    w1 = w1
    w2 = w2
    Keys <- OneKey
    Dispatched <- OneKey
    Workers <- TwoWorkers
    RetryLimit = 2
    MaxAttempt = 2
    Operations <- StopAndRetry
    FaultKinds <- PublishFaults
    MaxFaults = 1
SYMMETRY Symmetry
PROPERTIES
    StopNotOverwritten
CHECK_DEADLOCK FALSE
