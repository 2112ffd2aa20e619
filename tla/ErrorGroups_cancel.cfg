SPECIFICATION GroupSpec
CONSTANTS
    k1 = k1
    k2 = k2
    s1 = s1
    s2 = s2
    w1 = w1
    w2 = w2
    Keys <- OneSwitched
    Dispatched <- OneKey
    Groups <- OneGroup
    SwitchKey <- SwitchOne
    Workers <- OneWorker
    RetryLimit = 1
    MaxAttempt = 2
    Operations <- RetryOnly
    FaultKinds <- NoFaults
    MaxFaults = 0
PROPERTIES
    TerminalRowsProtected
CHECK_DEADLOCK FALSE
