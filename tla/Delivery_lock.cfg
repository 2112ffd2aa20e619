SPECIFICATION Spec
CONSTANTS
    k1 = k1
    k2 = k2
    w1 = w1
    w2 = w2
    Keys <- OneKey
    Dispatched <- OneKey
    Workers <- TwoWorkers
    RetryLimit = 2
    MaxAttempt = 3
    Operations <- RetryOnly
    FaultKinds <- AllFaults
    MaxFaults = 3
SYMMETRY Symmetry
INVARIANTS
    TypeOK
    ProcessedByOne
    SendsBoundedByFaults
    NoDeliveryForgotten
PROPERTIES
    TerminalRowsProtected
    AttemptNeverBack
CHECK_DEADLOCK FALSE
