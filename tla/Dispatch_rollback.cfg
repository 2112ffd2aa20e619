SPECIFICATION RollbackSpec
CONSTANTS
    d1 = d1
    d2 = d2
    h1 = h1
    h2 = h2
    Total = 1
    MaxMessages = 1
    MaxChannels = 1
    Dispatchers <- OneDispatcher
    Requests <- TwoRequests
    MaxWakeups = 1
    MaxFaults = 1
PROPERTIES
    RollbackRestoresStatus
