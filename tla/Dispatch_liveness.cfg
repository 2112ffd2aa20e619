SPECIFICATION FairSpec
CONSTANTS
    d1 = d1
    d2 = d2
    h1 = h1
    h2 = h2
    Total = 2
    MaxMessages = 1
    MaxChannels = 2
    Dispatchers <- OneDispatcher
    Requests <- OneRequest
    MaxWakeups = 2
    MaxFaults = 2
PROPERTIES
    ActiveIsFannedOut
