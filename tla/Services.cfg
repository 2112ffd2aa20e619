CONSTANTS
    Streams = {"s1"}
    MaxChanges = 2
    MaxFailures = 1
    Callers = {"c1", "c2"}
    MaxChannels = 3
    MaxFaults = 2
    MinWorkers = 1
    MaxWorkers = 2
    ScaleMaxDepth = 2
    Depths <- PoolDepths
    MaxLaunches = 4
    Workers = {"w1"}
    Gateways = {"g1"}
    Admins = {"a1", "a2"}
    Limits = {0, 1}
    MaxUpdates = 2
    MaxConfigFaults = 1
    Creators = {"c1", "c2"}
    Bodies = {"b1", "b2"}
    MaxVersion = 3
    MaxSaveFaults = 1
    Processes = {"p1", "p2"}
    Requests = {"r1", "r2"}
    MaxReports = 2
    MaxJobFaults = 2
SPECIFICATION Spec
INVARIANTS
    HubTypeOK
    SignalKept
    PublisherTypeOK
    PoolTypeOK
    PoolBounded
    NoneUnsupervised
    ConfigTypeOK
    StaleOnlyByRace
    
    JobTypeOK
    PublishedOnce
    JobNotForgotten
    AppliedOnce
PROPERTIES
    BackOnlyAtOpening
    StreamsCatchUp
    LiveSlotKept
    PublisherComesBack
    CancelledEnds
    ConfigsConverge
    ReportsApplied
CHECK_DEADLOCK FALSE
