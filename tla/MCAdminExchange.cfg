CONSTANTS
    k1 = k1
    k2 = k2
    k3 = k3
    a1 = a1
    Keys = {k1, k2, k3}
    Ids <- MCIds
    Args = {a1}
    MaxCommands = 2
    ReservedLifecycle = 0
    MaxAudit = 4
    ReservedCritical = 1
    MaxJobs = 1
    Workers = {1, 2}
    Offered <- MCOffered
    NoWorker = NoWorker
    QueueCapacity = 1
    CacheCapacity = 2
    BatchLimit = 2
    MaxSends = 3
    MaxCrashes = 1
    PoolWorkers = 2
    PoolClients = 2
    MaxStreams = 3
SPECIFICATION MCSpec
INVARIANTS AcknowledgedIsDurable StopAlwaysPossible PendingIsOwedOnce DepthAndOrderAgree
PROPERTIES PendingIsResolved ShutdownEnds
CHECK_DEADLOCK FALSE
