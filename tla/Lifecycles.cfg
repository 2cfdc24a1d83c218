SPECIFICATION Spec
CONSTANTS
    Workers = {w1, w2}
    Callers = {c1, c2}
    Jobs = {j1, j2, j3}
    NoJob = NoJob
    InitThreads = 1
    DefaultThreads = 1
    QueueMax = 2
    BatchPop = 2
    SpawnMayFail = FALSE
    MaxStops = 1
    Chains = {a}
    MayOverload = TRUE
    MayShutdown = TRUE
    InitialSize = 1
    AskedSizes = {1}
    MaxBuffers = 2
    MaxInFlight = 2
    Prefill = 0
    Estimates = {1}
    MaxCreated = 4
    MaxObjects = 3
    Requests = {r1, r2, r3}
    NoRequest = NoRequest
    UseFFI = TRUE
    MaxFfiFailures = 2
    ZeroCopyTimeout = TRUE
INVARIANTS
    EachJobOnce
    OnePool
    LeftAloneAnswers
    UnreadBodyHeld
    NothingLeaks
    GaugeExact
PROPERTIES
    
    
    AbandonedComeBack
CHECK_DEADLOCK FALSE
