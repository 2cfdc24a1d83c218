SPECIFICATION HandlerSpec
CONSTANTS
    InitialSize = 1
    AskedSizes = {1}
    MaxBuffers = 2
    MaxInFlight = 0
    Prefill = 0
    Estimates = {1}
    MaxCreated = 4
    MaxObjects = 3
    Requests = {r1, r2, r3}
    NoRequest = NoRequest
    UseFFI = FALSE
    MaxFfiFailures = 2
    ZeroCopyTimeout = FALSE
INVARIANTS
    ChunkIntact
CHECK_DEADLOCK FALSE
