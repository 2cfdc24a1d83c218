SPECIFICATION Spec
CONSTANTS
    Workers = {w1, w2}
    Callers = {js}
    JS = js
    Jobs = {j1, j2}
    NoJob = NoJob
    InitThreads = 1
    DefaultThreads = 1
    QueueMax = 1
    BatchPop = 2
    SpawnMayFail = FALSE
    MaxStops = 1
    Kinds = {"into"}
    OpResults = {"ok"}
    Signals = {"aborted"}
    DrainCap = 2
    MaxPooled = 2
    GuardMax = 5
PROPERTIES
    RefinesService
    EveryTaskSettles
CHECK_DEADLOCK FALSE
