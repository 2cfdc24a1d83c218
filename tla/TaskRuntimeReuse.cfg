SPECIFICATION Spec
CONSTANTS
    Workers = {w1, w2}
    Callers = {js}
    JS = js
    Jobs = {j1, j2}
    NoJob = NoJob
    InitThreads = 1
    DefaultThreads = 1
    QueueMax = 2
    BatchPop = 2
    SpawnMayFail = FALSE
    MaxStops = 1
    Kinds = {"copy"}
    OpResults = {"ok"}
    Signals = {"none"}
    DrainCap = 2
    MaxPooled = 2
    GuardMax = 5
PROPERTIES SettlesAfterReuse
CHECK_DEADLOCK FALSE
