SPECIFICATION Spec
CONSTANTS
    Workers = {w1, w2}
    Callers = {js}
    JS = js
    Jobs = {j1, j2, j3}
    NoJob = NoJob
    InitThreads = 2
    DefaultThreads = 2
    QueueMax = 2
    BatchPop = 2
    SpawnMayFail = FALSE
    MaxStops = 0
    Kinds = {"slice"}
    OpResults = {"ok"}
    Signals = {"live"}
    DrainCap = 1
    MaxPooled = 2
    GuardMax = 5
SYMMETRY Symmetry
INVARIANTS
    CompletesOnce
    
PROPERTIES
    CancelWaitingWins
CHECK_DEADLOCK FALSE
