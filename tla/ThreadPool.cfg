SPECIFICATION Spec
CONSTANTS
    MaxThreads = 3
    NNodes = 2
    MulMats = {1}
    Chunks = 3
    Counts = {1,2,4}
    Growing = FALSE
    MayAbort = TRUE
    MayPause = TRUE
    StartPaused = TRUE
    MaxGraphs = 2
INVARIANTS
    TypeOK
    PartsOnce
PROPERTIES
    PoolUsesBarrier
    ComputesGraphs
