CONSTANTS
    NoTask = NoTask
    NoId = 0
    Task <- MCTask
    Batch <- MCBatch
    NextResponse <- nr
SPECIFICATION FairSpec
INVARIANTS TypeOK NoLostWakeup
PROPERTIES PoolSpec QueuedIsTaken StopEndsLoop
CHECK_DEADLOCK FALSE
