CONSTANTS
    u1 = u1
    t1 = t1
    Untimed = {u1}
    Timed = {t1}
    EarlySignal = TRUE
    Interrupts = {"main", "other"}
SPECIFICATION FairSpec
INVARIANTS LoopLock StoppedLoopIsAwake
PROPERTIES StopEndsProcess
CHECK_DEADLOCK FALSE
