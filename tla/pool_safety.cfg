CONSTANTS
    w1 = w1
    w2 = w2
    c1 = c1
    c2 = c2
    a1 = a1
    a2 = a2
    s1 = s1
    s2 = s2
    NoThread = NoThread
    NoReq = NoReq
    Workers <- TwoWorkers
    Callers <- TwoCallers
    AsyncReqs <- TwoAsync
    SyncReqs <- TwoSync
    BadUploads <- LastBad
    RunMayThrow = TRUE
    SpawnMayFail = TRUE
SPECIFICATION Spec
SYMMETRY Symmetry
INVARIANTS
    TypeOK
    QueuedTaskHasAwakeWorker
    SweepMissesNobody
    ExitLeavesNothingQueued
    JoinFindsNobodyAsleep
    PoolInv
PROPERTIES
    StopLeavesOnlyItsCaller
    NothingGoesOutAfterSweep
    KeepsContract
    KeepsRunContract
CHECK_DEADLOCK FALSE
