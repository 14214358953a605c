CONSTANTS
    w1 = w1
    w2 = w2
    c1 = c1
    c2 = c2
    a1 = a1
    a2 = a2
    s1 = s1
    s2 = s2
    NoThread = NoThread
    NoReq = NoReq
    Workers <- TwoWorkers
    Callers <- OneCaller
    AsyncReqs <- OneAsync
    SyncReqs <- NoReqs
    BadUploads <- NoReqs
    RunMayThrow = FALSE
    SpawnMayFail = TRUE
SPECIFICATION SilentSpec
PROPERTIES
    FailedStartEnds
CHECK_DEADLOCK FALSE
