CONSTANTS
    w1 = w1
    w2 = w2
    a1 = a1
    a2 = a2
    s1 = s1
    s2 = s2
    main = main
    NoThread = NoThread
    NoReq = NoReq
    Workers <- TwoWorkers
    Callers <- OnlyMain
    AsyncReqs <- TwoAsync
    SyncReqs <- TwoSync
    BadUploads <- NoReqs
    RunMayThrow = FALSE
    SpawnMayFail = FALSE
    Tester = main
    Plan <- FourTransfers
    Probe = s2
SPECIFICATION FairTesterSpec
INVARIANTS
    TesterTypeOK
    PassIsEarned
PROPERTIES
    HandlerFindsPromise
    TesterEnds
CHECK_DEADLOCK FALSE
