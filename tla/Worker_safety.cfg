SPECIFICATION Spec
CONSTANTS
    j1 = j1
    j2 = j2
    j3 = j3
    w1 = w1
    w2 = w2
    t1 = t1
    t2 = t2
    t3 = t3
    r1 = r1
    Repos = {r1}
    RepoOf <- OneRepo
    Jobs = {j1, j2}
    Extended = {}
    Malformed = {}
    MAX_JOB_RETRY_COUNT = 1
    RetryLimit = 1
    WORKER_CONCURRENCY = 2
    Loops = {w1}
    Tasks = {t1, t2}
    CallTransfers = TRUE
    FailingSessions = {"create", "persist", "autofix", "fail"}
    MayStop = TRUE
    MaxFaults = 1
SYMMETRY TaskSymmetry
INVARIANTS
    TypeOK
    OneTaskPerJob
    PostedAtMostOnce
    OnlyAbandonedSuffer
CHECK_DEADLOCK FALSE
