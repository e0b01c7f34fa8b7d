SPECIFICATION FairSpec
CONSTANTS
    j1 = j1
    j2 = j2
    j3 = j3
    w1 = w1
    w2 = w2
    t1 = t1
    t2 = t2
    t3 = t3
    r1 = r1
    Repos = {r1}
    RepoOf <- OneRepo
    Jobs = {j1, j2, j3}
    Extended = {j2}
    Malformed = {j3}
    MAX_JOB_RETRY_COUNT = 1
    RetryLimit = 1
    WORKER_CONCURRENCY = 1
    Loops = {w1}
    Tasks = {t1, t2}
    CallTransfers = TRUE
    FailingSessions = {"create", "persist"}
    MayStop = FALSE
    MaxFaults = 1
INVARIANTS
    PendingReviewHasTask
PROPERTIES
    ImplementsReliableQueue
    EveryJobSettles
CHECK_DEADLOCK FALSE
