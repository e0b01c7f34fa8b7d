SPECIFICATION FairSpec
CONSTANTS
    j1 = j1
    j2 = j2
    j3 = j3
    w1 = w1
    w2 = w2
    t1 = t1
    t2 = t2
    t3 = t3
    r1 = r1
    Repos = {r1}
    RepoOf <- OneRepo
    Jobs = {j1}
    Extended = {}
    Malformed = {}
    MAX_JOB_RETRY_COUNT = 3
    RetryLimit = 3
    WORKER_CONCURRENCY = 2
    Loops = {w1}
    Tasks = {t1}
    CallTransfers = FALSE
    FailingSessions = {}
    MayStop = FALSE
    MaxFaults = 0
PROPERTIES
    WaitingJobIsTaken
CHECK_DEADLOCK FALSE
