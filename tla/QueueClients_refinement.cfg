SPECIFICATION FairSpec
CONSTANTS
    j1 = j1
    j2 = j2
    j3 = j3
    j4 = j4
    c1 = c1
    c2 = c2
    Jobs = {j1, j2}
    Extended = {}
    Malformed = {}
    MAX_JOB_RETRY_COUNT = 3
    Consumers = {c1, c2}
    MaxFaults = 1
PROPERTIES
    ImplementsReliableQueue
    EventuallySettled
CHECK_DEADLOCK FALSE
