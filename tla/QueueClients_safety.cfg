SPECIFICATION Spec
CONSTANTS
    j1 = j1
    j2 = j2
    j3 = j3
    j4 = j4
    c1 = c1
    c2 = c2
    Jobs = {j1, j2, j3, j4}
    Extended = {j3}
    Malformed = {j4}
    MAX_JOB_RETRY_COUNT = 1
    Consumers = {c1, c2}
    MaxFaults = 2
SYMMETRY ClientSymmetry
INVARIANTS
    TypeOK
    OnePlace
    OneJobPerFault
    FirstDeliveriesInOrder
    RetryBound
CHECK_DEADLOCK FALSE
