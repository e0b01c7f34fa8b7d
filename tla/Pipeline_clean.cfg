SPECIFICATION Spec
CONSTANTS
    opened = opened
    again = again
    pushed = pushed
    forged = forged
    closed = closed
    garbled = garbled
    c1 = c1
    c2 = c2
    pr1 = pr1
    Deliveries = {opened}
    Event <- MCEvent
    Commits = {c1}
    CrLf = {c1}
    WORKER_CONCURRENCY = 2
    Procs = 1
    MaxFixes = 2
    Eligible <- MCEligible
    MaxFaults = 0
    MaxSent = 1
INVARIANTS
    CleanMeansChecked
CHECK_DEADLOCK FALSE
