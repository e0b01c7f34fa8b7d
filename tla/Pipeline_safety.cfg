SPECIFICATION Spec
CONSTANTS
    opened = opened
    again = again
    pushed = pushed
    forged = forged
    closed = closed
    garbled = garbled
    c1 = c1
    c2 = c2
    pr1 = pr1
    Deliveries = {opened, again, pushed, forged, closed, garbled}
    Event <- MCEvent
    Commits = {c1, c2}
    CrLf = {c1}
    WORKER_CONCURRENCY = 2
    Procs = 2
    MaxFixes = 2
    Eligible <- MCEligible
    MaxFaults = 1
    MaxSent = 2
INVARIANTS
    TypeOK
    OnlySignedEventsReviewed
    PatchesFromCommit
    ToolsSeeCommit
    HeadIsLatestUnlessOverlapping
    PatchesAllOrNone
PROPERTIES
    EveryRunEnds
CHECK_DEADLOCK FALSE
