SPECIFICATION Spec
CONSTANTS
    p1 = p1
    p2 = p2
    q1 = q1
    q2 = q2
    q3 = q3
    q4 = q4
    n1 = n1
    n2 = n2
    s1 = s1
    Patches = {p1}
    Requests = {q1, q2, q3}
    Pulls = {n1}
    ShortIds = {s1}
    ShortId <- SameShortId
    Undiffable = {}
    PullRequestLoads = FALSE
    CallsFail = FALSE
    NoBranch = NoBranch
    Nobody = Nobody
INVARIANTS
    ApplyGoesThrough
CHECK_DEADLOCK FALSE
