SPECIFICATION Spec
CONSTANTS
    p1 = p1
    p2 = p2
    q1 = q1
    q2 = q2
    q3 = q3
    q4 = q4
    n1 = n1
    n2 = n2
    s1 = s1
    Patches = {p1, p2}
    Requests = {q1, q2, q3, q4}
    Pulls = {n1, n2}
    ShortIds = {s1}
    ShortId <- SameShortId
    Undiffable = {}
    PullRequestLoads = TRUE
    CallsFail = TRUE
    NoBranch = NoBranch
    Nobody = Nobody
SYMMETRY RequestSymmetry
INVARIANTS
    TypeOK
    OneRequestPerBranch
    RowTellsTheTruth
    OnlyApprovedReachGitHub
    OnlyErrorsLeaveWork
CHECK_DEADLOCK FALSE
