SPECIFICATION Spec
CONSTANTS
    r1 = r1
    r2 = r2
    p1 = p1
    p2 = p2
    v1 = v1
    v2 = v2
    Runs = {r1, r2}
    PersonCommits = {p1}
    Contents = {v1}
    Refreshes = {}
    Absent = Absent
    Unnamed = Unnamed
    MaxBase = 0
    GitMayFail = FALSE
    Conflicted = FALSE
    MayPutBack = FALSE
PROPERTY PruneLeavesPeople
\* Every run takes its steps once and people may do nothing: the system stops.
CHECK_DEADLOCK FALSE
