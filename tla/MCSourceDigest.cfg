SPECIFICATION Spec
CONSTANTS
    s1 = s1
    Sources = {s1}
    Posts = {p1, p2}
    SourceOf <- MCSourceOf
    Schedulers = {c1, c2}
    Triggers = {q1}
    Workers = {w1, w2}
    None = None
    CronInterval = 1
    MaxWindow = 2
    MaxTime = 3
SYMMETRY Symmetric
INVARIANTS
    TypeOK
    SchedulerInsertsFreely
    ScheduledApart
    DigestsDisjoint
    OnlyGapsLosePosts
ACTION_CONSTRAINT Bound
CHECK_DEADLOCK FALSE
