SPECIFICATION Spec
CONSTANTS
    s1 = s1
    Sources = {s1}
    Posts = {p1}
    SourceOf <- MCSourceOf
    Schedulers = {c1}
    Triggers = {q1}
    Workers = {w1}
    None = None
    CronInterval = 1
    MaxWindow = 2
    MaxTime = 2
INVARIANTS
    FullIntervalApart
CHECK_DEADLOCK FALSE
