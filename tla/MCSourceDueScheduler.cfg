SPECIFICATION Spec
CONSTANTS
    Sources = {s1, s2}
    Schedulers = {c1}
    Triggers = {q1}
    None = None
    CronInterval = 1
    MaxFaults = 1
INVARIANTS
    TypeOK
PROPERTIES
    PostsGetAnEvent
    SchedulerGetsOn
