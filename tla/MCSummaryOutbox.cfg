SPECIFICATION Spec
CONSTANTS
    Events = {e1}
    Workers = {w1, w2}
    Mortal = {w2}
    NoWorker = NoWorker
    NoEvent = NoEvent
    LeaseTTL = 2
    Grace = 1
    MaxAttempts = 2
    EventTTL = 6
    AttemptCap = 4
    Backoff <- MCBackoff
INVARIANTS
    TypeOK
    LockedWhileProcessing
    LatestAttemptOwns
    PendingHasBudget
    CompletedIsSummarized
    RepeatedRunsReuseSummary
PROPERTIES
    ResolvedByLatestAttempt
    VerdictIsFinal
    ImplementsLifecycle
