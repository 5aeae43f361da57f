SPECIFICATION Spec
CONSTANTS
    Events = {e1}
    Workers = {w1, w2}
    Mortal = {w2}
    NoWorker = NoWorker
    NoEvent = NoEvent
    LeaseTTL = 1
    Grace = 0
    MaxAttempts = 2
    EventTTL = 4
    AttemptCap = 4
    Backoff <- MCBackoff
INVARIANT
    OneSummaryPerPost
