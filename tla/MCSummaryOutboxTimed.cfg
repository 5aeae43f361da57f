SPECIFICATION TimedSpec
CONSTANTS
    Events = {e1}
    Workers = {w1, w2}
    Mortal = {w2}
    NoWorker = NoWorker
    NoEvent = NoEvent
    LeaseTTL = 2
    Grace = 1
    MaxAttempts = 2
    EventTTL = 5
    AttemptCap = 8
    Backoff <- MCBackoff
    MaxFaults = 3
INVARIANTS
    LeaseHeldWithoutFault
PROPERTIES
    EveryEventGetsVerdict
