SPECIFICATION MCSpec
CONSTANTS
    Posts = {p1}
    Digests = {d1}
    Workers = {w1, w2}
    Mortal = {w2}
    p1 = p1
    d1 = d1
    w2 = w2
    q2 = q2
    m1 = m1
    m2 = m2
    Requests = {q1, q2}
    ModelOf <- MCModelsOf
    MaxAttempts = 2
    ScanLimit = 1
    None = None
    MaxTexts = 2
    MaxFaults = 1
INVARIANTS
    TypeOK
    StaleScoreExplained
    ScoreIsCoherent
PROPERTIES
    ImplementsScoring
    EverySummaryIsScored
CHECK_DEADLOCK FALSE
