SPECIFICATION Spec
CONSTANTS
    Posts = {p1}
    Digests = {d1}
    Workers = {w1}
    Mortal = {}
    p1 = p1
    d1 = d1
    w2 = w2
    q2 = q2
    m1 = m1
    m2 = m2
    Requests = {q1, q2}
    ModelOf <- MCModelOf
    MaxAttempts = 2
    ScanLimit = 1
    None = None
    MaxTexts = 1
    MaxFaults = 0
INVARIANTS
    InterestChangeIsAtomic
CHECK_DEADLOCK FALSE
