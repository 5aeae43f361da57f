SPECIFICATION Spec
CONSTANTS
    a = a
    m = m
    g = g
    Items = {a, m, g}
    Home <- MCHome
    Media = {}
    Refused = {m}
    Type <- MCType
    Broken = {1}
    Later = {2}
    Handlers = {h1}
    Clients = {c1}
    FeedSize = 2
    PageSize = 1
    MaxFaults = 1
    MaxEdits = 1
INVARIANTS
    TypeOK
    OneEventPerPost
PROPERTIES
    OfferedIsCollected
    MessagesAreKept
