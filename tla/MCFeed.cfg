SPECIFICATION Spec
CONSTANTS
    Posts = {1}
    Digests = {2}
    Scores = {1, 2}
    LikeBoost = 1
    Filters <- MCFilters
    PageSize = 1
    LoadCalls = {l1, l2}
    ReactCalls = {r1, r2}
    MaxScorings = 1
    MaxClicks = 2
    MaxFaults = 1
    None = None
SYMMETRY Symmetry
INVARIANTS
    TypeOK
    CursorDescends
    PagesMakeTheFeed
    MarkIsStored
