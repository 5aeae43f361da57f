SPECIFICATION Spec
CONSTANTS
    Width = 6
    AttemptBound = 8
    Posts = {1, 2, 3}
    Times = {0, 1, 2}
    From = 1
    To = 3
    Texts <- MCTexts
    Limits = {0, 2, 5, 8}
    PageSize = 1
    MaxEdits = 1
INVARIANTS
    CappedExponential
    InputFits
    InputIsNewest
    OnlyNewestIsCut
CHECK_DEADLOCK FALSE
