SPECIFICATION FairSpec
CONSTANTS
    Works = {w1, w2, w3}
    NoWork = NoWork
    GroupFrees = FALSE
    MaxSubmits = 4
INVARIANT WorkSafe
PROPERTY WorksEnd
