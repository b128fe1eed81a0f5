SPECIFICATION FairSpec
CONSTANTS
    Threads = {t1, t2}
    Linked = Linked
    BatchMax = 4
    Modes = {"DEFAULT"}
    HasSource = TRUE
    MaxPosts = 2
    MaxStops = 1
    MaxTimers = 0
    MaxDepth = 2
PROPERTY StopReturns
