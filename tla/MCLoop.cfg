SPECIFICATION MCSpec
CONSTANTS
    Threads = {t1, t2}
    Linked = Linked
    BatchMax = 1
    Modes = {"DEFAULT", "ONCE", "NOWAIT"}
    HasSource = TRUE
    MaxPosts = 3
    MaxStops = 1
    MaxTimers = 1
    MaxDepth = 2
    r1 = r1
    r2 = r2
    t1 = t1
    t2 = t2
INVARIANTS WakeNotLost NoLostPost  OwnedOnce
CHECK_DEADLOCK FALSE
