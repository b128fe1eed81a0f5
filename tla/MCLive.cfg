SPECIFICATION MCSpec
CONSTANTS
    Producers = {p1, p2}
    Nodes = {n1, n2, n3}
    NULL = NULL
    Threads = {t1, t2}
    Linked = Linked
    BatchMax = 1
    Modes = {"DEFAULT", "ONCE", "NOWAIT"}
    HasSource = TRUE
    MaxPosts = 2
    MaxStops = 1
    MaxTimers = 1
    MaxDepth = 1
INVARIANTS EmptyIsEmpty NodesConserved
PROPERTIES ImplementsQueue EveryNodePopped  RequestsEnd
CHECK_DEADLOCK FALSE
