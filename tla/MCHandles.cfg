SPECIFICATION MCSpec
CONSTANTS
    Slots = {s1, s2, s3}
    Fds = {f1, f2}
    IoMax = 2
    MaxAdds = 3
    MaxDepth = 1
    MaxReady = 3
    None = None
    Timers = {a, b}
    PoolMax = 2
    Delays = {0, 1}
    Repeats = {0, 1}
    MaxTime = 2
    MaxStarts = 3
    MaxCrossStops = 1
    x1 = x1
    x2 = x2
INVARIANTS HandlesExact TimerOnePlace  SetupWhole 
PROPERTY CallsTheLiving
CHECK_DEADLOCK FALSE
