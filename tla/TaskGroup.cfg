SPECIFICATION FairSpec
CONSTANTS
    Workers = {w1, w2}
    Tasks = {a, b, c}
    Clients = {main, other}
    Main = main
    NoTask = NoTask
    QCap = 2
    SpawnMayFail = FALSE
    MaxSubmits = 3
    MaxCancels = 1
INVARIANT GroupAccounts
PROPERTIES CancelledNeverRuns TasksFinish
CHECK_DEADLOCK FALSE
