SPECIFICATION ProcessSpec
CONSTANTS
    Task = {t1, t2}
    Caller = {c1}
    Workers <- TwoWorkers
    Origin = "origin"
    LocalOnly = {t2}
    Restartable = {t1}
    MaxTasks = 1
    MaxFallback = 1
    MaxAttempt = 2
    MaxPending = 1
INVARIANTS
    ActiveIsNewestAndRan
    FreshCandidates
    ConnectionsClean
    QuietBeforeStop
PROPERTIES
    AcceptedInOrder
    CallsReturn
    ShutdownEnds
CHECK_DEADLOCK FALSE
