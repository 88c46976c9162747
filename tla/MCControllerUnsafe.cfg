SPECIFICATION ProcessSpec
CONSTANTS
    Task = {t1, t2}
    Caller = {c1}
    Workers <- TwoWorkers
    Origin = "origin"
    LocalOnly = {t2}
    Restartable = {}
    MaxTasks = 1
    MaxFallback = 1
    MaxAttempt = 2
    MaxPending = 1
INVARIANT UnsafeRunsOnce
CHECK_DEADLOCK FALSE
