SPECIFICATION Spec
CONSTANTS
    Task = {t1, t2}
    Node = {n1}
    Content = {c1}
    MaxAttempt = 2
    MaxCopies = 0
    MaxTasks = 2
    CriticalReplicas = {}
    MaxRecoverable = 2
CONSTRAINT BoundedRecoverable
INVARIANTS
    TypeOK
    FencedAttempts
    OnlyNewestCommits
    DurableAgrees
PROPERTY DurableHistory
CHECK_DEADLOCK FALSE
