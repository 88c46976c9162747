SPECIFICATION RefinementSpec
CONSTANTS
    Task = {t1, t2}
    Node = {n1}
    Content = {c1}
    MaxAttempt = 1
    MaxCopies = 1
    MaxTasks = 2
    CriticalReplicas = {}
    Replicas <- OneReplica
    Requested <- FastAndDurable
    RecoverableCopies <- OneCopy
    CompactAfter = 2
    MaxIndex = 3
INVARIANTS
    NeverCorrupt
    ReplayMatchesMemory
    ReplicasFollowHistory
PROPERTY ImplementsLedger
