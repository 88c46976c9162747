SPECIFICATION RefinementSpec
CONSTANTS
    Task = {t1}
    Node = {n1}
    Content = {c1}
    MaxAttempt = 2
    MaxCopies = 3
    MaxTasks = 1
    CriticalReplicas = {3}
    Replicas <- TwoReplicas
    Requested <- OnlyCritical
    RecoverableCopies <- OneCopy
    CompactAfter = 3
    MaxIndex = 4
INVARIANTS
    PublishedCopies
    EntryLossSurvivable
PROPERTY ImplementsLedger
