SPECIFICATION Spec
CONSTANTS
    Full = {a, b}
    Witness = {w}
    Task = {t1}
    Value = {}
    Worker = {w}
    Faults = {"rejoin", "restart"}
    MaxTerm = 2
    MaxEpoch = 2
    MaxTick = 0
    MaxValid = 1
    MaxResults = 2
SYMMETRY FullNodes
INVARIANTS
    CommitsOrdered
    ResultsInGrantOrder
PROPERTIES
    NewestGrantKept
CHECK_DEADLOCK FALSE
