SPECIFICATION Spec
CONSTANTS
    Full = {a, b, c}
    Witness = {}
    Task = {}
    Value = {v1}
    Worker = {a, b, c}
    Faults = {"storage", "restart"}
    MaxTerm = 2
    MaxEpoch = 2
    MaxTick = 1
    MaxValid = 1
    MaxResults = 0
SYMMETRY FullNodes
INVARIANTS
    OneLeaderPerTerm
    MajorityStores
CHECK_DEADLOCK FALSE
