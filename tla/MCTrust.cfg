SPECIFICATION Spec
CONSTANTS
    Node = {n1}
    Task = {t1}
    Validity = 1
    MaxTick = 2
    MaxKeys = 3
    MaxSigned = 2
    MaxIsolations = 2
    Kind = {"assignment", "commit"}
    MaxAuditEvents = 5
    MaxLinesPerTick = 2
    MaxPerSegment = 5
    MaxFailures = 2
INVARIANTS
    EarlierIdentityFenced
    AckedKept
    ProofsVerify
CHECK_DEADLOCK FALSE
