SPECIFICATION MCSpec
CONSTANTS
    Node <- Nodes
    Work <- Works
    Resource = {"cpu", "memory"}
    Home <- HomeOf
    Need <- OneEach
    Total <- Totals
    ReservedLocal <- Reserve
    MaxRemotePressure = 70
    PressureOf <- Pressure
    MaxVersion <- Versions
    MaxTick = 1
    Validity = 1
    Key = {"cuda", "metal"}
    Provides <- NodeKeys
    Requires <- WorkKeys
    Suits <- Fit
    Localized <- Inputs
    DefaultLocal = {"t3"}
    Rank <- Order
    TopK = 2
    Transfer <- Data
    Bytes <- Sizes
    MaxBytesPerTick = 3
    ControlReserve = 1
    MaxTransfers = 1
    MaxQueuedBytes = 4
    Buckets = {0, 70, 95}
    MaxEvents = 1
    MaxRecorded = 1
    Member = {"m1", "m2"}
    MaxMembers = 1
    SuspectAfter = 1
    DeadAfter = 2
    MemberVersions <- MemberVersion
    MaxMail = 2
    MaxLost = 1
INVARIANTS
    LocalReserveKept
    IndexExact
    PlansNotAhead
    AdmittedCapable
    AccountsExact
PROPERTIES
    TransfersEnd
    HealthConverges
