SPECIFICATION RecoverySpec
CONSTANTS
    Content <- Contents
    Chunk = {"x", "y", "z"}
    ChunksOf <- Pieces
    Policy <- Policies
    Target <- Places
    External = {}
    MinReplicas = 1
    MaxRecords = 2
    MaxRefs = 2
    MaxEpoch = 1
    MaxFaults = 1
    Checkpoint <- Contents
    Sequence <- Numbers
    Generation <- Generations
    MaxUploaded = 3
    MaxOperations = 2
INVARIANTS
    TypeOK
    CommittedReadable
    HeldStored
CHECK_DEADLOCK FALSE
