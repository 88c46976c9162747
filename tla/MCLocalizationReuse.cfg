SPECIFICATION Spec
CONSTANTS
    Caller = {p}
    Content = {c1}
    Digest = {d}
    DigestOf <- OneDigest
    Corrupt = {}
    Size = 2
    MaxReads = 2
    MaxWrites = 2
    MaxHashes = 2
    MaxQueued = 2
    MaxBuffers = 2
    MaxRuns = 2
INVARIANTS
    PublishedIsWhole
CHECK_DEADLOCK FALSE
