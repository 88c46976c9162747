SPECIFICATION FairSpec
CONSTANTS
    Caller = {p, q}
    Content = {c1, c2}
    Digest = {d}
    DigestOf <- OneDigest
    Corrupt = {c2}
    Size = 2
    MaxReads = 1
    MaxWrites = 1
    MaxHashes = 2
    MaxQueued = 1
    MaxBuffers = 1
    MaxRuns = 2
INVARIANTS
    TypeOK
PROPERTIES
    PublishedWhenApart
    EverythingEnds
CHECK_DEADLOCK FALSE
