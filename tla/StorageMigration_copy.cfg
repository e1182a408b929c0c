SPECIFICATION StorageSpec
CHECK_DEADLOCK FALSE
CONSTANTS
    k1 = k1
    k2 = k2
    old = old
    b1 = b1
    b2 = b2
    a1 = a1
    a2 = a2
    r1 = r1
    r2 = r2
    ObjectKeys = {k1, old}
    Transcripts = {}
    Legacy = {old}
    Buckets = {b1}
    NoBucket = NoBucket
    Apis = {a1}
    Portals = {r1}
    Faults = {"copy", "dual", "mark"}
    MaxFailures = 2
    MaxStarts = 2
    ErrCap = 2
    CopyOverlap = FALSE
    QuickBoot = FALSE
INVARIANTS
    NothingLost
    
    DoneIsOnTarget

    
