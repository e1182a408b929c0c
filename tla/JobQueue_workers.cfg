SPECIFICATION FairSpec
CONSTANTS
    w1 = w1
    w2 = w2
    j1 = j1
    j2 = j2
    Jobs = {j1}
    Workers = {w1, w2}
    NoWorker = NoWorker
    MaxAttempts = 2
    MaxTries = 3
    MaxFaults = 2
    Slow = TRUE
INVARIANTS
    EachAttemptOnce
    HandlerOwnsRow
    NoStrandedJob
PROPERTIES
    SettledStays
    NotWedged
