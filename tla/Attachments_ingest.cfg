SPECIFICATION Spec
CHECK_DEADLOCK FALSE
CONSTANTS
    w1 = w1
    w2 = w2
    t1 = t1
    t2 = t2
    Workers = {w1, w2}
    Home = home
    Fork = forked
    None = None
    Posts = {t1}
    Deletes = {home, forked}
    MaxRounds = 1
    MaxAttempts = 3
    MaxFaults = 2
    Overlap = FALSE
INVARIANTS
    RowHasBytes
    ReadyIsWhole
    LexicalGoesOn
PROPERTIES
    PendingEnds
