SPECIFICATION Spec
CONSTANTS
    r1 = r1
    r2 = r2
    r3 = r3
    Req = {r1, r2, r3}
    NoReq = NoReq
    Seed = Seed
    Kinds <- AnyKind
    MaxRev = 5
    Crashes = TRUE
SYMMETRY Sym
INVARIANTS
    LiveTurnIsRegistered
    DiscardLeavesNothing
    NoGhostEntry
PROPERTY RowStableDuringTurn
CHECK_DEADLOCK FALSE
