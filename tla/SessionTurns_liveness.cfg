SPECIFICATION LiveSpec
CONSTANTS
    r1 = r1
    r2 = r2
    r3 = r3
    Req = {r1, r2, r3}
    NoReq = NoReq
    Seed = Seed
    Kinds <- AnyKind
    MaxRev = 5
    Crashes = FALSE
PROPERTY EveryRequestEnds
CHECK_DEADLOCK FALSE
