SPECIFICATION FairSpec
CONSTANTS
    Req = {r1, r2}
    Keys = {k1, k2}
    Sessions = {s1, s2}
    Members = {s1}
    Failures = TRUE
    r1 = r1
    r2 = r2
    r3 = r3
    k1 = k1
    k2 = k2
    s1 = s1
    s2 = s2
INVARIANTS
    ApprovedOnce
    RejectedNotPosted
    AnsweredIsRecorded
PROPERTIES
    ReceiptsFollowLifecycle
    EveryRequestAnswered
CHECK_DEADLOCK FALSE
