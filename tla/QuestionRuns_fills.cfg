SPECIFICATION Spec
CONSTANTS
    w1 = w1
    w2 = w2
    q1 = q1
    c1 = c1
    j1 = j1
    j2 = j2
    r1 = r1
    r2 = r2
    Workers = {w1, w2}
    Clis = {}
    Requests = {q1}
    Jobs = {j1, j2}
    Runs = {r1, r2}
    None = None
    MaxFaults = 1
INVARIANTS
    OneFill
PROPERTIES
    LiveFillIsJoined
    ZombieCleared
