SPECIFICATION Spec
CONSTANTS
    p1 = p1
    m1 = m1
    m2 = m2
    r1 = r1
    r2 = r2
    None = None
    Providers = {p1}
    Models = {m1}
    Slots = {"strong"}
    Reqs = {r1,r2}
    MaxKeys = 2
    MaxEdits = 2
    EnvKeys = {TRUE, FALSE}
    Ways = {"router"}
    Works = {"graph", "direction"}
    MaxCalls = 1
INVARIANTS NothingDangles PlatformPaysUnrouted
CHECK_DEADLOCK FALSE
SYMMETRY Symmetry
