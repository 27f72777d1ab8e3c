SPECIFICATION Spec
CONSTANTS
    k1 = k1
    k2 = k2
    p1 = p1
    i1 = i1
    r1 = r1
    r2 = r2
    r3 = r3
    Requests = {r1, r2, r3}
    Keys = {k1, k2}
    Projects = {p1}
    IdemKeys = {i1}
    NoIdem = NoIdem
    NoLog = NoLog
    Writable <- Grants
    MaxAmount = 2
    Inputs <- SameKeyInputs
    KeyLimit = 0
    ProjectLimit = 0
SYMMETRY Symmetry
INVARIANTS
    OneLogPerIdempotencyKey
CHECK_DEADLOCK FALSE
