SPECIFICATION Spec
CONSTANTS
    c1 = c1
    c2 = c2
    c3 = c3
    o1 = o1
    o2 = o2
    Owners = {o1, o2}
    Callers = {c1, c2, c3}
    MaxAmount = 3
    Limit = 2
    LastDay = 2
INVARIANTS
    TypeOK
    CounterIsOwned
    GrantedWithinLimit
PROPERTIES
    RefusedForCause
    KeepsPromise
CHECK_DEADLOCK FALSE
