SPECIFICATION Spec
CONSTANTS
    k1 = k1
    k2 = k2
    k3 = k3
    l1 = l1
    l2 = l2
    r1 = r1
    r2 = r2
    r3 = r3
    Requests = {r1, r2, r3}
    Logs = {l1, l2}
    Keys = {k1, k2, k3}
    Readable <- Reads
    Writable <- Writes
    Workloads <- ThreeCalls
INVARIANTS
    TypeOK
    AttachmentsWhole
    ReadsTrue
CHECK_DEADLOCK FALSE
