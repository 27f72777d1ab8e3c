SPECIFICATION RoutesSpec
CONSTANTS
    k1 = k1
    k2 = k2
    p1 = p1
    p2 = p2
    i1 = i1
    b1 = b1
    a1 = a1
    a2 = a2
    a3 = a3
    Posts = {a1}
    MaxItems = 2
    PostInputs <- AllPosts
    Workloads <- OnePost
    Requests <- AllRequests
    Keys = {k1, k2}
    Projects = {p1, p2}
    IdemKeys <- DerivedKeys
    NoIdem = NoIdem
    NoLog = NoLog
    Writable <- Grants
    MaxAmount = 2
    Inputs <- AllInputs
    KeyLimit = 3
    ProjectLimit = 3
INVARIANTS
    RejectedNotStored
CHECK_DEADLOCK FALSE
