SPECIFICATION Spec
CONSTANTS
    o1 = o1
    o2 = o2
    a1 = a1
    a2 = a2
    p1 = p1
    p2 = p2
    s1 = s1
    k1 = k1
    k2 = k2
    k3 = k3
    r1 = r1
    r2 = r2
    r3 = r3
    Requests = {r1, r2, r3}
    Workloads <- ThreeCalls
    NoId = NoId
    SeedOrgs <- Orgs
    SeedAgents <- Agents
    SeedProjects <- Projects
    SeedSources <- Sources
    SeedKeys <- SeededKeys
    MayExpire = {k2}
INVARIANTS
    TypeOK
    GrantsWithinOrg
    WritesWithinGrants
    AuditComplete
PROPERTIES
    KeepsRegistry
CHECK_DEADLOCK FALSE
