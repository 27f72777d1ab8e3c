SPECIFICATION Spec
CONSTANTS
    p1 = p1
    p2 = p2
    s1 = s1
    s2 = s2
    s3 = s3
    Universe <- FourLogs
    Requests <- ManyRequests
    Grants <- OrgGrants
    Severities <- Names
    Second = 2
    MaxRange = 9
    MaxPage = 2
    MaxExport = 3
    ReadLimit = 4
    MaxDrops = 1
INVARIANTS
    TypeOK
    
    NothingSkipped
CHECK_DEADLOCK FALSE
