SPECIFICATION FairSpec
CONSTANTS
    s1 = s1
    s2 = s2
    Streams = {s1, s2}
    MaxRecords = 4
    QueueSize = 1
    Workloads <- AloneOrBeside
PROPERTY
    ClosedWhenIdle
CHECK_DEADLOCK FALSE
