SPECIFICATION FairSpec
CONSTANTS
    s1 = s1
    s2 = s2
    Streams = {s1, s2}
    MaxRecords = 4
    QueueSize = 1
    Workloads <- AloneOrBeside
INVARIANTS
    TypeOK
    Ungapped
PROPERTIES
    StreamsSettle
CHECK_DEADLOCK FALSE
