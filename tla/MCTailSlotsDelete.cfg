SPECIFICATION Spec
CONSTANTS
    s1 = s1
    s2 = s2
    s3 = s3
    s4 = s4
    Streams <- MCStreams
    Limit = 2
    OutliveExpiry = FALSE
SYMMETRY Symmetry
CHECK_DEADLOCK FALSE
INVARIANT CapHolds
