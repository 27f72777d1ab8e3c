SPECIFICATION Spec
CONSTANTS
    s1 = s1
    s2 = s2
    s3 = s3
    s4 = s4
    Streams <- MCStreams
    Limit = 2
    OutliveExpiry = TRUE
SYMMETRY Symmetry
CHECK_DEADLOCK FALSE
INVARIANT TypeOK
INVARIANT NoPhantomPlace
INVARIANT CapUpToForgotten
