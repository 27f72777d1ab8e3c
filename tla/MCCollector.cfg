SPECIFICATION FairSpec
CONSTANTS
    c1 = c1
    c2 = c2
    Containers <- MCContainers
    Lines <- MCLines
    QueueSize = 1
    BatchSize = 2
    MaxFailures = 1
    MaxRestarts = 1
CHECK_DEADLOCK FALSE
INVARIANT TypeOK
INVARIANT NoSilentLoss
INVARIANT OnlyInvalidDropped
INVARIANT StoredInOrder
INVARIANT DuplicatesAreRetries
PROPERTY EventuallySettled
