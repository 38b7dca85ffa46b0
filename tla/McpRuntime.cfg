SPECIFICATION FairSpec
CONSTANTS
    Tasks = {t1, t2}
    MaxSaves = 1
    MaxConns = 3
    None = None
INVARIANTS
    TypeOK
    RegisteredIsCurrent
    OpenAfterCleanupHasACause
    RetryIsOnAnotherConnection
PROPERTIES
    TaskEnds
CHECK_DEADLOCK FALSE
