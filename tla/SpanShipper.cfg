SPECIFICATION FairSpec
CONSTANTS
    MaxItems = 4
    QUEUE_MAX = 2
    MaxFaults = 2
INVARIANTS
    TypeOK
    AtMostOnce
    DrainLosesAtMostOne
    ShutdownRaisesOnlyAfterFailedRpc
PROPERTIES
    EventuallyShipped
    ShutdownTerminates
CHECK_DEADLOCK FALSE
