SPECIFICATION RestartingSpec
CONSTANTS
    MaxRows = 4
    QUEUE_MAX = 2
    BATCH_SIZE = 2
    MaxFaults = 2
INVARIANTS
    TypeOK
    NoAcceptedRowLost
    MemoryBackedByWal
    DuplicatesNeedFaults
    MetricsAccountForRows
PROPERTIES
    ImplementsDurableIngest
    EventuallyStored
    StopCompletes
