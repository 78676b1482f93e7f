SPECIFICATION CollectorSpec
CONSTANTS
    MaxRows = 1
    QUEUE_MAX = 1
    BATCH_SIZE = 1
    MaxFaults = 1
PROPERTY RunningCollectorReplays
