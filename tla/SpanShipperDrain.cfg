SPECIFICATION Spec
CONSTANTS
    MaxItems = 2
    QUEUE_MAX = 2
    MaxFaults = 0
INVARIANT DrainsOnShutdown
CHECK_DEADLOCK FALSE
