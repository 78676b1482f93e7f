CONSTANTS
    NumTraces = 2
    NumSpans = 2
    Deciding = {1}
    Workers = 1
    Legacy = {1}
    MaxRows = 3
    MaxDecisions = 1
    MaxTime = 2
    MaxFaults = 1
SPECIFICATION Spec
INVARIANTS TypeOK NoSpanCountedTwice OnlyLoopsGoStale
PROPERTIES ImplementsTraceTable ChurnIsNotLag EventuallyCurrent EdgesFollow
CHECK_DEADLOCK FALSE
