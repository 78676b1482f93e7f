CONSTANTS
    NumTraces = 3
    NumSpans = 1
    MaxTime = 3
    Limit = 1
SPECIFICATION Spec
INVARIANTS NothingSkipped NoTraceTwice
PROPERTY ListingEnds
CHECK_DEADLOCK FALSE
