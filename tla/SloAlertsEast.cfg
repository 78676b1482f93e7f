CONSTANTS
    Traces = {"a"}
    Lookback = 2
    Active = 2
    Stuck = 2
    Horizon = 4
    K = 1
    N = 2
    Zone <- EastOfUtc
    AcceptTolerance = 1
    FlushTolerance = 1
    MaxCredit = 0
    MaxDebt = 0
    MaxUnread = 1
    MaxSilent = 1
SPECIFICATION Spec
INVARIANT NamedTracesAreStuck
CHECK_DEADLOCK FALSE
