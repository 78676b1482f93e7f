CONSTANTS
    Traces = {"a"}
    Lookback = 1
    Active = 1
    Stuck = 1
    Horizon = 3
    K = 1
    N = 2
    Zone = 0
    AcceptTolerance = 1
    FlushTolerance = 1
    MaxCredit = 0
    MaxDebt = 1
    MaxUnread = 1
    MaxSilent = 1
SPECIFICATION Spec
INVARIANTS NamedTracesAreLost LostTracesAreNamed 
PROPERTIES OutageIsAlerted RecoveryQuiets
CHECK_DEADLOCK FALSE
