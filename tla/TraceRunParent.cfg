SPECIFICATION Spec
CONSTANTS
    Agents = {a, b}
    NodesPerAgent = 1
    MaxSpans = 3
INVARIANT ParentIsPreviousNode
CHECK_DEADLOCK FALSE
