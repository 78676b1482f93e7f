SPECIFICATION Spec
CONSTANTS
    Agents = {a, b}
    NodesPerAgent = 2
    MaxSpans = 4
    LatencyOf <- MCLatencyOf
    TokensOf <- MCTokensOf
INVARIANTS
    TypeOK
    ClocksAreCausality
    EdgesAreCausal
    EveryCauseIsAncestor
    GapsMeanLoss
    ImpactIsEffects
    BlameIsAShare
CHECK_DEADLOCK FALSE
