SPECIFICATION Spec
CONSTANTS
    Frames = {f1}
    Names = {n1}
    Kinds = {"local"}
    FirstSymbolToken = 10
    MaxSymbolTips = 2
    MaxEvaluates = 0
    MaxTokens = 2
    MaxRefs = 2
    MaxPhase = 1
    Capacity = 2
INVARIANTS
    ScopeShowsValues
CHECK_DEADLOCK FALSE
