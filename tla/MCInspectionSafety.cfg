SPECIFICATION Spec
CONSTANTS
    Frames = {f1}
    Names = {n1, n2}
    Kinds = {"local"}
    FirstSymbolToken = 10
    MaxSymbolTips = 2
    MaxEvaluates = 2
    MaxTokens = 2
    MaxRefs = 1
    MaxPhase = 3
    Capacity = 2
SYMMETRY Symmetry
INVARIANTS
    TypeOK
    TipIsOwn
    EvaluateIsOwn
    NothingPending
CHECK_DEADLOCK FALSE
