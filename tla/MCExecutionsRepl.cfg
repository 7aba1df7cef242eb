SPECIFICATION Spec
CONSTANTS
    MaxExecutes = 1
    MaxOthers = 0
    MaxErrors = 0
    MaxRequests = 1
    MaxLag = 2
    MayFail = FALSE
    MayEnd = FALSE
    MayReconnect = FALSE
INVARIANTS
    ReplMeansExecuted
CHECK_DEADLOCK FALSE
