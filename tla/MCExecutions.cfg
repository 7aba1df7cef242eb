SPECIFICATION FairSpec
CONSTANTS
    MaxExecutes = 4
    MaxOthers = 1
    MaxErrors = 1
    MaxRequests = 2
    MaxLag = 2
    MayFail = TRUE
    MayEnd = TRUE
    MayReconnect = TRUE
INVARIANTS
    TypeOK
    ReplAnswerComplete
    LinkCompleted
PROPERTIES
    LinkBeforeLaunch
    EveryRequestAnswered
CHECK_DEADLOCK FALSE
