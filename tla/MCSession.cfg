SPECIFICATION FairSpec
CONSTANTS
    MaxRequests = 3
    MaxMessages = 2
    Capacity = 1
INVARIANTS
    TypeOK
    CleanEnd
    OutputOrdered
    NoEarlyEvent
    NoSuccessAfterTerminated
PROPERTIES
    GoroutinesEnd
    FatalReported
CHECK_DEADLOCK FALSE
