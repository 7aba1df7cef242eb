SPECIFICATION Spec
CONSTANTS
    w1 = w1
    w2 = w2
    n1 = n1
    n2 = n2
    Windows = {w1, w2}
    NoWindow = none
    Threads = {1, 2}
    Names = {n1, n2}
    FirstSyntheticID = 10
    Capacity = 2
    MaxMessages = 4
    MaxPolls = 2
    MayReconnect = TRUE
SYMMETRY Symmetry
INVARIANTS
    TypeOK
    StackFollowsInterpreter
    ControlTarget
    StopNamesItsStack
    IdsTellThreadsApart
CHECK_DEADLOCK FALSE
