SPECIFICATION Spec
CONSTANTS
    s1 = s1
    s2 = s2
    Senders = {s1, s2}
    Receiver = run
    Windows = {w1}
    NoWindow = none
    Subscribers = {}
    Capacity = 1
    PromptTypes = {0, 1}
    CommandNames = {"Execute", "GetThreads", "SaveChanges", "CloseWindow"}
    MaxCommands = 3
    MaxFailures = 1
    MaxEvents = 3
    MayStop = TRUE
SYMMETRY SenderSymmetry
INVARIANTS
    TypeOK
    HeldOnlyWhileBusy
    SavesAccounted
    NoStrandedClose
PROPERTIES
    WrittenInQueueOrder
    CloseAfterEarlierSaves
    GateSpec
CHECK_DEADLOCK FALSE
