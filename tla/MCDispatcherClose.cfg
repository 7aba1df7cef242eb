SPECIFICATION Spec
CONSTANTS
    s1 = s1
    s2 = s2
    Senders = {s1, s2}
    Receiver = run
    Windows = {w1}
    NoWindow = none
    Subscribers = {}
    Capacity = 1
    PromptTypes = {0, 1}
    CommandNames = {"SaveChanges", "CloseWindow"}
    MaxCommands = 3
    MaxFailures = 0
    MaxEvents = 0
    MayStop = FALSE
PROPERTIES
    CloseOnlyAfterReply
CHECK_DEADLOCK FALSE
