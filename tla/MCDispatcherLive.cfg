SPECIFICATION FairSpec
CONSTANTS
    s1 = s1
    s2 = s2
    Senders = {s1, s2}
    Receiver = run
    Windows = {w1}
    NoWindow = none
    Subscribers = {bridge}
    Capacity = 1
    PromptTypes = {0, 1}
    CommandNames = {"Execute", "SaveChanges", "CloseWindow"}
    MaxCommands = 3
    MaxFailures = 0
    MaxEvents = 1
    MayStop = FALSE
PROPERTIES
    NoCommandHeldForever
