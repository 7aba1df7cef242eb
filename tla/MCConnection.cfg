SPECIFICATION FairSpec
CONSTANTS
    MaxCommands = 2
    MaxMessages = 3
INVARIANTS
    TypeOK
    WholeFrames
    GreetingFirst
    NothingLeft
PROPERTIES
    TeardownEnds
CHECK_DEADLOCK FALSE
