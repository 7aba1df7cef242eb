SPECIFICATION Spec
CONSTANTS
    t1 = t1
    t2 = t2
    f1 = f1
    f2 = f2
    Tokens = {t1, t2}
    NoToken = noToken
    Paths = {f1, f2}
    NoPath = noPath
    MaxRefs = 2
    MaxRequests = 2
    MaxFailures = 0
    MayEnd = FALSE
    MayReconnect = FALSE
PROPERTIES
    NoOldAfterNew
