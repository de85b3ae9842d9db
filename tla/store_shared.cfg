CONSTANTS
    p1 = p1
    p2 = p2
    s1 = s1
    s2 = s2
    c1 = c1
    c2 = c2
    Session = {s1, s2}
    Conversation = {c1, c2}
    MaxBindings = 3
    MaxAge = 1
    Client = {p1, p2}
    Ops <- MixedOps
    Crashable = {p1}
    Faults = {"nospace", "readonly"}
    MaxTries = 1
    MaxClock = 1
SPECIFICATION FairSpec
CHECK_DEADLOCK FALSE
INVARIANTS StoreSound CyclesDoNotInterleave
PROPERTIES ImplementsSessionFile OperationsReturn
