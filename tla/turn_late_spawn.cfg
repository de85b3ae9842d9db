CONSTANTS
    s1 = s1
    t1 = t1
    t2 = t2
    t3 = t3
    c0 = c0
    c1 = c1
    c2 = c2
    c3 = c3
    Session = {s1}
    MaxBindings = 4
    MaxAge = 1
    Turn = {t1}
    Thread <- FollowingUp
    Earlier <- Nothing
    InitialLists <- TwoThreads
    StoreMayFail = FALSE
    Conversation = {c0, c1, c2}
SPECIFICATION Spec
CHECK_DEADLOCK FALSE
PROPERTIES NoSpawnOnceCancelled
