CONSTANTS
    s1 = s1
    t1 = t1
    t2 = t2
    t3 = t3
    c0 = c0
    c1 = c1
    c2 = c2
    c3 = c3
    Session = {s1}
    MaxBindings = 4
    MaxAge = 1
    Turn = {t1, t2, t3}
    Thread <- MainAndSide
    Earlier <- AnswerFirst
    InitialLists <- AnySession
    StoreMayFail = TRUE
    Conversation = {c0, c1, c2, c3}
SPECIFICATION FairSpec
CHECK_DEADLOCK FALSE
INVARIANTS TurnsSound LockHeldWhileAtWork
PROPERTIES RecoveryIsEarned StoreForCause CancelledOpensNothing TurnsEnd
