CONSTANTS
    session = session
    thread = thread
    cwd = cwd
    c0 = c0
    c1 = c1
    c2 = c2
    c3 = c3
    NoEntry = NoEntry
    NoCall = NoCall
    Turn = {1, 2}
    Key <- Keys
    SessionKey <- session
    ThreadKey <- thread
    Conversation = {c0, c1, c2, c3}
    Call <- Sessions
    InitialRows <- NewOnly
    Shared = {session}
    ForeignRows <- NoOther
SPECIFICATION Spec
CHECK_DEADLOCK FALSE
PROPERTIES SharesOnlyConcurrentReads
