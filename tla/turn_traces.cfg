CONSTANTS
    Proc = {o1, o2, p1}
    PiProc = {p1}
    Image = {i1}
    Week = 1
    MaxClock = 2
    MaxGroups = 1
    MaxLoose = 1
    MaxCalls = 4
    MaxScratchCalls = 3
    MaxSteps = 3
    Deltas <- SomeDeltas
    Responses <- SomeResponses
    Listing = {l1}
    Ttl = 1
    MaxModelClock = 2
SPECIFICATION MCSpec
CHECK_DEADLOCK FALSE
INVARIANTS ImageAtHand LogsKeptRight ScratchForCause PartsNest AnswerIsShown
PROPERTIES FirstAttemptFrozen StreamsEnd OffersForCause
