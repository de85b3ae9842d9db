CONSTANTS
    JsonTexts = {{}, {"auth"}, {"quota", "transient"}}
    Triggers = {"none", "abort"}
    s1 = s1
    Session = {s1}
    c1 = c1
    c2 = c2
    c3 = c3
    c4 = c4
    Conversation = {c1, c2, c3, c4}
    MaxBindings = 3
    MaxAge = 2
    Ops <- AllOps
    MaxClock = 3
SPECIFICATION DecisionsSpec
CHECK_DEADLOCK FALSE
SYMMETRY Symmetry
INVARIANTS SuccessIffDelivered FailuresNamedRight ReplayedOnceAtMost
    GateFailsOpen OffersWhatAgyLists EffortHonoured ImagesAllOrNone ListsSound
PROPERTIES SiblingsKeepBaseline
