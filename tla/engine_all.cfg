CONSTANTS
    r1 = r1
    r2 = r2
    r3 = r3
    p1 = p1
    p2 = p2
    p3 = p3
    Request = {r1, r2, r3}
    Process = {p1, p2}
    ProcOf <- TwoHosts
    Crashable = {p2}
    Faults = {"nospace", "readonly", "recycle"}
    MaxPolls = 1
    MaxSpins = 1
    StallMs = 1
    DetachOnAbort = {FALSE, TRUE}
    PreAborted = {FALSE, TRUE}
    MaxLines = 3
SPECIFICATION EngineSpec
CHECK_DEADLOCK FALSE
INVARIANTS MutualExclusion RunSound CausesTold EnvelopeLostOnlyInPipe
PROPERTIES ImplementsMutex AcquireReturns AlwaysSettles
