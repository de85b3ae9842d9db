CONSTANTS
    r1 = r1
    r2 = r2
    r3 = r3
    p1 = p1
    p2 = p2
    p3 = p3
    Request = {r1, r2, r3}
    Process = {p1, p2, p3}
    ProcOf <- ThreeHosts
    Crashable = {p1}
    Faults = {}
    MaxPolls = 1
    MaxSpins = 1
SPECIFICATION Spec
CHECK_DEADLOCK FALSE
INVARIANTS MutualExclusion
