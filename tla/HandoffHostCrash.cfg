\* A host-service that dies during a handoff.
SPECIFICATION Spec
CONSTANTS
    Pid = {p1, p2, p3}
    NoPid = NoPid
    User = {}
    CrashBudget = 1
    AutoUpdate = FALSE
    MaxUpdates = 1
    MaxFaults = 0
    MaxHostCrashes = 1
SYMMETRY PidSymmetry
CHECK_DEADLOCK FALSE
INVARIANTS
    SuccessorReachable
