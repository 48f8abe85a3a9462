\* A restart among an update and faults of both sides.
SPECIFICATION Spec
CONSTANTS
    Pid = {p1, p2, p3, p4}
    NoPid = NoPid
    User = {u1}
    CrashBudget = 1
    AutoUpdate = FALSE
    MaxUpdates = 1
    MaxFaults = 1
    MaxHostCrashes = 1
SYMMETRY PidSymmetry
CHECK_DEADLOCK FALSE
PROPERTIES
    RestartFresh
