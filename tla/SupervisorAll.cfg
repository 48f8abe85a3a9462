\* Everything at once.
SPECIFICATION Spec
CONSTANTS
    Pid = {p1, p2, p3}
    NoPid = NoPid
    User = {u1}
    CrashBudget = 0
    AutoUpdate = TRUE
    MaxUpdates = 1
    MaxFaults = 1
    MaxHostCrashes = 1
SYMMETRY PidSymmetry
CHECK_DEADLOCK FALSE
INVARIANTS
    TypeOK
    BreakerTrips
    OpenCircuitIdle
PROPERTIES
    StartingChildSpared
