\* Two restarts with a fault, under fairness.
SPECIFICATION FairSpec
CONSTANTS
    Pid = {p1, p2, p3}
    NoPid = NoPid
    User = {u1, u2}
    CrashBudget = 1
    AutoUpdate = FALSE
    MaxUpdates = 0
    MaxFaults = 1
    MaxHostCrashes = 0
CHECK_DEADLOCK FALSE
PROPERTIES
    RestartEnds
    StaleInstanceCleared
