\* Updates, and daemons that crash and hang.
SPECIFICATION Spec
CONSTANTS
    Pid = {p1, p2, p3, p4, p5}
    NoPid = NoPid
    User = {}
    CrashBudget = 1
    AutoUpdate = FALSE
    MaxUpdates = 2
    MaxFaults = 2
    MaxHostCrashes = 0
SYMMETRY PidSymmetry
CHECK_DEADLOCK FALSE
INVARIANTS
    ManifestNamesInstance
    SocketIsInstances
    SessionsReachable
    InstanceWatched
PROPERTIES
    CrashCounted
