\* Upgrades one after the other or at the same time, with a crash.
SPECIFICATION FairSpec
CONSTANTS
    Daemon = {d1, d2, d3}
    NoDaemon = NoDaemon
    Session = {s1}
    MaxOut = 1
    MaxFaults = 1
CHECK_DEADLOCK FALSE
INVARIANTS
    TypeOK
    SoleCustodian
    ReplayKept
PROPERTIES
    UpgradeKeepsPromise
    ReportedServes
