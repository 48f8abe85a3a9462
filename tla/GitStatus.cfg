\* Three tasks of two keys, aborted or not, for two workers, one of which
\* fails, with a repository that changes.
SPECIFICATION StatusSpec
CONSTANTS
    OtherKey = other
    StatusKey = status
    Key = {status, other}
    NoKey = NoKey
    Options <- MCOptions
    Concurrency = 2
    MaxTasks = 3
    MaxWorkers = 6
    MaxFaults = 1
    MaxVersion = 2
CHECK_DEADLOCK FALSE
INVARIANTS
    StatusTypeOK
    Custody
    NothingStranded
    SharedIsPending
    DisposeComplete
    StaleOnlyIfJoined
PROPERTIES
    Settles
