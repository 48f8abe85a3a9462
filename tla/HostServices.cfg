SPECIFICATION Spec
CONSTANTS
    Proc = {p1, p2, p3}
    NoProc = NoProc
    MaxVersion = 2
    MaxQuits = 2
    MaxFaults = 2
SYMMETRY Symmetry
INVARIANTS
    TypeOK
    OneService
    NothingLost
    DeathNoticed
