\* Three attaches and creates by two renderers, with a fault.
SPECIFICATION Spec
CONSTANTS
    Renderer = {r1, r2}
    NoRenderer = NoRenderer
    MaxCalls = 3
    MaxOut = 1
    MaxPty = 2
    MaxFaults = 1
CHECK_DEADLOCK FALSE
INVARIANTS
    TypeOK
    AttachedIsServed
    OutputAccounted
    RecordFollowsShell
    CallsAnswered
SYMMETRY Symmetry
