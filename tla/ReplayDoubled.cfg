\* An attach, a connection lost, a second attach that cannot adopt at once.
SPECIFICATION Spec
CONSTANTS
    Renderer = {r1}
    NoRenderer = NoRenderer
    MaxCalls = 3
    MaxOut = 1
    MaxPty = 2
    MaxFaults = 1
CHECK_DEADLOCK FALSE
INVARIANTS
    NoDoubledOutput
