\* One connection, so that its queue can be deep, under fairness.
SPECIFICATION FairSpec
CONSTANTS
    Id = {i1}
    Conn = {c1}
    Protocols <- MCProtocols
    Supported <- MCSupported
    BufferCap = 2
    OutboundCap = 3
    MaxChunk = 2
    MaxBytes = 4
INVARIANTS
    StreamContiguous
    ExitIsFinal
PROPERTY
    CloseTerminates
