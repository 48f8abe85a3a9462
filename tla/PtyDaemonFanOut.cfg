\* Two connections and one session id.
SPECIFICATION Spec
CONSTANTS
    Id = {i1}
    Conn = {c1, c2}
    Protocols <- MCProtocols
    Supported <- MCSupported
    BufferCap = 2
    OutboundCap = 1
    MaxChunk = 3
    MaxBytes = 4
SYMMETRY ConnSymmetry
INVARIANTS
    TypeOK
    NoDanglingSubscription
    ReplayBounded
PROPERTY
    SubscribersToldOfExit
