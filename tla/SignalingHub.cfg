CONSTANTS
    Uid = {anna, ben}
    Sid = {world}
    Conn = {c1, c2}
    SendBuffer = 1
    PeerCap = 2
    None = None
    Spoken = {}
SYMMETRY Symmetry
SPECIFICATION Spec
INVARIANTS
    TypeOK
    PeerCapRespected
    RegisteredChannelOpen
    ServedUntilReplaced
PROPERTIES
    ImplementsBook
CHECK_DEADLOCK FALSE
