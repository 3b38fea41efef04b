CONSTANTS
    Uid = {anna, ben}
    Sid = {world}
    Conn = {c1, c2, c3}
    SendBuffer = 1
    PeerCap = 2
    None = None
    Spoken = {}
SYMMETRY Symmetry
SPECIFICATION Spec
INVARIANTS
    EveryEntryServed
CHECK_DEADLOCK FALSE
