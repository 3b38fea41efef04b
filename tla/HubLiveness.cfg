CONSTANTS
    Uid = {anna}
    Sid = {world}
    Conn = {c1, c2}
    SendBuffer = 1
    PeerCap = 2
    None = None
    Spoken = {"malformed", "publish", "offer", "update_host"}

SPECIFICATION FairSpokenSpec
PROPERTIES
    ReplacedConnectionEnds
    UnusedSessionPruned
CHECK_DEADLOCK FALSE
