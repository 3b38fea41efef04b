CONSTANTS
    Peer = {ben, cleo}
    WarnThreshold = 3
    DropThreshold = 6
    MaxFlight = 2
SPECIFICATION FairSpec
INVARIANTS
    TypeOK
    WarningIsTrue
PROPERTIES
    DroppedOnlyAfterWarning
    SilentPeerDropped
