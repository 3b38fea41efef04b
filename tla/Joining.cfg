CONSTANTS
    anna = anna
    ben = ben
    cleo = cleo
    Node = {anna, ben, cleo}
    HostId = HostId
    None = None
    FirstHost = anna
    Version <- CleoOutdated
    Settings <- JoiningSettings
SPECIFICATION Spec
INVARIANTS
    TypeOK
    PlayersShownRegistered
PROPERTIES
    GateHolds
    PromotedOnlyWhenCutOff
    ConnectedUntilToldOrLost
    BackOnlyWithLink
CHECK_DEADLOCK FALSE
