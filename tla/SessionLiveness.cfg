CONSTANTS
    anna = anna
    ben = ben
    cleo = cleo
    Node = {anna, ben, cleo}
    HostId = HostId
    None = None
    FirstHost = anna
    Version <- CleoOutdated
    Settings <- LivenessSettings
SPECIFICATION FairSpec
INVARIANT HandoverOnlyWhenHostGone
PROPERTIES
    OtherBuildLeaves
    ConnectingResolves
    FailoverResolves
CHECK_DEADLOCK FALSE
