CONSTANTS
    anna = anna
    ben = ben
    cleo = cleo
    Node = {anna, ben, cleo}
    HostId = HostId
    None = None
    FirstHost = anna
    Version <- SameBuild
    Settings <- ElectionSettings
SPECIFICATION Spec
INVARIANT SurvivorsAgree
CHECK_DEADLOCK FALSE
