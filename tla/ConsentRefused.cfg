CONSTANTS
    Visit = {v1, v2}
    None = None
SPECIFICATION Spec
INVARIANT ValidLinkConfirms
CHECK_DEADLOCK FALSE
