CONSTANTS
    Chunk = {here, there}
    Meta = Meta
    Keep = 2
    MaxChanges = 1
    Failing = {"save", "stage", "promote", "reopen", "medium"}
    MaxMishaps = 1
    Absent = Absent
    Partial = Partial
SYMMETRY Symmetry
SPECIFICATION Spec
INVARIANTS
    TypeOK
    CheckpointSurvives
    DirtyCoversChanges
    BackupsOrdered
    OpenedIsNewest
