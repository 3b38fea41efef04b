CONSTANTS
    Program <- AllScripts
    WorkFiles <- BatchWork
    Terminal = {t1, t2}
    Settings <- AllSettings
SPECIFICATION Spec
INVARIANTS
    TypeOK
    LicenceNamesMaker
    PublishesItsOwn
PROPERTIES
    NothingElseOverwritten
CHECK_DEADLOCK FALSE
