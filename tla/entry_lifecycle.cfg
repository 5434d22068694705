SPECIFICATION Spec
CONSTANTS
    None = None
    Entries = {"e1", "e2"}
    MaxSaves = 2
    MaxRestarts = 1
INVARIANTS
    TypeOK
    FrontendOnce
    CoordinatorWhilePlatforms
PROPERTIES
    MigrationIsAllOrNothing
    HeardSavesApply
CHECK_DEADLOCK FALSE
