SPECIFICATION Spec
CONSTANTS
    None = None
    Entries = {"e1"}
    MaxSaves = 1
    MaxRestarts = 0
INVARIANTS
    LoadedIsCurrent
CHECK_DEADLOCK FALSE
