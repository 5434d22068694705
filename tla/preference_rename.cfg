SPECIFICATION SelectSpec
CONSTANTS
    None = None
    Target = Target
    Entries = {"e1", "e2"}
    Options = {"MB", "GB"}
    Default = "MB"
    OldOptions = {"KB"}
    MaxChanges = 3
PROPERTIES
    SetUpRestoresOption
