SPECIFICATION Spec
CONSTANTS
    None = None
    Flows = {"f1", "f2"}
    Hosts <- MCHosts
    Accounts = {"a1", "a2"}
    MaxRemovals = 1
    Blank = Blank
    Malformed = {"malformed"}
    NewNames = {Blank, "mine"}
    MaxSaves = 2
    Rank <- MCRank
    HostLists <- MCHostLists
    Target = Target
    Entries = {"e1", "e2"}
    Options = {"MB", "GB"}
    Default = "MB"
    OldOptions = {"KB"}
    MaxChanges = 2
INVARIANTS
    OneEntryPerHost
    StoredAccountWasAccepted
    IdsAreDistinct
PROPERTIES
    UnchangedSaveRenamesNobody
    UnchangedSaveKeepsAliases
    DocumentedIdAppears
