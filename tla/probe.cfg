SPECIFICATION Spec
CONSTANTS
    None = None
    Macs = {phone, laptop}
    NoMac = NoMac
    Unset = Unset
    Nodes = {attic, cellar}
    NoNode = NoNode
    MaxHosts = 2
    MaxRounds = 2
    Accounts = {factory, own}
    Accepted = {own}
    Connections = {1, 2}
    MaxOpen = 1
    FirstTid = 128
    LastTid = 130
    MaxRequests = 4
    Error = Error
    Base = 128
    MaxDigits = 3
    Word = 65536
    HalfWord = 256
    Hosts <- MCHosts
    MaxListed = 2
    Nibble = 4
    Invalid = Invalid
    Blocks <- MCBlocks
SYMMETRY Symmetry
INVARIANTS
    InventoryVerdictIsTrue
    RateVerdictIsTrue
    AccountWasAccepted
    EncodedHostsAreDecoded
    TruncationIsNoticed
    BlocksAreReadBack
CHECK_DEADLOCK FALSE
