SPECIFICATION InventorySpec
CONSTANTS
    Macs = {phone, laptop}
    NoMac = NoMac
    Unset = Unset
    Nodes = {attic, cellar}
    NoNode = NoNode
    MaxHosts = 2
    MaxRounds = 2
INVARIANTS
    TargetOnlyStaleIsSupported
CHECK_DEADLOCK FALSE
