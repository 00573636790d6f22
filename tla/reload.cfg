CONSTANTS
    a = a
    m = m
    mx = mx
    Top <- TwoServices
    Multi <- OneMulti
    ChildrenOf <- OneChild
    Fixed <- OneFixed
    PortOf <- OnePort
    Native = Native
    Delegate = Delegate
    Untraced = Untraced
    Client = {c1}
    None = None
    Broken = Broken
    NoFile = NoFile
    MaxEvents = 3
SPECIFICATION FairSpec
INVARIANTS FileIsLedger DelegateLeavesNothing
PROPERTIES ReloadConverges FileEventuallyServed
CHECK_DEADLOCK FALSE
