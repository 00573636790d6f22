CONSTANTS
    f = f
    c1 = c1
    c2 = c2
    Any = Any
    Forward <- OneForward
    Order <- OneOrder
    PodBacked = {}
    MaxPort = 2
    MaxChanges = 1
    Client <- TwoClients
    ClusterDomain <- BothDomains
    Explicit = {}
    Dialled <- CustomName
SPECIFICATION AddressFairSpec
INVARIANT NoLeftovers
PROPERTY ResolverConverges
CHECK_DEADLOCK FALSE
