CONSTANTS
    p1 = p1
    p2 = p2
    c1 = c1
    c2 = c2
    s1 = s1
    s2 = s2
    Pid <- TwoPids
    Cfg <- TwoConfigs
    Svc <- TwoServices
    Wanted <- OneEach
    PortOf <- SamePort
    DirOf <- OneDir
    Cmd = {k1}
    None = None
    MaxEvents = 4
SPECIFICATION FairSpec
INVARIANTS SingleOwner OneDaemonPerConfig RunningIsRegistered ServerKeepsSocket
CHECK_DEADLOCK FALSE
PROPERTY ReachedDaemonStops
ACTION_CONSTRAINT FirstInUse
