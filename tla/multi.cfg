CONSTANTS
    a = a
    b = b
    m = m
    mx = mx
    my = my
    None = None
    Native = Native
    Source = {Native}
    Name <- MultiNames
    Port = {1}
    DynamicPort = {1}
    Service <- MultiServices
    Configured <- MultiConfigured
    ExternalChoices <- NoneExternal
    Expansion <- StableExpansion
    Caller = {c1}
    MaxRestarts = 1
    RestartCap = 1
    MaxCalls = 2
    MaxPf = 3
SPECIFICATION Spec
PROPERTIES ImplementsDirectory ImplementsSupervision
INVARIANTS ChildrenReachable StatusTruthful
CHECK_DEADLOCK FALSE
