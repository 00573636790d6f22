CONSTANTS
    a = a
    b = b
    m = m
    mx = mx
    my = my
    None = None
    Native = Native
    Source = {Native}
    Name <- OneName
    Port = {1}
    DynamicPort = {1}
    Service <- OneService
    Configured <- SingleConfigured
    ExternalChoices <- NoneExternal
    Expansion <- OneNoExpansion
    Caller = {c1}
    MaxRestarts = 0
    RestartCap = 0
    MaxCalls = 1
    MaxPf = 1
SPECIFICATION FairSpec
PROPERTY RemovedForwardStops
CHECK_DEADLOCK FALSE
