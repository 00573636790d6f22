CONSTANTS
    a = a
    b = b
    m = m
    mx = mx
    my = my
    None = None
    Native = Native
    Source = {Native}
    Name <- OneName
    Port = {1}
    DynamicPort = {1}
    Service <- OneService
    Configured <- SingleConfigured
    ExternalChoices <- NoneExternal
    Expansion <- OneNoExpansion
    Caller = {c1, c2}
    MaxRestarts = 0
    RestartCap = 0
    MaxCalls = 2
    MaxPf = 2
SPECIFICATION FairSpec
PROPERTIES CallersReturn StopTerminates CancelledAttemptEnds
CHECK_DEADLOCK FALSE
