CONSTANTS
    a = a
    b = b
    m = m
    mx = mx
    my = my
    None = None
    Native = Native
    Source = {Native}
    Name <- SingleNames
    Port = {1}
    DynamicPort = {1}
    Service <- SingleServices
    Configured <- SingleConfigured
    ExternalChoices <- MaybeExternal
    Expansion <- NoExpansion
    Caller = {c1, c2}
    MaxRestarts = 1
    RestartCap = 1
    MaxCalls = 2
    MaxPf = 3
SPECIFICATION Spec
INVARIANTS TypeOK OrderEnumeratesForwards StaticPortsDistinct GivesUpOnlyWhenExhausted
PROPERTY ImplementsDirectory
CHECK_DEADLOCK FALSE
