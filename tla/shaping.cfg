CONSTANTS
    Rate = 2
    Stream = {s1, s2}
    MaxChunk = 3
    Latency = {1}
    Caller = {c1, c2}
    MaxCalls = 2
    ConfigChaos <- Configured
SPECIFICATION Spec
INVARIANTS  OverrideHeld
CHECK_DEADLOCK FALSE
