CONSTANTS
    Pod = {p1, p2}
    NoPod = NoPod
    MaxRestarts = 0
    HealthCheckThreshold = 1
    BackoffInitial = 1
    BackoffMax = 1
    AgeLimited = TRUE
    RestartCap = 0
    ErrorCap = 2
    EventCap = 1
SPECIFICATION FairSpec
INVARIANT TypeOK
PROPERTIES ImplementsSupervision SelfHealing
CHECK_DEADLOCK FALSE
