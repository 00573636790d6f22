CONSTANTS
    Pod = {p1, p2}
    NoPod = NoPod
    Client = {c1, c2}
    HealthCheckThreshold = 1
    AgeLimited = TRUE
SPECIFICATION FairSpec
INVARIANT ReportFollowsTunnel
PROPERTIES FailedDialHurtsNobody StopEndsClients ClientsServed
CHECK_DEADLOCK FALSE
