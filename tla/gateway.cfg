CONSTANTS
    Conn = {c1, c2}
    Host = {h1, h2}
    NoHost = NoHost
SPECIFICATION FairSpec
INVARIANTS TypeOK UpstreamTrusted
PROPERTIES HandshakeEnds ShutdownEnds
CHECK_DEADLOCK FALSE
