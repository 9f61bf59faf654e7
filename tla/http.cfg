SPECIFICATION ServeFairSpec
CONSTANTS
    Request = {c1}
    StreamClient = {d1, d2}
    Streams = 1
    Servers <- OneServer
    MaxFds = 2
    Site <- Sites
    Char <- Chars
    Path <- Paths
    IndexFiles = 2
CHECK_DEADLOCK FALSE
INVARIANTS
    HttpTypeOK
    RepliesRelayed
    RoutedToLongest
    FilesBelowRoot
    ServeTypeOK
    HeldForClients
PROPERTIES
    AwaitsRunOut
    AdmissionKept
    TunnelEnds
    QueuedServed
