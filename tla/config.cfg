SPECIFICATION ConfigSpec
CONSTANTS
    UpstreamName = {u}
    WorkerCounts = {2}
    Intervals = {0, 3}
    MaxStatements = 10
CHECK_DEADLOCK FALSE
INVARIANTS
    ConfigTypeOK
    OneAction
    VerifyReachesPass
    LoadedCanRun
    ProbesLikeRequests
