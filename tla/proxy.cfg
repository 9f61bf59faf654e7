SPECIFICATION ProxySpec
CONSTANTS
    Peers <- ThreePeers
    FAIL_TIMEOUT = 2
    UsizeModulus = 6
    MaxTime = 4
    ClockStepsBack = FALSE
    Request = {r1, r2}
SYMMETRY Requests
INVARIANTS
    BoundedBypass
    ProxyTypeOK
PROPERTIES
    PickServesSomeone
    OutageBounded
    RetryMovesOn
    FailoverKept
