SPECIFICATION ProbeFairSpec
CONSTANTS
    Peers <- ThreePeers
    FAIL_TIMEOUT = 4
    UsizeModulus = 3
    MaxTime = 8
    ClockStepsBack = FALSE
    Interval = 2
    RoundTime = 1
    RoundsEnd = TRUE
INVARIANTS
    ProbeTypeOK
    OnlySuccessReturns
PROPERTY
    EveryPeerProbed
