SPECIFICATION WorkerFairSpec
CONSTANTS
    Peers <- TwoPeers
    FAIL_TIMEOUT = 1
    UsizeModulus = 2
    MaxTime = 1
    ClockStepsBack = FALSE
    Request = {r1, r2}
    Interval = 1
    RoundTime = 1
    RoundsEnd = FALSE
PROPERTY
    Answered
