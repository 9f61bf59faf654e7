SPECIFICATION WorkerSpec
CONSTANTS
    Peers <- TwoPeers
    FAIL_TIMEOUT = 2
    UsizeModulus = 2
    MaxTime = 3
    ClockStepsBack = TRUE
    Request = {r1, r2}
    Interval = 1
    RoundTime = 1
    RoundsEnd = FALSE
SYMMETRY Requests
INVARIANT
    QuarantineIsLogged
PROPERTY
    PoolKept
    SharedFailoverKept
