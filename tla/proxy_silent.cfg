SPECIFICATION ProxySpecSilentPeers
CONSTANTS
    Peers <- TwoPeers
    FAIL_TIMEOUT = 1
    UsizeModulus = 2
    MaxTime = 2
    ClockStepsBack = FALSE
    Request = {r1}
PROPERTY
    SilentPeerTimesOut
