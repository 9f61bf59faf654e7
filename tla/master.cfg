SPECIFICATION MasterFairSpec
CONSTANT
    Workers = 3
\* The system stops when the master is gone and nothing happens to its workers.
CHECK_DEADLOCK FALSE
INVARIANTS
    MasterTypeOK
    CleanExit
    ReapsOnlyDead
PROPERTY
    ShutdownEnds
