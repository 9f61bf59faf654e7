SPECIFICATION MasterFairSpec
CONSTANT
    Workers = 2
CHECK_DEADLOCK FALSE
PROPERTY
    TermStopsWorkers
