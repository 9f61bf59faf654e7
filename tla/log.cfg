SPECIFICATION LogSpec
CONSTANTS
    Worker = {w1, w2, w3}
    MaxChunks = 7
    Faults = TRUE
\* The file is full.
CHECK_DEADLOCK FALSE
SYMMETRY Workers
INVARIANTS
    LogTypeOK
    NewlinesCountEntries
    SharedLinesBounded
    DatesRight
