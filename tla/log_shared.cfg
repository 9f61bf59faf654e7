SPECIFICATION LogSpec
CONSTANTS
    Worker = {w1, w2}
    MaxChunks = 6
    Faults = FALSE
\* The file is full.
CHECK_DEADLOCK FALSE
INVARIANT
    LinesWhole
