CONSTANTS
    Cap = 2
    Lengths = {0, 1, 2}
    BufSizes = {1, 2}
    MaxBytes = 4
SPECIFICATION FairSpec
INVARIANTS
    NoHole
    EofAfterDrain
PROPERTIES
    WaitingReadWakes
    DeadlineEndsRead
CHECK_DEADLOCK FALSE
