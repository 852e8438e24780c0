CONSTANTS
    Dialers = {d1, d2}
    Ids = {i1, i2, i3}
    None = None
    MaxRetries = 2
    MaxBindFailures = 1
    MaxConns = 3

SPECIFICATION Spec

SYMMETRY Symmetry

INVARIANTS
    LiveConnRouted
    CloseReachesAll
    NoMapLeak
    ReaderNeverBlocks

CHECK_DEADLOCK FALSE
