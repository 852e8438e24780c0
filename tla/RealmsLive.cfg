CONSTANTS
    Dialers = {d1, d2}
    Ids = {i1, i2}
    None = None
    MaxRetries = 2
    MaxBindFailures = 1
    MaxConns = 2

SPECIFICATION FairSpec

PROPERTY DialReturns

CHECK_DEADLOCK FALSE
