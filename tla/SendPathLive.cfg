CONSTANTS
    Conns = {c1, c2}
    Apps = {}
    None = None
    DiscRetries = 1
    MaxTime = 1
    MaxMsgs = 1
    MaxRecv = 1
    MaxUpdates = 0
SPECIFICATION FairSpec
PROPERTIES
    CloseWakesWriters
    ClosedWriterReturns
    AckFlushed
CHECK_DEADLOCK FALSE
