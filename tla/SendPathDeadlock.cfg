CONSTANTS
    Conns = {c1}
    Apps = {}
    None = None
    DiscRetries = 1
    MaxTime = 0
    MaxMsgs = 1
    MaxRecv = 1
    MaxUpdates = 1
SPECIFICATION FairSpec
PROPERTY CloseCompletes
CHECK_DEADLOCK FALSE
