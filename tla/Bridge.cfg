CONSTANTS
    Handlers = {h1, h2, h3}
    MaxConns = 3
    MaxRealms = 2
SPECIFICATION FairSpec
INVARIANTS
    TokenExact
    RealmsWithinLimit
    ExitClean
PROPERTIES
    ShutdownCompletes
    UselessTunnelEndsBridge
CHECK_DEADLOCK FALSE
