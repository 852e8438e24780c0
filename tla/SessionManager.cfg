CONSTANTS
    Callers = {k1, k2}
    Clients = {c1, c2}
    MaxRealms = 1
    MaxExpired = 1
    None = None
SPECIFICATION FairSpec
INVARIANTS
    RefCountExact
    RealmCap
    NoCloseUnderHolder
    PinnedPortOneSession
PROPERTIES
    DeadIsForgotten
    WaiterWakes
    ShutdownClosesAll
    UnusedTunnelGoes
