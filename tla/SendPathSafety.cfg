CONSTANTS
    Conns = {c1, c2}
    Apps = {a1}
    None = None
    DiscRetries = 2
    MaxTime = 0
    MaxMsgs = 1
    MaxRecv = 0
    MaxUpdates = 1
SPECIFICATION Spec
SYMMETRY Symmetry
INVARIANTS
    PermitConserved
    NoForeignDeadline
    OwnDeadline
    InterruptSticks
PROPERTIES
    ImplementsAtomicSend
CHECK_DEADLOCK FALSE
