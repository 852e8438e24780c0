CONSTANTS
    SignReads = 2
    DirectRetries = 3
    StunDrain = 1
    AuthReads = 2
    FinalDrain = 1
    MaxRepeats = 1
    Repeatable = {"main", "p2p"}
    None = None
SPECIFICATION FairSpec
INVARIANTS
    SocketsAccounted
    AnswersMatch
    AuthIsFresh
PROPERTY
    HandshakeReturns
CHECK_DEADLOCK FALSE
