CONSTANTS
    StallTimeout = 4
    MaxMissed = 24
    MaxTime = 10
    MaxSent = 2
    None = None
SPECIFICATION WatchSpec
INVARIANTS NoFalseStall StallNoticed MissedBounded
CHECK_DEADLOCK FALSE
