CONSTANTS
    Half = 16
    PidRange = 4
    Bodies <- MCBodies
    Wires <- MCWires
    MaxMsgs = 5
    MaxIn = 2
    MaxFlight = 1
SPECIFICATION Spec
INVARIANTS
    LossEstimatesExact
    WireFaithful
    PidsDistinctInWindow
CHECK_DEADLOCK FALSE
