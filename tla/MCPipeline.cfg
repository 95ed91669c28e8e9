\* Two workers with one slot each, so backpressure and drops happen; one fault.
CONSTANTS
    NShards = 2
    Capacity = 1
    IdleTimeout = 2
    ActiveTimeout = 8
    Captures <- MCCaptures
    MaxFaults = 1
    EndOfTime = 100
    NoItem = NoItem
SPECIFICATION Spec
INVARIANTS TypeOK OnePlace FlowsStayWhole ReplayIsReference DoneMeansComplete
PROPERTIES EverythingSettles
CHECK_DEADLOCK FALSE
