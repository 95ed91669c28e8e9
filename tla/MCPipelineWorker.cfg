\* The instance of MCPipeline.cfg; one exception is enough.
CONSTANTS
    NShards = 2
    Capacity = 1
    IdleTimeout = 2
    ActiveTimeout = 8
    Captures <- MCCaptures
    MaxFaults = 1
    EndOfTime = 100
    NoItem = NoItem
SPECIFICATION Spec
INVARIANT WorkersContinue
CHECK_DEADLOCK FALSE
