\* The instance of MCPipeline.cfg; only the replays in which nothing fails matter.
CONSTANTS
    NShards = 2
    Capacity = 1
    IdleTimeout = 2
    ActiveTimeout = 8
    Captures <- MCCaptures
    MaxFaults = 1
    EndOfTime = 100
    NoItem = NoItem
SPECIFICATION Spec
INVARIANT CountsDeterministic
CHECK_DEADLOCK FALSE
