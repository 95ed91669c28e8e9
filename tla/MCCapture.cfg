\* Two shards of two slots, two flows under every hash (together on one shard, or
\* apart), four packets: a shard can fill, drop, drain and take packets again.
CONSTANTS
    a = a
    b = b
    Flows <- MCFlows
    NShards = 2
    Capacity = 2
    MaxPackets = 4
    MaxReads = 1
SPECIFICATION Spec
INVARIANTS Accounted FlowOrder SnapshotAddsUp
PROPERTIES OfferReturns IsPerFlowChannel
CHECK_DEADLOCK FALSE
