\* Four packets reach every teardown, both timeouts, a flow re-opened after it was
\* closed, and timestamps that run backwards by one.
CONSTANTS
    IdleTimeout = 2
    ActiveTimeout = 3
    PacketKinds <- MCPacketKinds
    Gaps <- MCGaps
    MaxPackets = 4
SPECIFICATION TrackerSpec
INVARIANTS ConversationsPartitioned NothingOverdue
PROPERTIES EmittedForAReason
CHECK_DEADLOCK FALSE
