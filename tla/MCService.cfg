\* One old row of each kind, two captures, two processes killed anywhere; two threads and
\* four requests over one throttle window and the tick after it.
CONSTANTS
    flow = flow
    packet = packet
    untyped = untyped
    t1 = t1
    t2 = t2
    attacker = attacker
    alice = alice
    FlowRows <- MCFlowRows
    PacketRows <- MCPacketRows
    UntypedRows <- MCUntypedRows
    Captures <- MCCaptures
    Threads <- MCThreads
    Addresses <- MCAddresses
    Usernames <- MCUsernames
    MaxCrashes = 2
    MaxFailures = 2
    Window = 1
    MaxTime = 2
    MaxRequests = 4
SPECIFICATION Spec
INVARIANTS RowsMovedOnce SchemaComplete SeededOnce ThrottleExact AccountsKept
PROPERTIES BootCompletes
CHECK_DEADLOCK FALSE
