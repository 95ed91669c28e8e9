\* Three workers and four lookups, so one of them asks twice; two addresses and room
\* for one of them; one expiry.
CONSTANTS
    w1 = w1
    w2 = w2
    w3 = w3
    x = x
    y = y
    Threads <- MCThreads
    IPs <- MCIPs
    CacheMax = 1
    Nobody = Nobody
    MaxLookups = 4
    MaxExpiries = 1
SPECIFICATION Spec
INVARIANTS SingleFlight CallsBounded
PROPERTIES LookupsReturn
CHECK_DEADLOCK FALSE
