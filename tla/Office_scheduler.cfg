SPECIFICATION FairSpec
CONSTANTS
    r1 = r1
    r2 = r2
    r3 = r3
    None = None
    Requests = {r1, r2, r3}
    Priority <- MCPriority
    MaxRetries = 2
INVARIANTS
    OneStreamAtATime
    NobodyWaitsForAFreeSlot
PROPERTIES
    FifoWithinAPriority
    SettlesOnce
    UnretriedRequestsSettle
