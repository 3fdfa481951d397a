SPECIFICATION LocksSpec
CONSTANTS
    h1 = h1
    h2 = h2
    NoRow = NoRow
    NoHandle = NoHandle
    NoOp = NoOp
    NoKey = NoKey
    NoCall = NoCall
    Holders <- MCHolders
    Lease <- MCLease
    MaxTime = 5
    MaxVersion = 5
    MaxOpTime = 4
    MaxOpVersion = 3
INVARIANTS LocksInv MutualExclusion
PROPERTIES StaleReleaseHarmless ImplementsLease DdbImplementsLease RedisImplementsLease
CHECK_DEADLOCK FALSE
