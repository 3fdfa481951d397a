SPECIFICATION AllPolledSpec
CONSTANTS
    t1 = t1
    t2 = t2
    t3 = t3
    h1 = h1
    h2 = h2
    s1 = s1
    s2 = s2
    n1 = n1
    NoEntry = NoEntry
    NoHandle = NoHandle
    Tasks = {t1, t2, t3}
    HolderOf <- MCHolderOf
    Leases = {1, 2}
    MaxTime = 2
    MaxVersion = 3
    Schedulers = {s1, s2}
    NodeOf <- MCNodeOf
    LEASE_RETRY_MAX = 2
PROPERTY StopReturns
CHECK_DEADLOCK FALSE
