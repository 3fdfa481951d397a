SPECIFICATION HostingSpec
CONSTANTS
    c1 = c1
    c2 = c2
    c3 = c3
    Clients = {c1, c2, c3}
    WorkerIds = 2
    MaxQueue = 2
    MinSize = 1
    MaxSize = 2
    InitialSize = 1
    Strategy = "incremental"
    MinStep = 1
    MaxStep = 2
    m1 = m1
    m2 = m2
    p1 = p1
    Orders = {m1, m2}
    Setups <- MCSetups
    Effectful = {m2}
    Promises = {p1}
    PromiseCallers = {c1, c2, c3}
    Interval = 2
    MaxLives = 2
    MaxPromiseCalls = 2
    MaxJournalFaults = 1
    Nothing = Nothing
    b1 = b1
    b2 = b2
    AppNames = {b1, b2}
    Operators = {c1, c2, c3}
    NodeItself = NodeItself
    Unlocked = Unlocked
    Releases <- MCReleases
    MaxRequests = 2
    MaxGone = 1
SYMMETRY Symmetric
INVARIANTS PoolInv DurabilityInv  
CHECK_DEADLOCK FALSE
