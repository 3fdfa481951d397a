SPECIFICATION ServicesSpec
CONSTANTS
    u1 = u1
    u2 = u2
    u3 = u3
    a1 = a1
    a2 = a2
    g1 = g1
    g2 = g2
    x1 = x1
    x2 = x2
    NoClient = NoClient
    SpaceClients = {u1, u2, u3}
    Homes = {a1, a2}
    HomeOf <- MCHomeOf
    Tuples = {g1, g2}
    Patterns = {{g1, g2}}
    Leased = {g2}
    Gates = {g1}
    Watchers = {w1}
    WatchRoom = 1
    BarrierSizes = {1, 2, 3}
    MaxSpaceOps = 3
    Callers = {c1, c2, c3}
    Configs <- MCConfigs
    Executors = {x1, x2}
    Starter = x1
    Definitions <- MCDefinitions
    MaxSignals = 2
    MaxMishaps = 1
INVARIANT TakeExact
CHECK_DEADLOCK FALSE
