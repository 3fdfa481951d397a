CONSTANTS
    c1 = c1
    c2 = c2
    k1 = k1
    k2 = k2
    Callers <- MCCallers
    Kids <- MCKids
    Policy <- MCPolicy
    Strategies <- MCStrategies
    MidSize = 1
    MaxRestarts = 1
    EventCap = 2
    MaxCalls = 3
SPECIFICATION FairSpec
CHECK_DEADLOCK FALSE
INVARIANT SupervisorInv
PROPERTY CallsReturn
