SPECIFICATION ActorSpec
CONSTANTS
    c1 = c1
    c2 = c2
    c3 = c3
    a1 = a1
    a2 = a2
    x = x
    y = y
    Callers = {c1, c2, c3}
    Actors = {a1, a2}
    Target <- MCTarget
    Operator = Operator
    MaxPool = 1
    MaxSpawnFaults = 1
    Deniable = {c2}
    NoOne = NoOne
    Requests = {k1, k2}
    MaxReplies = 2
    Members = {x, y}
    Refs = {r1}
    Watched <- MCWatched
    Watching <- MCWatching
    StopTarget = x
    Trapping = {y}
    MaxLives <- MCLives
    Endings = {"error"}
    NoLife = 0
    GroupClients = {p1, p2}
    Joiners = {m1, m2}
    MaxGroupOps = 4
    MaxGroupFaults = 1
    NoGroup = NoGroup
    NoJoiner = NoJoiner
INVARIANTS VirtualInv AsksInv LinksInv GroupInv
PROPERTIES DispatchReturns EntriesVanish EndedIsUnregistered
CHECK_DEADLOCK FALSE
