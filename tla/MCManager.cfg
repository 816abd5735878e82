\* A card in the backlog and one to be made, a person, the tick and two calls.
CONSTANTS
    x1 = x1
    x2 = x2
    p1 = p1
    sched = sched
    k1 = k1
    k2 = k2
    Cards = {x1, x2}
    FirstCards = {x1}
    NoCard = NoCard
    People = {p1}
    Tick = sched
    Calls = {k1, k2}
    MaxStarts = 1
    MaxEarly = 1
    MaxActs = 3
SPECIFICATION FairSpec
INVARIANTS CapKept NewsIsRead
PROPERTIES NewsIsHeard
CHECK_DEADLOCK FALSE
