\* What calls in parallel and messages on their way break.  Each is violated: keep
\* the one whose counterexample is wanted.
CONSTANTS
    x1 = x1
    x2 = x2
    p1 = p1
    sched = sched
    k1 = k1
    k2 = k2
    Cards = {x1, x2}
    FirstCards = {x1}
    NoCard = NoCard
    People = {p1}
    Tick = sched
    Calls = {k1, k2}
    MaxStarts = 1
    MaxEarly = 1
    MaxActs = 3
SPECIFICATION Spec
INVARIANTS
    CapIsHard
    EveryWordIsRead
    OneTurn
CHECK_DEADLOCK FALSE
