\* Boxes that nobody knows of.  Each is violated: keep the one whose counterexample
\* is wanted.
CONSTANTS
    x1 = x1
    x2 = x2
    m = m
    d1 = d1
    d2 = d2
    Cards = {x1, x2}
    Bases = {}
    Stacks = {x2}
    NoOne = NoOne
    Doors = {d1, d2}
    NoDoor = NoDoor
    Limit = 1
    MaxRows = 2
    MaxActs = 3
    MaxRestarts = 0
SPECIFICATION Spec
INVARIANTS
    OneBoxPerCard
    IdleHoldsNothing
CHECK_DEADLOCK FALSE
