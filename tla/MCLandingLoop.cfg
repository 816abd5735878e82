CONSTANTS
    x1 = x1
    x2 = x2
    x3 = x3
    NoCard = NoCard
    Cards = {x1, x2, x3}
    InPlace = {x2}
    Eager = {x3}
    Doors = {1, 2}
    Sweeper = 0
    FirstDeps <- BothFirst
    MaxActs = 2
    MaxRestarts = 1
CHECK_DEADLOCK FALSE
SPECIFICATION Spec
INVARIANTS NoCardWaitsForItself
