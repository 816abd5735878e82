CONSTANTS
    x1 = x1
    x2 = x2
    m = m
    d1 = d1
    d2 = d2
    Cards = {x1, x2}
    Bases = {m}
    Stacks = {x2}
    NoOne = NoOne
    Doors = {d1, d2}
    NoDoor = NoDoor
    Limit = 1
    MaxRows = 2
    MaxActs = 3
    MaxRestarts = 0
SPECIFICATION Spec
PROPERTIES StartsBuildOrRun
CHECK_DEADLOCK FALSE
