CONSTANTS
    x1 = x1
    x2 = x2
    m = m
    d1 = d1
    d2 = d2
    Cards = {x1, x2}
    Bases = {}
    Stacks = {x2}
    NoOne = NoOne
    Doors = {d1, d2}
    NoDoor = NoDoor
    Limit = 1
    MaxRows = 2
    MaxActs = 2
    MaxRestarts = 1
SPECIFICATION FairSpec
PROPERTIES BuildsEndAnyway
CHECK_DEADLOCK FALSE
