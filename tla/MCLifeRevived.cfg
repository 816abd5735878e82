\* A rate limit that arrives after the ending.
CONSTANTS
    Runs = {r1}
    Workers = {w1, w2}
    NoRun = NoRun
    NoWorker = NoWorker
    PlanFirst = {}
    Lingers = FALSE
    MaxHolds = 1
    MaxRevisions = 0
    MaxCrashes = 0
SPECIFICATION Spec
PROPERTY EndedIsFinal
