\* Engines that may hang, workers gone before their backoff is over.
CONSTANTS
    Runs = {r1}
    Workers = {w1, w2}
    NoRun = NoRun
    NoWorker = NoWorker
    PlanFirst = {}
    Lingers = FALSE
    MaxHolds = 2
    MaxRevisions = 0
    MaxCrashes = 1
SPECIFICATION HangSpec
PROPERTY StopEnds
