\* A cancel between the status gate and the registration of the stream.
CONSTANTS
    Runs = {r1}
    Workers = {w1, w2}
    NoRun = NoRun
    NoWorker = NoWorker
    PlanFirst = {}
    Lingers = FALSE
    MaxHolds = 0
    MaxRevisions = 0
    MaxCrashes = 0
SPECIFICATION Spec
INVARIANT StopIsHeeded
