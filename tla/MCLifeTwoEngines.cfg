\* A stream that outlives the backoff of its own hold.
CONSTANTS
    Runs = {r1}
    Workers = {w1, w2}
    NoRun = NoRun
    NoWorker = NoWorker
    PlanFirst = {}
    Lingers = TRUE
    MaxHolds = 1
    MaxRevisions = 0
    MaxCrashes = 0
SPECIFICATION Spec
INVARIANT OneEnginePerRun
