\* A plan-first run with holds, a revision, cancels and a crash.
CONSTANTS
    Runs = {r1}
    Workers = {w1, w2}
    NoRun = NoRun
    NoWorker = NoWorker
    PlanFirst = {r1}
    Lingers = TRUE
    MaxHolds = 1
    MaxRevisions = 1
    MaxCrashes = 1
SPECIFICATION FairSpec
INVARIANTS
    TypeOK
    ComesBack
    OneEngineUnlessOverrun
PROPERTIES
    OnlyHoldsRevive
    KeepsPromise
    EveryRunSettles
