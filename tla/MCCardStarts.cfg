\* A card that has completed a run, which may have been handed over: every door,
\* two calls at once, one of them the sweep, and a restart.
CONSTANTS
    Runs = {r0, r1, r2}
    Done = {r0}
    NoRun = NoRun
    Doors = {d1, sweep}
    NoDoor = NoDoor
    Sweeper = sweep
    MaxRestarts = 1
SPECIFICATION FairSpec
INVARIANTS
    OneLiveRun
    OneEngineUnlessUnheard
PROPERTIES
    HandoffWaits
    HandoffSettles
