\* A stop between the status gate and the registration of the stream.
CONSTANTS
    Runs = {r1, r2}
    Done = {}
    NoRun = NoRun
    Doors = {d1, sweep}
    NoDoor = NoDoor
    Sweeper = sweep
    MaxRestarts = 0
SPECIFICATION Spec
INVARIANT OneEngineUnlessResumed
