\* A dead run is resumed while another run of its card starts.
CONSTANTS
    Runs = {r0, r1, r2}
    Done = {r0}
    NoRun = NoRun
    Doors = {d1, d2, sweep}
    NoDoor = NoDoor
    Sweeper = sweep
    MaxRestarts = 0
SPECIFICATION Spec
INVARIANT OneEngineAtWork
