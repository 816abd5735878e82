\* A client that hangs up on the prompt that is parking the run.
CONSTANTS
    Runs = {r1}
    NoRun = NoRun
    Requests = {q1, q2}
    FanOut = {}
    MaxExtra = 0
    MaxConcurrent = 1
    Patient = {}
    HangUps = TRUE
    UnparkLags = FALSE
SPECIFICATION Spec
INVARIANT NobodyStranded
