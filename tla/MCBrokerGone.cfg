\* Unparks that land late: a live run's prompt is told the run is gone.
CONSTANTS
    Runs = {r1}
    NoRun = NoRun
    Requests = {q1, q2}
    FanOut = {}
    MaxExtra = 0
    MaxConcurrent = 1
    Patient = {}
    HangUps = FALSE
    UnparkLags = TRUE
SPECIFICATION Spec
PROPERTY GoneMeansEnded
