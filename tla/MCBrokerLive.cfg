\* Two runs on one slot, a prompt that may wait for ever, unparks that land late, nobody hangs up.
CONSTANTS
    Runs = {r1, r2}
    NoRun = NoRun
    Requests = {q1, q2}
    Patient = {q2}
    FanOut = {}
    MaxExtra = 0
    MaxConcurrent = 1
    HangUps = FALSE
    UnparkLags = TRUE
SPECIFICATION FairSpec
PROPERTIES
    QueueNotFrozen
