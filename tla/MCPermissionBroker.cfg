\* A fan-out beside an ordinary run, two prompts, clients that hang up, late unparks.
CONSTANTS
    Runs = {r1, r2}
    NoRun = NoRun
    Requests = {q1, q2}
    Patient = {}
    FanOut = {r1}
    MaxExtra = 1
    MaxConcurrent = 2
    HangUps = TRUE
    UnparkLags = TRUE
SPECIFICATION Spec
SYMMETRY RequestSymmetry
INVARIANTS
    TypeOK
    SlotConservation
    LoanHasQuestion
PROPERTIES
    EndedIsFinal
    OnlyHangUpStrands
    ImplementsBudget
