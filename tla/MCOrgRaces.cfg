\* What a stop, a cancel and a sub-card's own run break.  Each is violated: keep the
\* one whose counterexample is wanted.
SPECIFICATION Spec
CONSTANTS
    Size = 3
    F = F
    G = G
    Scopes <- TwoScopes
    Plans <- SmallPlans
    Manager = Manager
    MaxParallel = 2
    MaxTotal = 4
    MaxAdded = 1
    MaxReplans = 1
    InPlace = TRUE
    OwnRuns <- FirstOnly
    MaxRestarts = 1
INVARIANTS
    OneCheckout
PROPERTIES
    CardFollowsRun
    StopIsNotFailure
CHECK_DEADLOCK FALSE
