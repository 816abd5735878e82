SPECIFICATION FairSpec
CONSTANTS
    Size = 3
    F = F
    G = G
    Scopes <- TwoScopes
    Plans <- SmallPlans
    Manager = Manager
    MaxParallel = 2
    MaxTotal = 4
    MaxAdded = 1
    MaxReplans = 1
    InPlace = TRUE
    OwnRuns <- FirstOnly
    MaxRestarts = 1
INVARIANTS WorkIsDisjoint StepsSettle BoardFollows
PROPERTIES DependentsWait TeamEnds
CHECK_DEADLOCK FALSE
