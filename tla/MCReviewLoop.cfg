CONSTANTS
    MaxRuns = 3
    Tasks = {1}
    MaxRounds = 2
    RequireChecks = TRUE
    Consented = TRUE
    AutoFix = 1
    MaxRestarts = 1
SPECIFICATION FairSpec
INVARIANTS ApprovalStands
PROPERTIES MergeLandsJudgedWork ReviewComes
CHECK_DEADLOCK FALSE
