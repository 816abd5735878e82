CONSTANTS
    MaxRuns = 3
    Tasks = {1, 2}
    MaxRounds = 2
    RequireChecks = TRUE
    Consented = TRUE
    AutoFix = 1
    MaxRestarts = 0
SPECIFICATION FairSpec
INVARIANTS TypeOK ApprovalStands
PROPERTIES MergeLandsJudgedWork ReviewComes
CHECK_DEADLOCK FALSE
