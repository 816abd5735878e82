CONSTANTS
    r1 = r1
    r2 = r2
    r3 = r3
    machine = machine
    project = project
    Runs = {r1, r3}
    NoRun = NoRun
    Policies = {machine}
    NoPolicy = NoPolicy
    Covers <- MCCovers
    Today = Today
    Limited = {r1, r3}
    AtOnce = 1
    MaxDaily = 1
    MaxCap = 1
    MaxActs = 2
SPECIFICATION ClaimsFairSpec
INVARIANTS ClaimsTypeOK CapKept HeldIsSpent LimitsKept
PROPERTIES EveryRowLeaves
CHECK_DEADLOCK FALSE
