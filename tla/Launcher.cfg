CONSTANTS
    Requests = {r1, r2, r3}
    MaxInterrupts = 2
    MaxFails = 1
    MaxForeign = 1
SPECIFICATION FairSpec
INVARIANTS OneModel ReadyTruth PreflightTruth CleanExit
PROPERTIES EndsTogether
CHECK_DEADLOCK FALSE
