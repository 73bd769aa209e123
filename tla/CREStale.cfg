SPECIFICATION Spec
CONSTANTS
    Specs <- PackageOnly
    Webhooks = TRUE
    Switches = FALSE
    MaxGen = 1
    MaxUid = 1
    Budget = 0
    Cost <- Evenly
INVARIANTS ActiveIsNotFailed
CHECK_DEADLOCK FALSE
