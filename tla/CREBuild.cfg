SPECIFICATION FairSpec
CONSTANTS
    Specs <- AllSpecs
    Webhooks = TRUE
    Switches = TRUE
    MaxGen = 2
    MaxUid = 1
    Budget = 2
    Cost <- EditsOrMishap
INVARIANTS TypeOK SuccessWasBuilt RunsValidated
PROPERTIES SuccessIsFinal RunCreated OutcomeReached
CHECK_DEADLOCK FALSE
