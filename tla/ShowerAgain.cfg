SPECIFICATION FairSpec
CONSTANTS
    Modelled = {"ShowerRole", "Deployment", "ExternalRole"}
    Specs <- PlainAndLabelled
    Image = "default"
    MaxUid = 2
    Disturbances = {"fault", "crash", "edit", "delete", "loss", "drift"}
    Budget = 1
INVARIANTS TypeOK ObservedIsTrue
PROPERTIES ChildrenFollow ChildrenCollected
CHECK_DEADLOCK FALSE
