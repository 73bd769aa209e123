SPECIFICATION FairSpec
CONSTANTS
    Modelled = {"Deployment", "Route"}
    Specs <- PlainAndLabelled
    Image = "default"
    MaxUid = 1
    Disturbances = {"fault", "crash", "edit", "loss", "drift", "outage", "meteor"}
    Budget = 2
PROPERTIES ChildrenFollow PhaseFollows UrlFollows
CHECK_DEADLOCK FALSE
