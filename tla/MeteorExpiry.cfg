SPECIFICATION FairSpec
CONSTANTS
    Pipelines <- NoPipeline
    Namespaces = {"a"}
    TTLs = {0, 1}
    Second = 1
    MaxDuration = 1
    ShowerNames = {"s", "t"}
    ForeignShowers = {"t"}
    Selectors = {"", "s"}
    ExtChoices <- SkipService
    ShowersAtStart = {}
    MaxClock = 2
    MaxIncarnations = 1
    Limits <- ExpiryLimits
PROPERTIES ExpiredIsDeleted DeletionCompletes
CHECK_DEADLOCK FALSE
