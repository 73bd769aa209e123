SPECIFICATION FairSpec
CONSTANTS
    Pipelines <- NoPipeline
    Namespaces = {"a"}
    TTLs = {1}
    Second = 1
    MaxDuration = 9
    ShowerNames = {"s"}
    ForeignShowers = {}
    Selectors = {""}
    ExtChoices <- OneService
    ShowersAtStart = {"s"}
    MaxClock = 2
    MaxIncarnations = 1
    Limits <- FaultLimits
PROPERTIES TTLIsLifespan
CHECK_DEADLOCK FALSE
