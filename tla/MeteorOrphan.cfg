SPECIFICATION FairSpec
CONSTANTS
    Pipelines <- NoPipeline
    Namespaces = {"a"}
    TTLs = {0}
    Second = 1
    MaxDuration = 9
    ShowerNames = {"s"}
    ForeignShowers = {}
    Selectors = {""}
    ExtChoices <- OneService
    ShowersAtStart = {"s"}
    MaxClock = 0
    MaxIncarnations = 1
    Limits <- DeleteLimits
PROPERTIES NoOrphanComas
CHECK_DEADLOCK FALSE
