SPECIFICATION FairSpec
CONSTANTS
    Pipelines <- OnePipeline
    Namespaces = {"a"}
    TTLs = {0}
    Second = 1
    MaxDuration = 9
    ShowerNames = {"s"}
    ForeignShowers = {}
    Selectors = {""}
    ExtChoices <- SomeOrNone
    ShowersAtStart = {"s"}
    MaxClock = 0
    MaxIncarnations = 1
    Limits <- ProgressLimits
PROPERTIES PipelinesStart OutcomeReported
CHECK_DEADLOCK FALSE
