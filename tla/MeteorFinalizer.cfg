SPECIFICATION Spec
CONSTANTS
    Pipelines <- NoPipeline
    Namespaces = {"a", "b"}
    TTLs = {0}
    Second = 1
    MaxDuration = 9
    ShowerNames = {"s"}
    ForeignShowers = {}
    Selectors = {""}
    ExtChoices <- TwoServices
    ShowersAtStart = {"s"}
    MaxClock = 0
    MaxIncarnations = 2
    Limits <- FinalizerLimits
INVARIANTS TypeOK GoneMeansComasGone
PROPERTIES RecordedComasStay ImplementsLifecycle
CHECK_DEADLOCK FALSE
