SPECIFICATION Spec
CONSTANTS
    Pipelines <- NoPipeline
    Namespaces = {"a"}
    TTLs = {0}
    Second = 1
    MaxDuration = 9
    ShowerNames = {"s", "t"}
    ForeignShowers = {}
    Selectors = {"s"}
    ExtChoices <- OneService
    ShowersAtStart = {"s", "t"}
    MaxClock = 0
    MaxIncarnations = 1
    Limits <- Calm
INVARIANTS OwnShower
CHECK_DEADLOCK FALSE
