SPECIFICATION MetricsSpec
CONSTANTS
    Pipelines <- OnePipeline
    Namespaces = {"a"}
    TTLs = {0}
    Second = 1
    MaxDuration = 9
    ShowerNames = {"s"}
    ForeignShowers = {}
    Selectors = {""}
    ExtChoices <- OneService
    ShowersAtStart = {"s"}
    MaxClock = 0
    MaxIncarnations = 1
    Limits <- BuildLimits
INVARIANTS OutcomesTrue OnePhase
CHECK_DEADLOCK FALSE
