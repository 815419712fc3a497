SPECIFICATION Spec
CONSTANTS
    TotalTimeout = 10
    RouteTimeout = 1
    PlanTimeout = 1
    RetrievalTimeout = 2
    ToolTimeout = 1
    SynthesisTimeout = 2
    FinalizationTimeout = 2
    OverheadBuffer = 1
    Deadlines <- MCDeadlines
    MaxRetries = 1
    ToolMaxSteps = 2
INVARIANT RetryRoundFullyFunded
