\* Two waves, the first of two children in parallel, one with the fallback.
SPECIFICATION CostsSpec
CONSTANTS
    NumChildren = 3
    WaveSize = 2
    FirstParty = {1}
    MaxChildRetries = 1
    MaxRepairs = 1
    CostLookups = 2
    MainEstimate = 2
    ChildEstimate = 1
    RunCeiling = 9
    DailyCeiling = 10
    InitialCosts = {0, 4}
    Costs = {1}
    Unknown = Unknown
    Pending = Pending
CHECK_DEADLOCK FALSE
INVARIANT CostsTypeOK
INVARIANT SpendsWithinCeilings
INVARIANT BooksMatchRequests
INVARIANT TaskTellsOutcome
