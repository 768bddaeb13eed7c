\* A week that ends around a clock change, beside two handlers.
SPECIFICATION SlicedSpec
CONSTANTS
    Jobs = {1}
    Executors = {"e1", "e2"}
    None = None
    DayLength = 4
    WeekDays = 2
    RunAt = 2
    MaxAdvance = 1
    Zones <- ManyZones
    Scans = {"s1", "s2"}
    TwoJobs = {"s1"}
    ScanTimes = {6, 8}
    Outcomes = {"completed", "failed"}
    CommitWithin = 1
    MaxFindings = 1
    Horizon = 10
    MaxErrors = 1
CHECK_DEADLOCK FALSE
INVARIANT WeeklyTypeOK
INVARIANT BriefTellsItsWeek
INVARIANT BriefMatchesRun
INVARIANT PaidOnce
INVARIANT ReceiptStands
PROPERTY WeeklyRunEnds
