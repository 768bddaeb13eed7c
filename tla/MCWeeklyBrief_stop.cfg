\* A handler that lost its job to an interrupted re-entry stops the run for cost.
SPECIFICATION SlicedSpec
CONSTANTS
    Jobs = {1}
    Executors = {"e1", "e2"}
    None = None
    DayLength = 4
    WeekDays = 2
    RunAt = 2
    MaxAdvance = 1
    Zones <- ManyZones
    Scans = {"s1", "s2"}
    TwoJobs = {}
    ScanTimes = {6}
    Outcomes = {"completed"}
    CommitWithin = 1
    MaxFindings = 1
    Horizon = 10
    MaxErrors = 1
CHECK_DEADLOCK FALSE
PROPERTY WeeklyStatusSteps
