\* Settings that stay as they are: two requests, a pass, two workers, a fault.
SPECIFICATION FairSpec
CONSTANTS
    Requests = {"r1", "r2"}
    Passes = {"s1"}
    Workers = {"w1", "w2"}
    None = None
    DayLength = 2
    Times = {1}
    Zones = {1}
    Window = 2
    MaxLag = 1
    MinTime = 1
    MaxTime = 2
    MaxManual = 2
    MaxRuns = 4
    MaxFaults = 1
INVARIANT AdmissionTypeOK
INVARIANT ManualRunsApart
INVARIANT QueuedRunHasJob
INVARIANT OneWorkerPerRun
PROPERTY SatisfiedDayIsLeftAlone
PROPERTY DailyCadence
