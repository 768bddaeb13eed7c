\* A user who changes the daily run time.
SPECIFICATION Spec
CONSTANTS
    Requests = {"r1"}
    Passes = {"s1"}
    Workers = {"w1"}
    None = None
    DayLength = 2
    Times = {0, 1}
    Zones = {1}
    Window = 1
    MaxLag = 1
    MinTime = 1
    MaxTime = 2
    MaxManual = 1
    MaxRuns = 4
    MaxFaults = 0
INVARIANT QueuedRunHasJob
