\* A manual request beside a scheduler pass, and two executors.
SPECIFICATION Spec
CONSTANTS
    Requests = {"r1"}
    Passes = {"s1"}
    Workers = {"w1", "w2"}
    None = None
    DayLength = 2
    Times = {1}
    Zones = {1}
    Window = 1
    MaxLag = 1
    MinTime = 1
    MaxTime = 2
    MaxManual = 1
    MaxRuns = 3
    MaxFaults = 0
PROPERTY EndedRunsStay
