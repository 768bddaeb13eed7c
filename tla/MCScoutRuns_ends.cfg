\* One database error in a renewal.
SPECIFICATION SlicedSpec
CONSTANTS
    Jobs = {1}
    Handled = {1}
    Workers = {"w1"}
    Executors = {"e1"}
    Home <- OneProcess
    None = None
    LeaseSecs = 4
    RenewEvery = 1
    MaxLag = 1
    MayStall = FALSE
    MaxFaults = 1
    NumChildren = 1
    WaveSize = 1
    Permits = 1
    MaxRepairs = 0
    Snapshots = {}
    SecondJobs = {}
    MaxFindings = 1
    MaxErrors = 0
PROPERTY EveryRunEnds
