\* Processes that are never paused: crashes, restarts, database errors.
SPECIFICATION SlicedSpec
CONSTANTS
    Jobs = {1}
    Handled = {1}
    Workers = {"w1"}
    Executors = {"e1", "e2"}
    Home <- OneProcess
    None = None
    LeaseSecs = 5
    RenewEvery = 1
    MaxLag = 1
    MayStall = FALSE
    MaxFaults = 1
    NumChildren = 2
    WaveSize = 2
    Permits = 1
    MaxRepairs = 0
    Snapshots = {1}
    SecondJobs = {}
    MaxFindings = 1
    MaxErrors = 1
INVARIANT NoOverlap
INVARIANT EndedRunHasNoLiveTask
PROPERTY ImplementsOutcomes
PROPERTY MovesForward
PROPERTY PublishesWhileSynthesizing
PROPERTY EveryJobSettles
PROPERTY RunEndsOrJobFails
