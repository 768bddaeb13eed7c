\* Paused processes and late statements: zombie handlers.
SPECIFICATION SlicedSpec
CONSTANTS
    Jobs = {1, 2}
    Handled = {1}
    Workers = {"w1", "w2"}
    Executors = {"e1", "e2"}
    Home <- OneLoopEach
    None = None
    LeaseSecs = 2
    RenewEvery = 1
    MaxLag = 1
    MayStall = TRUE
    MaxFaults = 1
    NumChildren = 1
    WaveSize = 1
    Permits = 1
    MaxRepairs = 0
    Snapshots = {1}
    SecondJobs = {1}
    MaxFindings = 1
    MaxErrors = 0
INVARIANT TypeOK
INVARIANT RunTypeOK
INVARIANT OneHandlerWorks
INVARIANT SnapshotBeforeSuccess
PROPERTY TerminalIsFinal
PROPERTY SettledByHolder
PROPERTY StealsOnlyLapsed
PROPERTY ImplementsQueue
