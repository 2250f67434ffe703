SPECIFICATION FairSpec
CONSTANTS
    Jobs = {j1, j2}
    Drainers = {d1}
    MaxConcurrentJobs = 1
    OutCap = 1
    Window = 1
    MaxConns = 2
    MaxSent = 2
    NoJob = NoJob
INVARIANTS
    CountIsExact
    DrainedMeansIdle
    GracefulLosesNothing
PROPERTIES
    DrainEnds
    JobsEnd
CHECK_DEADLOCK FALSE
