SPECIFICATION FairSpec
CONSTANTS
    Jobs = {j1, j2, j3}
    Drainers = {d1}
    MaxConcurrentJobs = 2
    MaxForgets = 1
    Self = Self
    User = User
    NoJob = NoJob
INVARIANTS
    CapacityRespected
    DrainedMeansIdle
    StopReachesEveryJob
    HeartbeatCovers
PROPERTIES
    DrainEnds
    Reregisters
CHECK_DEADLOCK FALSE
