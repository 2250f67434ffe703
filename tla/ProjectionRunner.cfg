SPECIFICATION FairSpec
CONSTANTS
    a = a
    g = g
    Runners = {r1, r2}
    Partitions = {a, g}
    Global = g
    PartitionOf <- Log
    LastSeq = 3
    BatchSize = 3
    MaxFaults = 1
    MaxStops = 1
INVARIANTS
    ExactlyOnce
    HandlersAreCovered
    StopFlushes
PROPERTIES
    ImplementsReadModel
    CatchesUp
    StopEnds
CHECK_DEADLOCK FALSE
