SPECIFICATION Spec
CONSTANTS
    Callers = {k1, k2}
    Modes <- MCModes
    LastSeq = 2
    Capacity = 1
    MaxConns = 2
    MaxIds = 2
    MaxFaults = 1
    MaxCloses = 1
    NoOne = NoOne
SYMMETRY CallerSymmetry
INVARIANTS
    CursorHasNoGap
    NoServerLeak
    SubscriptionsAreRestored
CHECK_DEADLOCK FALSE
