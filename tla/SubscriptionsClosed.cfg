SPECIFICATION Spec
CONSTANTS
    Callers = {k1}
    Modes <- MCModes
    LastSeq = 1
    Capacity = 1
    MaxConns = 1
    MaxIds = 1
    MaxFaults = 0
    MaxCloses = 0
    NoOne = NoOne
INVARIANTS
    NoSendOnClosed
CHECK_DEADLOCK FALSE
