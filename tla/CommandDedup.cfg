SPECIFICATION FairSpec
CONSTANTS
    Callers = {c1, c2, c3}
    ClaimAttempts = 3
    LateKinds = {"create"}
    MaxFaults = 3
PROPERTIES
    ImplementsCommandOnce
    CommandEnds
CHECK_DEADLOCK FALSE
