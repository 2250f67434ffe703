SPECIFICATION Spec
CONSTANTS
    Names = {"a", "b"}
    Program <- PauseProgram
    MaxExec = 2
    MaxAttempts = 2
    OnExhausted = "pause"
    CheckpointCap = 1
    Faults = {"cancel", "crash", "expire", "network", "payload", "unencodable"}
    NoId = NoId
    NoMsg = NoMsg
INVARIANTS
    DurableInv
    NoReexecution
    CompletedRunIsDurable
    AttemptsAreFailures
PROPERTIES
    RowsAppendOnly
CHECK_DEADLOCK FALSE
