SPECIFICATION Spec
CONSTANTS
    Names = {"a", "b"}
    Program <- SagaProgram
    MaxExec = 1
    MaxAttempts = 2
    OnExhausted = "fail"
    CheckpointCap = 2
    Faults = {"unencodable"}
    NoId = NoId
    NoMsg = NoMsg
INVARIANTS
    FailedRunCompensated
CHECK_DEADLOCK FALSE
