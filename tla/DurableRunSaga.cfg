SPECIFICATION Spec
CONSTANTS
    Names = {"a", "b"}
    Program <- SagaProgram
    MaxExec = 2
    MaxAttempts = 2
    OnExhausted = "fail"
    CheckpointCap = 2
    Faults = {"crash", "cancel"}
    NoId = NoId
    NoMsg = NoMsg
INVARIANTS
    CompensatesInReverse
    FailedRunCompensated
    CompensationsRecorded
CHECK_DEADLOCK FALSE
