SPECIFICATION FairSpec
CONSTANTS
    Names = {"a", "b"}
    Program <- AwaitProgram
    MaxExec = 5
    MaxAttempts = 2
    OnExhausted = "fail"
    CheckpointCap = 2
    Faults = {"error", "unencodable"}
    NoId = NoId
    NoMsg = NoMsg
PROPERTIES
    RunEnds
CHECK_DEADLOCK FALSE
