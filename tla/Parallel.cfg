SPECIFICATION FairSpec
CONSTANTS
    Fans <- MCFans
    Branches <- MCBranches
    Members <- MCMembers
    Names = {"a", "z"}
    Scope <- MCScope
    Configs <- MCConfigs
    MaxExecs = 4
    MaxFaults = 1
    NoId = NoId
    Root = Root
INVARIANTS
    ReportIsScheduleFree
    StepsKeepTheirRows
    
    WarnsTheRightFanOut
PROPERTIES
    RunEnds
CHECK_DEADLOCK FALSE
