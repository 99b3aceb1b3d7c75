CONSTANTS
    Ini <- StopIni
    StageOrder <- Stages
    Duration = FALSE
    Loop = TRUE
    LoopForever = FALSE
    StopOnFail = FALSE
    Verbose = TRUE
SPECIFICATION FairSpec
CHECK_DEADLOCK FALSE
INVARIANT FailureReturned
PROPERTY Terminates
