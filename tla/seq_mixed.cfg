CONSTANTS
    Ini <- MixedIni
    StageOrder <- Stages
    Duration = TRUE
    Loop = FALSE
    LoopForever = FALSE
    StopOnFail = TRUE
    Verbose = FALSE
SPECIFICATION Spec
CHECK_DEADLOCK FALSE
INVARIANTS SemAccount EveryReportMade
PROPERTY ChildAfterSuccess
