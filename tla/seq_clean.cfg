CONSTANTS
    Ini <- CleanIni
    StageOrder <- Stages
    Duration = TRUE
    Loop = FALSE
    LoopForever = TRUE
    StopOnFail = FALSE
    Verbose = FALSE
SPECIFICATION FairSpec
CHECK_DEADLOCK FALSE
INVARIANTS GuardedInterrupt ReportedOnce
PROPERTY DurationStrikes
