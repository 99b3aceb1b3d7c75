CONSTANTS
    Lines <- MCLines
    Capacity <- MCCapacity
    Expires = TRUE
    MayClose = FALSE
    Heirs = FALSE
    Others = TRUE
    CmdTime = FALSE
    Exceptions = FALSE
SPECIFICATION FairSpec
CHECK_DEADLOCK FALSE
INVARIANTS StdoutComplete KilledIsTimedOut
PROPERTY Returns
