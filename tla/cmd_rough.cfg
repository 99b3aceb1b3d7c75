CONSTANTS
    Lines <- MCLines
    Capacity <- MCCapacity
    Expires = TRUE
    MayClose = TRUE
    Heirs = TRUE
    Others = TRUE
    CmdTime = TRUE
    Exceptions = TRUE
SPECIFICATION Spec
CHECK_DEADLOCK FALSE
INVARIANTS NoSignalAfterReap KillIsWhole
