CONSTANTS
    Known <- MCKnown
    Unique <- MCUnique
    Missing = {"provision"}
    TooLong = {"long"}
    MaxDrops = 1
    Session <- MCSession
    Absent = "absent"
SPECIFICATION Spec
CHECK_DEADLOCK FALSE
INVARIANTS IdsAreForever ParentsAgree AnsweredIsStored
PROPERTY PoisonLasts
