CONSTANTS
    Pairs = 2
    StopStatuses = {0, 1}
    JoinTimeout = FALSE
    Choices <- MCChoices
    MaxSections = 2
    MaxTests = 2
    Faulty = TRUE
    Activated = TRUE
SPECIFICATION Spec
CHECK_DEADLOCK FALSE
INVARIANTS TypeOK HarassersKnown TestsAccounted GivenBack
PROPERTY KeysAreNew
