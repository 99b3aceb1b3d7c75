CONSTANTS
    Section = {"pkg", "inst", "sys", "mw", "tb", "sh", "tr", "ut", "ww", "hf"}
    Module = {"gcc"}
    Wrapper = TRUE
    Preloaded = {}
    Requests <- MCRequests
    MaxRuns = 2
    Getter = {"pkg", "inst", "sys"}
    Installed = {"sys"}
    Envar = {"CC", "FC"}
    UserEnvar = {"CC"}
    UserPath = {"inc"}
    StageOf <- MCStageOf
    Always = {}
    Node = {"n1", "n2", "n3"}
SPECIFICATION Spec
CHECK_DEADLOCK FALSE
INVARIANTS TypeOK SuccessTrue ProcessRestored OwnFirst ResourcesReturned
