CONSTANTS
    Section = {"pkg", "inst", "sys", "mw", "tb", "sh", "tr", "ut", "ww", "hf"}
    Module = {"gcc"}
    Wrapper = TRUE
    Preloaded = {}
    Requests <- StaleRequests
    MaxRuns = 4
    Getter = {"pkg", "inst", "sys"}
    Installed = {"sys"}
    Envar = {"CC", "FC"}
    UserEnvar = {"CC"}
    UserPath = {"bin", "inc"}
    StageOf <- MCStageOf
    Always = {"mw", "tb"}
    Node = {"n1", "n2", "n3"}
SPECIFICATION Spec
CHECK_DEADLOCK FALSE
INVARIANTS ParentSucceeded
