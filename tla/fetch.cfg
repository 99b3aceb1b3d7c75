CONSTANTS
    Section = {"g", "c", "h", "t", "o", "p", "a"}
    Module = {"gcc", "intel"}
    Wrapper = TRUE
    Preloaded = {"intel"}
    Requests <- MCRequests
    MaxRuns = 2
    Branch = {"main", "v4", "v4x"}
    Pull = {"pr1"}
    Main = "main"
    Within <- MCWithin
    Moving = {"main", "v4"}
    MaxTip = 1
    Item = {"x", "y"}
    Versions <- MCVersions
SPECIFICATION Spec
CHECK_DEADLOCK FALSE
INVARIANTS PutBack  VersionFetched Remembered
PROPERTY FailureSticks
