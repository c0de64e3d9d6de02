SPECIFICATION FairSpec
CONSTANTS
    Launcher = launcher
    Togglers = {t1, t2, t3}
    Start = TRUE
    RequestStop = 2
    Serial = TRUE
    ChildMayFail = TRUE
    MaxSignals = 3
    MaxCalls = 1
CHECK_DEADLOCK FALSE
INVARIANT PipeTellsState
INVARIANT OneReader
INVARIANT WholeSessions
PROPERTY HandlerReturns
PROPERTY ToolsEnd
