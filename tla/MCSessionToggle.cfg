SPECIFICATION FairSpec
CONSTANTS
    Launcher = launcher
    Togglers = {t1, t2}
    Start = TRUE
    RequestStop = 2
    Serial = FALSE
    ChildMayFail = FALSE
    MaxSignals = 0
    MaxCalls = 0
CHECK_DEADLOCK FALSE
PROPERTY HandlerReturns
