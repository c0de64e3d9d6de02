SPECIFICATION Spec
CONSTANTS
    Threads = {t1, t2}
    BufferSize = 3
    Size <- MCSize
    MaxModules = 1
    MaxResources = 1
    Registers <- MCRegisters
    Attaching = {}
    Buffering = TRUE
    Managed = FALSE
    StartEnabled = FALSE
    StoreHeap = FALSE
    Quiescent = FALSE
    OpenFailures = {}
    WriteMayFail = FALSE
    MaxCalls = 2
    MaxToggles = 1
CHECK_DEADLOCK FALSE
SYMMETRY Symmetry
INVARIANT LockReleased
VIEW ControlView
