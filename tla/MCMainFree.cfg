SPECIFICATION Spec
CONSTANTS
    Threads = {t1, t2}
    BufferSize = 3
    Size <- MCSize
    MaxModules = 1
    MaxResources = 1
    Registers <- MCRegisters
    Attaching = {1}
    Buffering = TRUE
    Managed = FALSE
    StartEnabled = TRUE
    StoreHeap = FALSE
    Quiescent = FALSE
    OpenFailures = {}
    WriteMayFail = TRUE
    MaxCalls = 1
    MaxToggles = 1
CHECK_DEADLOCK FALSE
INVARIANT TypeOK
INVARIANT LockExcludes
INVARIANT StoresInBounds
VIEW ControlView
SYMMETRY Symmetry
