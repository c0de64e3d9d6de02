SPECIFICATION FairSpec
CONSTANTS
    Threads = {t1, t2}
    BufferSize = 3
    Size <- MCSize
    MaxModules = 1
    MaxResources = 1
    Registers <- MCRegisters
    Attaching = {1}
    Buffering = TRUE
    Managed = FALSE
    StartEnabled = TRUE
    StoreHeap = TRUE
    Quiescent = TRUE
    OpenFailures = {}
    WriteMayFail = TRUE
    MaxCalls = 2
    MaxToggles = 2
CHECK_DEADLOCK FALSE
PROPERTY CallsReturn
