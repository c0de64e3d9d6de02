SPECIFICATION FairSpec
CONSTANTS
    Threads = {t1, t2}
    BufferSize = 3
    Size <- MCSize
    MaxModules = 1
    MaxResources = 1
    Registers <- MCRegisters
    Attaching = {}
    Buffering = TRUE
    Managed = FALSE
    StartEnabled = TRUE
    StoreHeap = TRUE
    Quiescent = TRUE
    OpenFailures = {"missing", "error"}
    WriteMayFail = FALSE
    MaxCalls = 2
    MaxToggles = 2
CHECK_DEADLOCK FALSE
INVARIANT StreamsWellFormed
INVARIANT DeclaredBeforeUse
INVARIANT CallOrder
INVARIANT NoLostCalls
INVARIANT TracingConsistent
PROPERTY CallsReturn
