\* Heap: two threads on two addresses, the deleting destructor interposed.
\* Files: two threads, descriptors 0 (standard input) and 1, two types of them,
\* and one stream; a descriptor may be opened again under an unreported close
\* of a file the trace has.  Objects: three threads that share two
\* objects of at most three references.  Calls: five libraries, the functions
\* that pass more than one of them or call traced functions themselves.
CONSTANTS
    t1 = t1
    t2 = t2
    a1 = a1
    a2 = a2
    s1 = s1
    g1 = g1
    g2 = g2
    g3 = g3
    o1 = o1
    o2 = o2
    Threads <- MCThreads
    Addr <- MCAddr
    Interposed = TRUE
    MaxLeft = 3
    MaxRaced = 1
    MaxTransfers = 1
    Streams <- MCStreams
    Single = {"file"}
    Paired = {"socket"}
    LastFd = 1
    MaxFdCount = 2
    MaxFileLeft <- MCFileLeft
    MaxAstray = 1
    GThreads <- MCGThreads
    Objects <- MCObjects
    MaxRefs = 3
    Preload <- MCPreload
    Program = {"malloc", "open64", "strdup", "shm_open", "g_object_unref"}
    BacktraceCalls = {"malloc", "free", "open", "open64"}
    MaxCalls = 2
    MaxInner = 2
SPECIFICATION MCSpec
SYMMETRY MCSymmetry
INVARIANTS
    HeldIsReported
    ReportIsExact
    
    BacktraceIsNotTraced
    OriginalsKnown
CHECK_DEADLOCK FALSE
