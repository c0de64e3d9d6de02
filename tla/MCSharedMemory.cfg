\* POSIX: two threads, one descriptor, one address, two names whose hashes
\* collide at the end of the id range.  System V: the same threads, one
\* segment, two addresses and another process.
CONSTANTS
    t1 = t1
    t2 = t2
    f1 = f1
    a1 = a1
    n1 = n1
    n2 = n2
    Threads <- MCThreads
    Fds <- MCFds
    Addrs <- MCAddrs
    Names <- MCNames
    RawHash <- MCRawHash
    HashSize = 3
    MaxLeft = 2
    MaxAstray = 1
    Workers <- MCWorkers
    Segments = {"s1"}
    Places = {"p1", "p2"}
    MaxCalls = 2
SPECIFICATION MCSpec
SYMMETRY MCSymmetry
INVARIANTS
    AddressIsReported
    PosixReportIsExact
    ObjectsHaveOwnIds
    SegmentsAreReported
CHECK_DEADLOCK FALSE
