\* Five calls, so that dlist_sort merges segments of two and three; two back-
\* traces in one bucket; an emulation heap that three chunks can exceed,
\* at an aligned and at an odd address; three threads and room for two of
\* their contexts; logs of up to three frames.
CONSTANTS
    Calls = {"c1", "c2", "c3", "c4", "c5"}
    Ftraces = {"f1", "f2", "f3"}
    Refs = {"r1", "r2", "r3", "r4", "r5"}
    Buckets = {"b1"}
    Backtraces = {"deep", "top"}
    Hash <- MCHash
    Key <- MCKey
    Trimmed <- MCTrimmed
    NULL = NULL
    HeapSize = 56
    Bases = {64, 65}
    Sizes = {1, 9}
    Alignments = {8, 16}
    Ids = {1, 2, 3}
    Threads = {"t1", "t2", "t3"}
    RegistrySize = 3
    MaxSessions = 1
    Frames = {0, 14, 33, 40, 64}
    Slots = 2
    MaxMaps = 3
    MaxFrames = 3
SPECIFICATION MCSpec
INVARIANTS
    TableHoldsTheCalls
    ChunksIntact
    ContextsKeptApart
    ResolvedInPlace
PROPERTIES
    ImplementsCallLog
CHECK_DEADLOCK FALSE
