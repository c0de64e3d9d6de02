\* Three libraries, the main thread and another one.
CONSTANTS
    Threads = {"main", "other"}
    MainThread = "main"
    Libraries <- MCLibraries
    Called = {"file", "memory"}
    MaxModules = 6
SPECIFICATION Spec
INVARIANTS
    TracingConsistent
    CallsDeclared
PROPERTIES
    EventuallyStarted
CHECK_DEADLOCK FALSE
