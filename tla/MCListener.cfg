SPECIFICATION FairSpec
CONSTANTS
    BufferSize = 4
    Size <- MCSize
    Writes <- MCWrites
    Layouts <- MCLayouts
    Buffered = TRUE
    Outputs = {"file", "postproc"}
    OpenMayFail = TRUE
    WriteMayFail = FALSE
    RequestStop = 2
    MaxInterrupts = 2
CHECK_DEADLOCK FALSE
INVARIANT Synchronized
INVARIANT BuffersFit
INVARIANT ForwardedInOrder
INVARIANT DrainedAtEnd
INVARIANT MapsAnnounced
PROPERTY Terminates
