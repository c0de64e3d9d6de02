\* Every trace of up to three calls over one address, run through every option
\* set of MCPostProc.
CONSTANTS
    TypeName <- MCTypeName
    RefCounted = {"gobject"}
    Ids = {1}
    Contexts = {{}, {1}}
    Texts <- MCTexts
    ArgLists <- MCArgLists
    Backtraces <- MCBacktraces
    Options <- MCOptions
    MaxCalls = 3
    MaxMarked = 1
    Day = 2
SPECIFICATION Spec
INVARIANTS
    TextReadsBack
    LeakReportIsExact
    TotalsAreOfTheirType
CHECK_DEADLOCK FALSE
