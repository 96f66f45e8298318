\* Every graph on three blocks, with arrays no longer than the mark queue.
SPECIFICATION FairSpec
CONSTANTS
    a = a
    b = b
    c = c
    Obj = {a, b, c}
    NULL = NULL
    FieldCount <- ChainFieldCount
    FlexCount <- ChainFlexCount
    MarkQueueCap = 1
    DeferredCap = 2
INVARIANT TypeOK
INVARIANT DeferredResumes
INVARIANT MarksReachable
INVARIANT MarksOnlyReachable
PROPERTY MarkingEnds
\* marking really ends
CHECK_DEADLOCK FALSE
