\* Two threads that operate without a pause, one block.
SPECIFICATION FairSpec
CONSTANTS
    Obj = {o1}
    NULL = NULL
    FieldCount <- OneField
    FlexCount <- NoFlex
    MarkQueueCap = 1
    DeferredCap = 1
    Thread = {t1, t2}
    LocalBufferSize = 1
    Detaching = FALSE
    MaxCycles = 1
INVARIANT MemorySafe
PROPERTY CycleEnds
\* the cycle bound, and faults, end the behaviour
CHECK_DEADLOCK FALSE
