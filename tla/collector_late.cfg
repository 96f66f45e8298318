\* A reference lost after marking.
SPECIFICATION Spec
CONSTANTS
    Obj = {o1, o2}
    NULL = NULL
    FieldCount <- OneField
    FlexCount <- NoFlex
    MarkQueueCap = 1
    DeferredCap = 1
    Thread = {t1}
    LocalBufferSize = 1
    Detaching = FALSE
    MaxCycles = 1
INVARIANT NoDangling
SYMMETRY Alike
\* the cycle bound, and faults, end the behaviour
CHECK_DEADLOCK FALSE
