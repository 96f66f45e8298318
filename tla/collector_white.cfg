\* A block allocated since the last cycle began.
SPECIFICATION BoundedSpec
CONSTANTS
    MaxOps = 3
    Obj = {o1, o2}
    NULL = NULL
    FieldCount <- OneField
    FlexCount <- NoFlex
    MarkQueueCap = 1
    DeferredCap = 1
    Thread = {t1}
    LocalBufferSize = 1
    Detaching = FALSE
    MaxCycles = 2
INVARIANT WhiteIsDead
SYMMETRY Alike
\* the cycle bound, and faults, end the behaviour
CHECK_DEADLOCK FALSE
