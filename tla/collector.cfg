\* One thread that comes and goes and two blocks: two operations in two cycles.
SPECIFICATION BoundedSpec
CONSTANTS
    MaxOps = 2
    Obj = {o1, o2}
    NULL = NULL
    FieldCount <- OneField
    FlexCount <- NoFlex
    MarkQueueCap = 1
    DeferredCap = 1
    Thread = {t1}
    LocalBufferSize = 2
    Detaching = TRUE
    MaxCycles = 2
INVARIANT TypeOK
INVARIANT SnapshotEdges
INVARIANT SweepKeepsSnapshot
INVARIANT SweepFreesGarbage
INVARIANT SurvivorsUnmarked
INVARIANT RemarkQueueWhole
INVARIANT MemorySafe
PROPERTY RootsFrozen
SYMMETRY Alike
\* the cycle bound, and faults, end the behaviour
CHECK_DEADLOCK FALSE
