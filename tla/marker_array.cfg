\* An array longer than the mark queue.
SPECIFICATION FairSpec
CONSTANTS
    a = a
    b = b
    c = c
    Obj = {a, b, c}
    NULL = NULL
    FieldCount <- ArrayFieldCount
    FlexCount <- ArrayFlexCount
    MarkQueueCap = 1
    DeferredCap = 3
PROPERTY MarkingEnds
\* marking really ends
CHECK_DEADLOCK FALSE
