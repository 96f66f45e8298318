\* Two contexts and two blocks; a reservation holds two small blocks, and
\* there is room for two reservations, or for one and no large block.
SPECIFICATION FairSpec
CONSTANTS
    Context = {c1, c2}
    Block = {b1, b2}
    NULL = NULL
    AllocSize = {1, 4}
    HeaderSize = 1
    PreReserveSize = 4
    PreReserveSkip = 3
    MaxSize = 8
INVARIANT TypeOK
INVARIANT EveryBlockOnce
INVARIANT UsageExact
INVARIANT WithinMaxSize
PROPERTY ImplementsObjectStore
PROPERTY PushersEnd
