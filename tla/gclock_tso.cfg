\* x86-TSO, mutual exclusion.
SPECIFICATION Spec
CONSTANTS
    Mutators = {m1}
    StoreBufferSize = 2
INVARIANT Exclusion
