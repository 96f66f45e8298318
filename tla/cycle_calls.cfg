\* Two mutators and the driver wait for cycles, and the heap is freed.
SPECIFICATION LifeSpec
CONSTANTS
    Mutator = {m1, m2}
    driver = driver
    Unit = {u1}
    RetryCount = 1
PROPERTY CallsReturn
PROPERTY EverythingFreed
\* the heap is freed in the end
CHECK_DEADLOCK FALSE
