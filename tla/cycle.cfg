\* Two mutators and the driver; three retries are the least that suffice.
SPECIFICATION LifeSpec
CONSTANTS
    Mutator = {m1, m2}
    driver = driver
    Unit = {u1}
    RetryCount = 3
INVARIANT InvokedMeansServed
INVARIANT LifeTypeOK
INVARIANT ThreadsUseWhatExists
INVARIANT FreeNeverCrashes
PROPERTY RequestsKept
PROPERTY NullMeansNoGarbage
\* the heap is freed in the end
CHECK_DEADLOCK FALSE
