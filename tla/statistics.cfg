\* Cycles of the driver and of others, and windows that go round.
SPECIFICATION Spec
CONSTANTS
    Hz = 3
    AllocRateCount = 2
    ThresholdCount = 1
    CycleTimeCount = 2
    Amount = {1}
    MaxBytes = 2
    MaxCycles = 3
INVARIANT TypeOK
INVARIANT RateIsAllocated
INVARIANT AtMostOneBehind
INVARIANT CountsTellProgress
PROPERTY KeepsLatest
PROPERTY PaceIsCapped
\* the bounds are reached in the end
CHECK_DEADLOCK FALSE
