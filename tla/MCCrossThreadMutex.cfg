\* Three threads nesting up to the largest depth the counter can count.
SPECIFICATION BoundedSpec
CONSTANTS
    Thread = {t1, t2, t3}
    NoThread = NoThread
    MaxDepth = 3
    IndexSize = 3
    MaxCalls = 4
INVARIANTS
    ReentryNeverBlocks
    UnlockedAsOftenAsLocked
PROPERTIES
    ImplementsRecursiveMutex
    EveryCallReturns
\* The workload is finite: when every thread has made its calls nothing is left to do.
CHECK_DEADLOCK FALSE
