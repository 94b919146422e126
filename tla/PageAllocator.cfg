SPECIFICATION Spec
CONSTANTS
    NUM_PAGES = 4
    START_PAGE = 10
    MaxBatch = 3
INVARIANTS
    TypeOK
    StackBounds
    EveryPageOnce
PROPERTY
    ImplementsPool
\* error() stops the kernel for good.
CHECK_DEADLOCK FALSE
