SPECIFICATION Spec
CONSTANTS
    NPROC = 3
    TimeQuantum = 100000
    NoContext = NoContext
    Garbage = Garbage
    MaxSteps = 2
INVARIANTS
    SchedulerFindsProcess
\* error() stops the kernel for good.
CHECK_DEADLOCK FALSE
