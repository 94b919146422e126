SPECIFICATION Spec
CONSTANTS
    NPROC = 3
    TimeQuantum = 100000
    NoContext = NoContext
    Garbage = Garbage
    MaxSteps = 2
INVARIANTS
    TypeOK
    UserModeIsCurrent
    KernelNotInterrupted
    InterruptedStateKept
PROPERTIES
    NoneSkipped
\* error() stops the kernel for good.
CHECK_DEADLOCK FALSE
