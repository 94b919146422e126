SPECIFICATION Spec
CONSTANTS
    BSIZE = 3
    DISKSIZE = 6
    PROC_START = 1
    PROC_END = 4
    Programs <- MCPrograms
    Space <- MCSpace
    MaxPrograms = 3
    ELFSIZE = 4
    NPROC = 2
    PGSIZE = 2
    VirtualPages = 6
    ADDRESSES = 72
    INTS = 36
    NumPages = 8
    Garbage <- MCGarbage
INVARIANTS
    TypeOK
    ProgramsInPlace
    RefusedExactlyForRoom
    LoadedAsBuilt
    StackAboveProgram
    LoadsWellFormed
\* error() stops the kernel for good.
CHECK_DEADLOCK FALSE
