SPECIFICATION Spec
CONSTANTS
    NUM_PTE = 2
    NumPages = 9
    Asked <- MCAsked
    Tables = {t1, t2}
    Permissions = {{"R", "X"}}
    Deallocates = TRUE
    StoresEntries = FALSE
SYMMETRY TableSymmetry
INVARIANTS
    TypeOK
    EveryPageAccounted
PROPERTIES
    ImplementsAddressSpaces
\* error() stops the kernel for good.
CHECK_DEADLOCK FALSE
