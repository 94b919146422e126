SPECIFICATION Spec
CONSTANTS
    NUM_PTE = 2
    NumPages = 7
    Asked <- MCAsked
    Tables = {t1, t2}
    Permissions = {{"R", "X"}}
    Deallocates = TRUE
    StoresEntries = TRUE
PROPERTIES
    MappingsAreFresh
\* error() stops the kernel for good.
CHECK_DEADLOCK FALSE
