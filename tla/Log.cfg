SPECIFICATION Spec
CONSTANTS
    DISKSIZE = 4
    BSIZE = 2
    NoBlock = NoBlock
    NoCall = NoCall
    MemSize = 4
    Unmapped = {2}
    LOGSTART = 2
    LogLengths = {0, 1, 3, 4}
    MaxLogs = 2
    MaxBoots = 2
INVARIANTS
    LogTypeOK
    MovedExactly
    WritesArePrefixes
    RefusesExactlyImpossible
    LogIsDurable
    LogRefusesOverflowOnly
    ExtractsFirstBlock
\* error() stops the kernel for good.
CHECK_DEADLOCK FALSE
