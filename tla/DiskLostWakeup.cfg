SPECIFICATION FairSpec
CONSTANTS
    NUM = 4
    IdxMod = 8
    Bufs = {b1, b2}
    Blocks = {k1, k2}
    Data = {d1, d2}
    NoBuf = NoBuf
    NoReq = NoReq
    MaxKeys = 0
    KeyedData = {}
    IoErrors = FALSE
PROPERTIES
    RequestReturns
\* error() stops the kernel for good, and so does wfi with interrupts off.
CHECK_DEADLOCK FALSE
