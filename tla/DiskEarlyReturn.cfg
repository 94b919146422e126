SPECIFICATION Spec
CONSTANTS
    NUM = 4
    IdxMod = 8
    Bufs = {b1, b2}
    Blocks = {k1, k2}
    Data = {d1, d2}
    NoBuf = NoBuf
    NoReq = NoReq
    MaxKeys = 1
    KeyedData = {d1, d2}
    IoErrors = FALSE
PROPERTIES
    ReturnsAfterTransfer
\* error() stops the kernel for good, and so does wfi with interrupts off.
CHECK_DEADLOCK FALSE
