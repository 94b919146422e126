SPECIFICATION Spec
CONSTANTS
    NBUF = 3
    Blocks = {0, k1, k2, k3}
    Data = {zero, d}
    Zero = zero
    Users = {u1, u2, u3, u4}
    None = None
SYMMETRY CacheSymmetry
INVARIANTS
    TypeOK
    UniqueCopy
    CountsHolders
    Coherent
PROPERTY
    ImplementsStore
\* error() stops the kernel for good.
CHECK_DEADLOCK FALSE
