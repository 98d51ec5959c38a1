SPECIFICATION Spec
CONSTANTS
    GPU = {0, 1}
    Slice = {s1, s2}
    WholeDev <- NoDev
    SliceDev <- OnlyGPUs
    EvictDev <- OnlyGPUs
    MaxPending = 1
    MaxWrites = 2
INVARIANTS
    OperandsFresh
    NothingLost
    NeverRaises
