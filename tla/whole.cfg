SPECIFICATION Spec
CONSTANTS
    GPU = {0, 1, 2}
    Slice = {s1}
    WholeDev <- AllDev
    SliceDev <- NoDev
    EvictDev <- AllDev
    MaxPending = 2
    MaxWrites = 3
INVARIANTS
    TypeOK
    OperandsFresh
    OneModified
    NothingLost
    BufferMatches
