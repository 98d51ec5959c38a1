SPECIFICATION Spec
CONSTANTS
    GPU = {0, 1}
    Slice = {s1, s2}
    WholeDev = {0}
    SliceDev = {1}
    EvictDev <- NoDev
    MaxPending = 1
    MaxWrites = 2
INVARIANTS
    OperandsFresh
