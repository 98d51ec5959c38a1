SPECIFICATION Spec
CONSTANTS
    a = a
    b = b
    c = c
    d = d
    Task <- Tasks
    Gpu <- OnGpu
    Deps <- Chain
    Awaits <- Barrier
    MayRaise <- Raising
    Workers = 2
    Kernels = 1
INVARIANTS
    KernelsInOrder
    EndedAreQuiet
PROPERTIES
    EveryTaskEnds
