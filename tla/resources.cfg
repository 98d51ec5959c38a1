SPECIFICATION Spec
CONSTANTS
    cpu = cpu
    gpu = gpu
    A = A
    B = B
    O = O
    t1 = t1
    t2 = t2
    t3 = t3
    t4 = t4
    Task = {t1, t2, t3, t4}
    Array = {A, B, O}
    Dev = {cpu, gpu}
    Capacity <- Machine
    Placement <- Where
    Need <- Wants
    Uses <- Reads
    Out <- Fills
    Awaiting = {t3}
    Home <- AtCpu
    Size <- Sizes
    Empty = {O}
    MapLimit = 3
    None = None
INVARIANTS
    TypeOK
    PoolExact
    MapperNeverWaits
PROPERTIES
    EveryTaskEnds
CHECK_DEADLOCK FALSE
