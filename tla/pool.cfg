SPECIFICATION Spec
CONSTANTS
    main = main
    A = A
    B = B
    C = C
    Task = {A, B, C}
    Worker = {w1, w2}
    Main = main
    Parent <- NestedParent
    cpu = cpu
    gpu = gpu
    Placement <- Mixed
    Dev = {cpu, gpu}
    Gpu = {gpu}
    NoTask = NoTask
    MapLimit = 1
    MappedLimit = 2
    ScheduleLimit = 1
    Colocatable = 0
INVARIANTS
    TypeOK
    PoolConsistent
    RunningCounted
    StopsAfterAll
    Colocated
PROPERTIES
    GivenRuns
    SpawnReturns
CHECK_DEADLOCK FALSE
