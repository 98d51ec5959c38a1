SPECIFICATION Spec
CONSTANTS
    main = main
    A = A
    B = B
    C = C
    Task = {A, B}
    Worker = {w1, w2}
    Main = main
    Parent <- AllMain
    cpu = cpu
    gpu = gpu
    Placement <- CpuOnly
    Dev = {cpu, gpu}
    Gpu = {gpu}
    NoTask = NoTask
    MapLimit = 3
    MappedLimit = 60
    ScheduleLimit = 4
    Colocatable = 2
INVARIANT
    NothingStranded
CHECK_DEADLOCK FALSE
