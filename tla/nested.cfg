SPECIFICATION Spec
CONSTANTS
    main = main
    A = A
    B = B
    C = C
    D = D
    Task = {A, B, C, D}
    Main = main
    Parent <- NestParent
    Deps <- NoDeps
    Awaits <- NestAwaits
    MayRaise = {B}
    Workers = 2
INVARIANTS
    QueuedOnce
    StopsLast
    NoTaskForgotten
    NoMutexCycle
PROPERTY
    ImplementsTaskGraph
