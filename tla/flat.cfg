SPECIFICATION Spec
CONSTANTS
    main = main
    A = A
    B = B
    C = C
    D = D
    Task = {A, B, C, D}
    Main = main
    Parent <- FlatParent
    Deps <- FlatDeps
    Awaits <- NoAwaits
    MayRaise = {A}
    Workers = 2
INVARIANTS
    TypeOK
    CountsPending
    StartsAfterDeps
    NoNewTaskForgotten
    NoDependentOfFinished
    
PROPERTY
    ImplementsTaskGraph
CHECK_DEADLOCK FALSE
