SPECIFICATION Spec
CONSTANTS
    main = main
    A = A
    B = B
    C = C
    D = D
    Task = {A, B, C}
    Main = main
    Parent <- FlatParent
    Deps <- LateDeps
    Awaits <- NoAwaits
    MayRaise = {}
    Workers = 2
INVARIANT
    StopsLast
CHECK_DEADLOCK FALSE
