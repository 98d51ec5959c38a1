SPECIFICATION Spec
CONSTANTS
    A = A
    B = B
    C = C
    D = D
    X = X
    Y = Y
    Task = {A, B, C, D}
    Deps <- Fork
    Ops <- ForkOps
    Placement <- AnyGPU
    Array = {X, Y}
    Home <- AtCpu
    GPU = {0, 1}
    Slice = {s1}
    NoTask = NoTask
INVARIANTS
    OperandsFresh
    NoMoveForgotten
CHECK_DEADLOCK FALSE
