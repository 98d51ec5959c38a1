--------------------------- MODULE MCDataMovement ---------------------------
(* A small program for TLC.                                                *)
EXTENDS DataMovement

CONSTANTS A, B, C, D, X, Y

Op(a, w) == [array |-> a, part |-> Slice, write |-> w]

\* A fills X and Y; B updates X and C updates Y; D reads both
Fork == [t \in Task |-> CASE t = A -> {} [] t = D -> {B, C} [] OTHER -> {A}]
ForkOps == [t \in Task |-> CASE t = A -> <<Op(X, TRUE), Op(Y, TRUE)>>
                             [] t = B -> <<Op(X, TRUE)>>
                             [] t = C -> <<Op(Y, TRUE)>>
                             [] OTHER -> <<Op(X, FALSE), Op(Y, FALSE)>>]
AnyGPU == [t \in Task |-> IF t = D THEN {-1} ELSE GPU]

AtCpu == [a \in Array |-> -1]
=============================================================================
