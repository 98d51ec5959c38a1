------------------------ MODULE MCTaskDependencies ------------------------
(* Small task programs for TLC.                                            *)
EXTENDS TaskDependencies

CONSTANTS main, A, B, C, D

\* Main spawns A, B and C after A, and D after B and C, in any order
FlatParent == [t \in Task |-> main]
FlatDeps == [t \in Task |-> CASE t = A -> {} [] t = B -> {A} [] t = C -> {A} [] t = D -> {B, C}]
NoAwaits == [t \in Task |-> <<>>]

\* Main spawns A and D; A spawns B and C, awaits B, and then awaits B, C, D
NestParent == [t \in Task |-> IF t \in {B, C} THEN A ELSE main]
NoDeps == [t \in Task |-> {}]
NestAwaits == [t \in Task |-> IF t = A THEN <<{B}, {B, C, D}>> ELSE <<>>]

\* Main spawns A, B after A, and C
LateDeps == [t \in Task |-> IF t = B THEN {A} ELSE {}]

\* a hypothesis of the theorems
ASSUME ProgramStructured == Structured
=============================================================================
