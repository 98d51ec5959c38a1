---------------------------- MODULE MCResources ----------------------------
(* A small machine and program for TLC.                                    *)
EXTENDS Resources

CONSTANTS cpu, gpu, A, B, O, t1, t2, t3, t4

\* the CPU has room for all arrays and a task; the GPU has room for both
\* arrays and one task, or for A and two tasks
Machine == [d \in Dev |-> [memory |-> 7, vcus |-> 2]]

\* t1 may run anywhere, t2 and t4 want the GPU; t3 fills O on the CPU and awaits
Where == [t \in Task |-> CASE t = t1 -> {cpu, gpu} [] t \in {t2, t4} -> {gpu} [] OTHER -> {cpu}]
Wants == [t \in Task |-> IF t = t3 THEN [memory |-> 0, vcus |-> 0] ELSE [memory |-> 2, vcus |-> 1]]
Reads == [t \in Task |-> CASE t = t3 -> {} [] t = t4 -> {B} [] OTHER -> {A}]
Fills == [t \in Task |-> IF t = t3 THEN {O} ELSE {}]
AtCpu == [a \in Array |-> cpu]
Sizes == [a \in Array |-> IF a = O THEN 1 ELSE 2]

\* the hypothesis of the theorems
ASSUME MachineFits == Fitting
=============================================================================
