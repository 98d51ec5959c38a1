---------------------------- MODULE MCScheduler ----------------------------
(* Small programs and machines for TLC.                                    *)
EXTENDS Scheduler

CONSTANTS main, A, B, C, cpu, gpu

\* Main spawns A and B; the body of A spawns C
NestedParent == [t \in Task |-> IF t = C THEN A ELSE main]
AllMain == [t \in Task |-> main]

\* C may run anywhere, the others want a GPU
Mixed == [t \in Task |-> IF t = C THEN {cpu, gpu} ELSE {gpu}]
CpuOnly == [t \in Task |-> {cpu}]
=============================================================================
