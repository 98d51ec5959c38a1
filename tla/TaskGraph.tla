------------------------------ MODULE TaskGraph ------------------------------
(***************************************************************************)
(* What Parla promises the author of a task program, independently of how  *)
(* parla/task_runtime.py keeps the promise:                                *)
(*   - a task's body starts only after the bodies of all the tasks it was  *)
(*     spawned with as dependencies have ended                             *)
(*     (tutorial/1_control_flow/README.md, "Task Dependencies");           *)
(*   - a body that awaits a barrier gives up its worker, and goes on only  *)
(*     after the bodies of all the tasks of the barrier have ended         *)
(*     (same file, "Barriers");                                            *)
(*   - a body ends once.                                                   *)
(* Whether a body ended normally or with an exception makes no difference: *)
(* both are terminal for the tasks that wait.                              *)
(***************************************************************************)
CONSTANTS Task,     \* the tasks of the program
          Deps      \* Deps[t]: the dependencies t is spawned with

VARIABLES status,   \* where the body of each task is
          barrier   \* the tasks the last barrier of a body waits for

vars == <<status, barrier>>

Status == {"unspawned", "spawned", "executing", "suspended", "finished"}

TypeOK == /\ status \in [Task -> Status]
          /\ barrier \in [Task -> SUBSET Task]

Finished(S) == \A d \in S : status[d] = "finished"

Init == /\ status = [t \in Task |-> "unspawned"]
        /\ barrier = [t \in Task |-> {}]

Move(t, from, to) == /\ status[t] = from
                     /\ status' = [status EXCEPT ![t] = to]

Spawn(t) == Move(t, "unspawned", "spawned") /\ UNCHANGED barrier

Start(t) == /\ Finished(Deps[t])
            /\ Move(t, "spawned", "executing")
            /\ UNCHANGED barrier

Suspend(t) == /\ Move(t, "executing", "suspended")
              /\ \E S \in SUBSET Task : barrier' = [barrier EXCEPT ![t] = S]

Resume(t) == /\ Finished(barrier[t])
             /\ Move(t, "suspended", "executing")
             /\ UNCHANGED barrier

Finish(t) == Move(t, "executing", "finished") /\ UNCHANGED barrier

Next == \E t \in Task : \/ Spawn(t)
                        \/ Start(t)
                        \/ Suspend(t)
                        \/ Resume(t)
                        \/ Finish(t)

Spec == Init /\ [][Next]_vars
=============================================================================
