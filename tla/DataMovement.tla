---------------------------- MODULE DataMovement ----------------------------
(***************************************************************************)
(* Data movement tasks: the task the mapper creates for every operand of a *)
(* compute task (Scheduler._construct_datamove_task and class              *)
(* DataMovementTask of parla/task_runtime.py), the dictionary of data      *)
(* blocks that tells it which tasks to wait for, and the moves themselves, *)
(* which are the steps of module Coherence on the arrays' protocol objects *)
(* and buffers.                                                            *)
(*                                                                         *)
(* A compute task holds its mutex while it runs, so nobody registers with  *)
(* it then (TaskDependencies has the steps of its end, which is one action *)
(* here).  A data movement task that is enqueued twice fails an assertion  *)
(* of run() in its second run, before it moves anything: only the first    *)
(* one is an action.  The policy chooses any device of the placement.      *)
(***************************************************************************)
EXTENDS Protocol

CONSTANTS Task,       \* compute tasks, all spawned
          Deps,       \* the dependencies each declares
          Ops,        \* its operands: input, output, inout, in this order
          Placement,  \* devices it may be mapped to
          Array,      \* PArrays
          Home,       \* the device an array is created on
          NoTask

\* an operand: array, part of it, and whether its move is one for a write
Operand == [array : Array, part : SUBSET Slice, write : BOOLEAN]

ASSUME DataMovementAssumption ==
    /\ IsFiniteSet(Task) /\ IsFiniteSet(Array) /\ NoTask \notin Task
    /\ Deps \in [Task -> SUBSET Task]
    /\ Ops \in [Task -> Seq(Operand)]
    /\ Placement \in [Task -> SUBSET Dev]
    /\ Home \in [Array -> Dev]

VARIABLES state,   \* where each compute task is
          dev,     \* the device it is mapped to
          block,   \* Scheduler._datablock_dict: tasks that use a data block
          mapper,  \* the task, operand and loop of _construct_datamove_task
          move,    \* data movement tasks, <<task, index of the operand>>
          waiting, \* <<task, move>>: move is in the task's _dependents
          coh, buf,\* the protocol object and the buffers of each array
          latest   \* how often each slice of an array has been written

vars == <<state, dev, block, mapper, move, waiting, coh, buf, latest>>

Move == UNION {{t} \X DOMAIN Ops[t] : t \in Task}
OperandOf(m) == Ops[m[1]][m[2]]
Block(o) == <<o.array, o.part>>
Parent(o) == <<o.array, Slice>>
Blocks == Array \X SUBSET Slice
MovesOf(t) == {m \in Move : m[1] = t}

NoMap == [pc |-> "idle", task |-> NoTask, op |-> 0, left |-> {}, mappable |-> {}]

Init ==
    /\ state = [t \in Task |-> "spawned"]
    /\ dev = [t \in Task |-> CHOOSE d \in Placement[t] : TRUE]
    /\ block = [b \in Blocks |-> {}]
    /\ mapper = NoMap
    /\ move = [m \in Move |-> [state |-> "none", blocking |-> 0]]
    /\ waiting = {}
    /\ coh = [a \in Array |-> NewProtocol(Home[a])]
    /\ buf = [a \in Array |-> NewBuffer(Home[a])]
    /\ latest = [a \in Array |-> [s \in Slice |-> 0]]

-----------------------------------------------------------------------------
(* The mapper.                                                             *)

\* a task whose dependencies are all assigned, which is read under their
\* mutexes, and the device the policy chooses
MapTask(t, d) ==
    /\ mapper.pc = "idle" /\ state[t] = "spawned" /\ d \in Placement[t]
    /\ \A p \in Deps[t] : state[p] \in {"assigned", "done"}
    /\ state' = [state EXCEPT ![t] = "mapping"]
    /\ dev' = [dev EXCEPT ![t] = d]
    /\ mapper' = [NoMap EXCEPT !.pc = "construct", !.task = t]
    /\ UNCHANGED <<block, move, waiting, coh, buf, latest>>

Current == <<mapper.task, mapper.op>>

\* _construct_datamove_task for the next operand: the task is created, and
\* the tasks that use its block are to be examined
Construct ==
    /\ mapper.pc = "construct" /\ mapper.op < Len(Ops[mapper.task])
    /\ LET m == <<mapper.task, mapper.op + 1>>
       IN  /\ move' = [move EXCEPT ![m].state = "created"]
           /\ mapper' = [mapper EXCEPT !.pc = "examine", !.op = @ + 1, !.left = block[Block(OperandOf(m))]]
    /\ UNCHANGED <<state, dev, block, waiting, coh, buf, latest>>

\* mutant: the new task waits for nobody
ExamineUnregistered(p) ==
    /\ mapper.pc = "examine" /\ p \in mapper.left /\ state[p] # "running"
    /\ mapper' = [mapper EXCEPT !.left = @ \ {p}]
    /\ UNCHANGED <<state, dev, block, move, waiting, coh, buf, latest>>

\* a task that uses the block: the new task registers with it, if the
\* compute task depends on it directly and it has not ended
Examine(p) ==
    /\ mapper.pc = "examine" /\ p \in mapper.left
    /\ mapper' = [mapper EXCEPT !.left = @ \ {p}]
    /\ IF p \in Deps[mapper.task] /\ state[p] # "done"
         THEN /\ state[p] # "running"
              /\ waiting' = waiting \cup {<<p, Current>>}
              /\ move' = [move EXCEPT ![Current].blocking = @ + 1]
         ELSE UNCHANGED <<waiting, move>>
    /\ UNCHANGED <<state, dev, block, coh, buf, latest>>

\* the compute task joins the users of the block, and of the array a
\* subarray belongs to; an unblocked data movement task is kept for later
Record ==
    /\ mapper.pc = "examine" /\ mapper.left = {}
    /\ block' = [b \in Blocks |-> IF b \in {Block(OperandOf(Current)), Parent(OperandOf(Current))}
                                    THEN block[b] \cup {mapper.task} ELSE block[b]]
    /\ mapper' = [mapper EXCEPT !.pc = "construct",
                    !.mappable = IF move[Current].blocking = 0 THEN @ \cup {Current} ELSE @]
    /\ UNCHANGED <<state, dev, move, waiting, coh, buf, latest>>

\* mutant: only the last one is enqueued
AssignLast ==
    /\ mapper.pc = "construct" /\ mapper.op = Len(Ops[mapper.task])
    /\ move' = [m \in Move |-> IF m \in mapper.mappable /\ m = Current /\ move[m].state = "created"
                                 THEN [move[m] EXCEPT !.state = "queued"] ELSE move[m]]
    /\ state' = [state EXCEPT ![mapper.task] = "assigned"]
    /\ mapper' = NoMap
    /\ UNCHANGED <<dev, block, waiting, coh, buf, latest>>

\* when all have been created, the unblocked ones are enqueued and the
\* compute task is set assigned
Assign ==
    /\ mapper.pc = "construct" /\ mapper.op = Len(Ops[mapper.task])
    /\ move' = [m \in Move |-> IF m \in mapper.mappable /\ move[m].state = "created"
                                 THEN [move[m] EXCEPT !.state = "queued"] ELSE move[m]]
    /\ state' = [state EXCEPT ![mapper.task] = "assigned"]
    /\ mapper' = NoMap
    /\ UNCHANGED <<dev, block, waiting, coh, buf, latest>>

-----------------------------------------------------------------------------
(* Moves and tasks.                                                        *)

\* DataMovementTask._execute_task: _auto_move, on the compute task's device
RunMove(m) ==
    LET o == OperandOf(m)
        d == dev[m[1]]
        result == IF o.write THEN Write(coh[o.array], d, o.part)
                             ELSE Read(coh[o.array], d, o.part)
        r == Perform(buf[o.array], result.ops)
    IN  /\ move[m].state = "queued"
        /\ move' = [move EXCEPT ![m].state = "done"]
        /\ coh' = [coh EXCEPT ![o.array] = result.c]
        /\ buf' = [buf EXCEPT ![o.array] = r.buf]
        /\ UNCHANGED <<state, dev, block, mapper, waiting, latest>>

\* nothing blocks the compute task: dependencies and moves are done
Start(t) ==
    /\ state[t] = "assigned"
    /\ \A p \in Deps[t] : state[p] = "done"
    /\ \A m \in MovesOf(t) : move[m].state = "done"
    /\ state' = [state EXCEPT ![t] = "running"]
    /\ UNCHANGED <<dev, block, mapper, move, waiting, coh, buf, latest>>

\* what the end of t does to a move registered with it
Notify(t, m) ==
    [move[m] EXCEPT !.blocking = @ - 1,
                    !.state = IF move[m].blocking = 1 /\ @ = "created" THEN "queued" ELSE @]

Written(t, a) == UNION {o.part : o \in {x \in ToSet(Ops[t]) : x.array = a /\ x.write}}

\* the body has written its operands; the run notifies the dependents
Finish(t) ==
    /\ state[t] = "running"
    /\ state' = [state EXCEPT ![t] = "done"]
    /\ latest' = [a \in Array |-> [s \in Slice |-> IF s \in Written(t, a) THEN latest[a][s] + 1 ELSE latest[a][s]]]
    /\ buf' = [a \in Array |-> [buf[a] EXCEPT !.data[dev[t]] =
                 [s \in Slice |-> IF s \in Written(t, a) THEN latest[a][s] + 1 ELSE @[s]]]]
    /\ move' = [m \in Move |-> IF <<t, m>> \in waiting THEN Notify(t, m) ELSE move[m]]
    /\ waiting' = {w \in waiting : w[1] # t}
    /\ UNCHANGED <<dev, block, mapper, coh>>

MapperStep == \/ \E t \in Task : \E d \in Placement[t] : MapTask(t, d)
              \/ Construct \/ Record \/ Assign
              \/ \E p \in Task : Examine(p)

TaskStep(t) == Start(t) \/ Finish(t) \/ \E m \in MovesOf(t) : RunMove(m)

Next == MapperStep \/ \E t \in Task : TaskStep(t)

Spec == Init /\ [][Next]_vars

-----------------------------------------------------------------------------
(* Properties.                                                             *)

\* A running task finds the last version of all its operands on its device:
\* each was moved there after the tasks it depends on had written it, and no
\* other task's move has taken it away since.
OperandsFresh ==
    \A t \in Task : state[t] = "running" =>
        \A o \in ToSet(Ops[t]) : \A s \in o.part : buf[o.array].data[dev[t]][s] = latest[o.array][s]

\* No data movement task is forgotten: it counts exactly the tasks whose end
\* will still notify it, and one that has not been enqueued when its compute
\* task is assigned is in the list of an unfinished one.
NoMoveForgotten ==
    \A m \in Move :
        LET awaited == {t \in Task : <<t, m>> \in waiting}
        IN  /\ move[m].blocking = Cardinality(awaited)
            /\ move[m].state = "created" /\ m[1] # mapper.task =>
                 \E t \in awaited : state[t] # "done"
=============================================================================
