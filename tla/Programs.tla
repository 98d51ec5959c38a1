------------------------------ MODULE Programs ------------------------------
(***************************************************************************)
(* Programs of the repository run by what the runtime promises (module     *)
(* TaskGraph): a task starts when its dependencies have ended, an await    *)
(* returns when the tasks have ended, and everything else may interleave.  *)
(* The reference is the serial program: each body executed at its spawn.   *)
(* A step of a body is atomic: two steps that conflict and may overlap may *)
(* also happen in either order.                                            *)
(***************************************************************************)
EXTENDS ProgramSteps, FiniteSets, TLC

CONSTANT Program    \* groups of programs, each the body of a main task

VARIABLES name,     \* the program that runs: a group and a name in it
          main,     \* its body
          expected, \* what its serial execution computes
          task,     \* the tasks spawned so far
          val       \* for each block written so far, the step that wrote it

vars == <<name, main, expected, task, val>>

Written(v, bs, t, i) == [b \in bs |-> <<t, i, b>>] @@ v
Tags(v, bs) == {IF b \in DOMAIN v THEN v[b] ELSE <<"unwritten", b>> : b \in bs}

\* the serial program: what each step finds, what is left at the end
RECURSIVE Serial(_, _, _, _)
Serial(t, body, i, st) ==
    IF i > Len(body) THEN st
    ELSE LET s == body[i]
             next == CASE s.op = "access" ->
                            [val |-> Written(st.val, s.serial.writes, t, i),
                             seen |-> (<<t, i>> :> Tags(st.val, s.serial.reads)) @@ st.seen]
                       [] s.op = "spawn" -> Serial(s.task, s.body, 1, st)
                       [] s.op = "await" -> st
         IN  Serial(t, body, i + 1, next)

Root == <<"main">>

\* a task is the step of its parent's body that has spawned it
RECURSIVE Decl(_)
Decl(t) ==
    IF t = Root THEN Spawn(Root, {}, {}, {}, main)
    ELSE Decl(task[t].parent).body[task[t].index]

Init ==
    /\ \E g \in DOMAIN Program : \E p \in DOMAIN Program[g] :
           /\ name = <<g, p>>
           /\ main = Program[g][p]
           /\ expected = Serial(Root, main, 1, [val |-> <<>>, seen |-> <<>>])
    /\ task = (Root :> [parent |-> Root, index |-> 0, pc |-> 1, at |-> 0])
    /\ val = <<>>

Done(t) == task[t].pc > Len(Decl(t).body)
Step(t) == Decl(t).body[task[t].pc]
Runs(t) == ~Done(t) /\ \A d \in Decl(t).deps : Done(d)
AtStep(t, op) == Runs(t) /\ Step(t).op = op
Advanced(t) == [task EXCEPT ![t].pc = @ + 1]

\* spawn: rejected when a dependency has no task, the ID has one or there is
\* no such device
Accepted(s) == s.deps \subseteq DOMAIN task /\ s.task \notin DOMAIN task /\ s.placed

SpawnTask(t) ==
    /\ AtStep(t, "spawn") /\ Accepted(Step(t))
    /\ task' = (Step(t).task :>
            [parent |-> t, index |-> task[t].pc, pc |-> 1, at |-> Cardinality(DOMAIN task)]) @@ Advanced(t)
    /\ UNCHANGED <<name, main, expected, val>>

DoAccess(t) ==
    /\ AtStep(t, "access")
    /\ val' = Written(val, Step(t).writes, t, task[t].pc)
    /\ task' = Advanced(t)
    /\ UNCHANGED <<name, main, expected>>

\* await: IDs without a task are left out
DoAwait(t) ==
    /\ AtStep(t, "await")
    /\ \A u \in Step(t).tasks \cap DOMAIN task : Done(u)
    /\ task' = Advanced(t)
    /\ UNCHANGED <<name, main, expected, val>>

AllDone == \A t \in DOMAIN task : Done(t)

\* the Parla context has been left
Ended == AllDone /\ UNCHANGED vars

Next == \/ \E t \in DOMAIN task : SpawnTask(t) \/ DoAccess(t) \/ DoAwait(t)
        \/ Ended

Spec == Init /\ [][Next]_vars

-----------------------------------------------------------------------------
(* Properties.                                                             *)

\* Every run of a program computes what its serial execution computes: a
\* step finds in each block it reads what the same step wrote that wrote it
\* in the serial execution, and at the end so does every block.  It fails as
\* soon as two conflicting accesses are ordered by no dependency or await.
SequentialResults ==
    /\ \A t \in DOMAIN task : AtStep(t, "access") =>
           Tags(val, Step(t).reads) = expected.seen[<<t, task[t].pc>>]
    /\ AllDone => val = expected.val

\* Every element a step reads has been written: the partitions a program
\* writes cover those it reads, whatever the rounding of their bounds, and no
\* result is used before its task has ended.
ReadsInitialised ==
    \A t \in DOMAIN task : AtStep(t, "access") => Step(t).reads \subseteq DOMAIN val

\* No spawn is rejected: whatever the order of the steps, the dependencies of
\* a new task have been spawned, its ID is free and its device exists.
SpawnsAccepted ==
    \A t \in DOMAIN task : AtStep(t, "spawn") => Accepted(Step(t))

Operands(t) == Decl(t).ins \cup Decl(t).inouts
Conflicts(t, u) == (Operands(t) \cap Decl(u).inouts) \cup (Decl(t).inouts \cap Operands(u))

\* The declared operands are moved in the right order.  The runtime delays
\* the move of an operand only until the direct dependencies that use it have
\* ended (module DataMovement); by then all tasks spawned earlier that conflict
\* on the operand have ended, the ones that wait for this task apart.
MovesInOrder ==
    \A t \in DOMAIN task : \A b \in Operands(t) :
        (\A d \in Decl(t).deps : b \in Operands(d) => Done(d)) =>
            \A u \in DOMAIN task :
                task[u].at < task[t].at /\ b \in Conflicts(t, u) => Done(u) \/ u = task[t].parent
=============================================================================
