------------------------ MODULE DataMovement_proofs ------------------------
(***************************************************************************)
(* No data movement task is forgotten, for every program of tasks over     *)
(* PArrays: the counter of each is the number of tasks that will notify    *)
(* it, and one that has not been enqueued is waited for, or in the hands   *)
(* of the mapper.  And what a task finds in its operands: the last version *)
(* of each, as long as no data movement task is enqueued before the mapper *)
(* has registered it with all the tasks it must wait for.                  *)
(***************************************************************************)
EXTENDS DataMovement, Protocol_proofs

TaskState == {"spawned", "mapping", "assigned", "running", "done"}
MoveState == {"none", "created", "queued", "done"}
AwaitedBy(m) == {t \in Task : <<t, m>> \in waiting}

TypeOK ==
    /\ state \in [Task -> TaskState]
    /\ block \in [Blocks -> SUBSET Task]
    /\ mapper \in [pc : {"idle", "construct", "examine"}, task : Task \cup {NoTask}, op : Nat,
                   left : SUBSET Task, mappable : SUBSET Move]
    /\ move \in [Move -> [state : MoveState, blocking : Nat]]
    /\ waiting \in SUBSET (Task \X Move)

\* where the mapper is
MapperPlace ==
    /\ mapper.pc = "idle" => mapper.task = NoTask
    /\ mapper.pc # "idle" => mapper.task \in Task /\ state[mapper.task] = "mapping"
    /\ mapper.pc = "examine" => mapper.op \in DOMAIN Ops[mapper.task]
    /\ mapper.pc = "examine" => \A p \in mapper.left : <<p, Current>> \notin waiting

\* who is registered: with a task that has not ended, after it was created
Registered ==
    \A t \in Task, m \in Move : <<t, m>> \in waiting =>
        /\ state[t] # "done" /\ state[m[1]] # "spawned"
        /\ m[1] = mapper.task => m[2] <= mapper.op

CounterExact == \A m \in Move : move[m].blocking = Cardinality(AwaitedBy(m))

\* what becomes of a data movement task that has not been enqueued
CreatedKept ==
    \A m \in Move : move[m].state = "created" =>
        \/ AwaitedBy(m) # {}
        \/ m[1] = mapper.task /\ m \in mapper.mappable
        \/ m[1] = mapper.task /\ mapper.pc = "examine" /\ m = Current

IInv == TypeOK /\ MapperPlace /\ Registered /\ CounterExact /\ CreatedKept

-----------------------------------------------------------------------------

LEMMA AwaitedFinite == ASSUME NEW m PROVE IsFiniteSet(AwaitedBy(m))
  <1>1. AwaitedBy(m) \subseteq Task
    BY DEF AwaitedBy
  <1> QED BY <1>1, FS_Subset, DataMovementAssumption

\* a counter is 0 exactly when nobody is waited for
LEMMA ZeroIsNobody ==
    ASSUME IInv, NEW m \in Move
    PROVE  move[m].blocking = 0 <=> AwaitedBy(m) = {}
  <1>1. move[m].blocking = Cardinality(AwaitedBy(m))
    BY DEF IInv, CounterExact
  <1> QED BY <1>1, AwaitedFinite, FS_EmptySet

LEMMA MoveShape ==
    /\ \A m \in Move : m[1] \in Task /\ m[2] \in DOMAIN Ops[m[1]] /\ m = <<m[1], m[2]>>
    /\ \A t \in Task : \A i \in DOMAIN Ops[t] : <<t, i>> \in Move
    /\ \A t \in Task : DOMAIN Ops[t] = 1 .. Len(Ops[t]) /\ Len(Ops[t]) \in Nat
  BY DataMovementAssumption DEF Move

LEMMA InitIInv == Init => IInv
  <1> SUFFICES ASSUME Init PROVE IInv
    OBVIOUS
  <1>1. \A m : AwaitedBy(m) = {}
    BY DEF Init, AwaitedBy
  <1>2. TypeOK
    BY DEF Init, TypeOK, TaskState, MoveState, NoMap
  <1>3. MapperPlace /\ Registered
    BY DEF Init, MapperPlace, Registered, NoMap
  <1>4. CounterExact /\ CreatedKept
    BY <1>1, FS_EmptySet DEF Init, CounterExact, CreatedKept
  <1> QED BY <1>2, <1>3, <1>4 DEF IInv
-----------------------------------------------------------------------------
(* The mapper's steps.                                                     *)

\* while neither waiting nor the counters change, nobody is awaited anew
LEMMA KeepAwaited ==
    ASSUME waiting' = waiting
    PROVE  \A m : AwaitedBy(m)' = AwaitedBy(m)
  BY DEF AwaitedBy

LEMMA MapTaskKeeps ==
    ASSUME IInv, NEW t \in Task, NEW d \in Placement[t], MapTask(t, d)
    PROVE  IInv'
  <1> USE DEF IInv
  <1>1. TypeOK'
    BY DEF TypeOK, MapTask, TaskState, NoMap
  <1>2. MapperPlace'
    BY DEF TypeOK, MapTask, MapperPlace, NoMap, TaskState
  <1>3. Registered'
    BY MoveShape DEF TypeOK, MapTask, Registered, NoMap
  <1>4. CounterExact' /\ (\A m \in Move : AwaitedBy(m)' = AwaitedBy(m) /\ move'[m] = move[m])
    BY KeepAwaited DEF MapTask, CounterExact
  <1>5. mapper.task \notin Task
    BY DataMovementAssumption DEF MapTask, MapperPlace
  <1>6. CreatedKept'
    BY <1>4, <1>5, MoveShape DEF CreatedKept
  <1> QED BY <1>1, <1>2, <1>3, <1>4, <1>6

LEMMA ConstructKeeps ==
    ASSUME IInv, Construct
    PROVE  IInv'
  <1> USE DEF IInv
  <1> DEFINE new == <<mapper.task, mapper.op + 1>>
  <1>1. mapper.task \in Task /\ mapper.op + 1 \in DOMAIN Ops[mapper.task] /\ new \in Move /\ mapper.op \in Nat
    BY MoveShape DEF Construct, MapperPlace, TypeOK
  <1>2. OperandOf(new) \in Operand
    BY <1>1, DataMovementAssumption DEF OperandOf
  <1>3. Block(OperandOf(new)) \in Blocks
    BY <1>2 DEF Operand, Block, Blocks
  <1>4. block[Block(OperandOf(new))] \in SUBSET Task
    BY <1>3 DEF TypeOK
  <1>5. PICK l \in SUBSET Task :
        /\ mapper' = [mapper EXCEPT !.pc = "examine", !.op = @ + 1, !.left = l]
        /\ move' = [move EXCEPT ![new].state = "created"]
        /\ UNCHANGED <<state, block, waiting>> /\ mapper.pc = "construct"
    BY <1>4 DEF Construct
  <1>6. TypeOK'
    <2>1. mapper' \in [pc : {"idle", "construct", "examine"}, task : Task \cup {NoTask}, op : Nat,
                       left : SUBSET Task, mappable : SUBSET Move]
      <3>1. mapper' = [pc |-> "examine", task |-> mapper.task, op |-> mapper.op + 1, left |-> l,
                       mappable |-> mapper.mappable]
        BY <1>5 DEF TypeOK
      <3>2. mapper.op + 1 \in Nat /\ mapper.mappable \in SUBSET Move
        BY <1>1 DEF TypeOK
      <3> QED BY <1>1, <3>1, <3>2
    <2>2. move' \in [Move -> [state : MoveState, blocking : Nat]]
      BY <1>1, <1>5 DEF TypeOK, MoveState
    <2> QED BY <1>5, <2>1, <2>2 DEF TypeOK
  <1>7. mapper'.task = mapper.task /\ mapper'.op = mapper.op + 1 /\ mapper'.pc = "examine"
        /\ mapper'.mappable = mapper.mappable /\ Current' = new
    BY <1>5 DEF Current, TypeOK
  <1>8. \A p \in Task : <<p, new>> \notin waiting
    BY <1>1, SMT DEF Registered
  <1>9. MapperPlace'
    BY <1>1, <1>5, <1>7, <1>8 DEF MapperPlace, TypeOK
  <1>10. Registered'
    BY <1>1, <1>5, <1>7, MoveShape, SMT DEF Registered
  <1>11. \A m \in Move : AwaitedBy(m)' = AwaitedBy(m)
    BY <1>5, KeepAwaited
  <1>12. \A m \in Move : move'[m].blocking = move[m].blocking /\ (m # new => move'[m] = move[m])
    BY <1>1, <1>5 DEF TypeOK
  <1>13. CounterExact'
    BY <1>11, <1>12 DEF CounterExact
  <1>14. CreatedKept'
    BY <1>1, <1>5, <1>7, <1>11, <1>12 DEF CreatedKept
  <1> QED BY <1>6, <1>9, <1>10, <1>13, <1>14

LEMMA ExamineKeeps ==
    ASSUME IInv, NEW p \in Task, Examine(p)
    PROVE  IInv'
  <1> USE DEF IInv
  <1>1. /\ mapper.pc = "examine" /\ p \in mapper.left /\ Current \in Move /\ <<p, Current>> \notin waiting
        /\ mapper' = [mapper EXCEPT !.left = @ \ {p}] /\ UNCHANGED <<state, block>>
        /\ mapper.task \in Task /\ state[mapper.task] = "mapping"
    BY MoveShape DEF Examine, MapperPlace, Current
  <1>2. /\ mapper'.pc = mapper.pc /\ mapper'.task = mapper.task /\ mapper'.op = mapper.op
        /\ mapper'.mappable = mapper.mappable /\ mapper'.left = mapper.left \ {p} /\ Current' = Current
    BY <1>1 DEF Current, TypeOK
  <1> PICK c \in Move : c = Current
    BY <1>1
  <1>3. CASE p \in Deps[mapper.task] /\ state[p] # "done"
    <2>1. waiting' = waiting \cup {<<p, Current>>} /\ move' = [move EXCEPT ![Current].blocking = @ + 1]
      BY <1>3 DEF Examine
    <2>2. TypeOK'
      BY <1>1, <2>1 DEF TypeOK
    <2>3. MapperPlace'
      BY <1>1, <1>2, <2>1 DEF MapperPlace
    <2>4. Registered'
      BY <1>1, <1>2, <1>3, <2>1, SMT DEF Registered, Current, TypeOK
    <2>5. AwaitedBy(c)' = AwaitedBy(c) \cup {p} /\ p \notin AwaitedBy(c)
      BY <1>1, <1>2, <2>1 DEF AwaitedBy
    <2>6. \A m \in Move \ {c} : AwaitedBy(m)' = AwaitedBy(m) /\ move'[m] = move[m]
      BY <2>1 DEF AwaitedBy, TypeOK
    <2>7. move'[c].blocking = move[c].blocking + 1 /\ move'[c].state = move[c].state
      BY <1>1, <2>1 DEF TypeOK
    <2>8. Cardinality(AwaitedBy(c) \cup {p}) = Cardinality(AwaitedBy(c)) + 1
      BY <2>5, AwaitedFinite, FS_AddElement
    <2>9. move'[c].blocking = Cardinality(AwaitedBy(c)')
      BY <2>5, <2>7, <2>8 DEF CounterExact
    <2>10. CounterExact'
      BY <2>6, <2>9 DEF CounterExact
    <2>11. CreatedKept'
      BY <1>1, <1>2, <2>5, <2>6, <2>7 DEF CreatedKept
    <2> QED BY <2>2, <2>3, <2>4, <2>10, <2>11
  <1>4. CASE ~(p \in Deps[mapper.task] /\ state[p] # "done")
    <2>1. waiting' = waiting /\ move' = move
      BY <1>4 DEF Examine
    <2>2. TypeOK' /\ MapperPlace' /\ Registered'
      BY <1>1, <1>2, <2>1 DEF TypeOK, MapperPlace, Registered
    <2>3. CounterExact' /\ CreatedKept'
      BY <1>2, <2>1, KeepAwaited DEF CounterExact, CreatedKept
    <2> QED BY <2>2, <2>3
  <1> QED BY <1>3, <1>4

LEMMA RecordKeeps ==
    ASSUME IInv, Record
    PROVE  IInv'
  <1> USE DEF IInv
  <1>1. /\ mapper.pc = "examine" /\ Current \in Move /\ mapper.task \in Task /\ state[mapper.task] = "mapping"
        /\ mapper.op \in Nat /\ UNCHANGED <<state, move, waiting>>
    BY MoveShape DEF Record, MapperPlace, Current, TypeOK
  <1>2. PICK k \in SUBSET Move :
        /\ k = IF move[Current].blocking = 0 THEN mapper.mappable \cup {Current} ELSE mapper.mappable
        /\ mapper' = [mapper EXCEPT !.pc = "construct", !.mappable = k]
    BY <1>1 DEF Record, TypeOK
  <1>3. /\ mapper'.pc = "construct" /\ mapper'.task = mapper.task /\ mapper'.op = mapper.op
        /\ mapper'.left = mapper.left /\ mapper'.mappable = k
    BY <1>2 DEF TypeOK
  <1>4. TypeOK'
    <2>1. block' \in [Blocks -> SUBSET Task]
      BY <1>1 DEF Record, TypeOK
    <2>2. mapper' = [pc |-> "construct", task |-> mapper.task, op |-> mapper.op, left |-> mapper.left,
                     mappable |-> k]
      BY <1>2 DEF TypeOK
    <2>3. mapper.left \in SUBSET Task
      BY DEF TypeOK
    <2>4. mapper' \in [pc : {"idle", "construct", "examine"}, task : Task \cup {NoTask}, op : Nat,
                       left : SUBSET Task, mappable : SUBSET Move]
      BY <1>1, <2>2, <2>3
    <2> QED BY <1>1, <2>1, <2>4 DEF TypeOK
  <1>5. MapperPlace' /\ Registered'
    BY <1>1, <1>3 DEF MapperPlace, Registered
  <1>6. \A m \in Move : AwaitedBy(m)' = AwaitedBy(m) /\ move'[m] = move[m]
    BY <1>1, KeepAwaited
  <1>7. CounterExact'
    BY <1>6 DEF CounterExact
  <1>8. Current \in k \/ AwaitedBy(Current) # {}
    BY <1>1, <1>2, ZeroIsNobody
  <1>9. CreatedKept'
    <2> SUFFICES ASSUME NEW m \in Move, move[m].state = "created", AwaitedBy(m) = {}
                 PROVE  m[1] = mapper.task /\ m \in k
      BY <1>3, <1>6 DEF CreatedKept
    <2> QED BY <1>2, <1>8 DEF CreatedKept
  <1> QED BY <1>4, <1>5, <1>7, <1>9

LEMMA AssignKeeps ==
    ASSUME IInv, Assign
    PROVE  IInv'
  <1> USE DEF IInv
  <1>1. /\ mapper.pc = "construct" /\ mapper.task \in Task /\ mapper' = NoMap
        /\ state' = [state EXCEPT ![mapper.task] = "assigned"] /\ UNCHANGED <<block, waiting>>
    BY DEF Assign, MapperPlace
  <1>2. \A m \in Move : /\ move'[m].blocking = move[m].blocking
                        /\ m \in mapper.mappable /\ move[m].state = "created" => move'[m].state = "queued"
                        /\ m \notin mapper.mappable => move'[m] = move[m]
                        /\ move[m].state # "created" => move'[m] = move[m]
    BY DEF Assign, TypeOK
  <1>3. TypeOK'
    <2>1. move' \in [Move -> [state : MoveState, blocking : Nat]]
      BY DEF Assign, TypeOK, MoveState
    <2>2. state' \in [Task -> TaskState]
      BY <1>1 DEF TypeOK, TaskState
    <2> QED BY <1>1, <2>1, <2>2 DEF TypeOK, NoMap
  <1>4. MapperPlace'
    BY <1>1 DEF MapperPlace, NoMap
  <1>5. \A t \in Task : (state'[t] = "done" <=> state[t] = "done") /\ (state'[t] = "spawned" => state[t] = "spawned")
    BY <1>1 DEF TypeOK, MapperPlace
  <1>6. Registered'
    BY <1>1, <1>5, MoveShape, DataMovementAssumption DEF Registered, NoMap
  <1>7. \A m \in Move : AwaitedBy(m)' = AwaitedBy(m)
    BY <1>1, KeepAwaited
  <1>8. CounterExact' /\ CreatedKept'
    BY <1>1, <1>2, <1>7 DEF CounterExact, CreatedKept
  <1> QED BY <1>3, <1>4, <1>6, <1>8

-----------------------------------------------------------------------------
(* The steps of moves and tasks.                                           *)

LEMMA RunMoveKeeps ==
    ASSUME IInv, NEW n \in Move, RunMove(n)
    PROVE  IInv'
  <1> USE DEF IInv
  <1>1. move' = [move EXCEPT ![n].state = "done"] /\ UNCHANGED <<state, block, mapper, waiting>>
    BY DEF RunMove
  <1>2. TypeOK'
    BY <1>1 DEF TypeOK, MoveState
  <1>3. MapperPlace' /\ Registered'
    BY <1>1 DEF MapperPlace, Registered, Current
  <1>4. \A m \in Move : /\ AwaitedBy(m)' = AwaitedBy(m) /\ move'[m].blocking = move[m].blocking
                        /\ move'[m].state = "created" => move[m].state = "created"
    BY <1>1, KeepAwaited DEF TypeOK
  <1>5. CounterExact'
    BY <1>4 DEF CounterExact
  <1>6. CreatedKept'
    BY <1>1, <1>4 DEF CreatedKept, Current
  <1> QED BY <1>2, <1>3, <1>5, <1>6

LEMMA StartKeeps ==
    ASSUME IInv, NEW t \in Task, Start(t)
    PROVE  IInv'
  <1> USE DEF IInv
  <1>1. /\ state[t] = "assigned" /\ state' = [state EXCEPT ![t] = "running"]
        /\ UNCHANGED <<block, mapper, move, waiting>>
    BY DEF Start
  <1>2. TypeOK'
    BY <1>1 DEF TypeOK, TaskState
  <1>3. MapperPlace'
    BY <1>1 DEF TypeOK, MapperPlace, Current
  <1>4. \A u \in Task : (state'[u] = "done" => state[u] = "done") /\ (state'[u] = "spawned" => state[u] = "spawned")
    BY <1>1 DEF TypeOK
  <1>5. Registered'
    BY <1>1, <1>4, MoveShape DEF Registered
  <1>6. CounterExact' /\ CreatedKept'
    BY <1>1, KeepAwaited DEF CounterExact, CreatedKept, Current
  <1> QED BY <1>2, <1>3, <1>5, <1>6

LEMMA FinishKeeps ==
    ASSUME IInv, NEW t \in Task, Finish(t)
    PROVE  IInv'
  <1> USE DEF IInv
  <1>1. /\ state[t] = "running" /\ state' = [state EXCEPT ![t] = "done"]
        /\ waiting' = {w \in waiting : w[1] # t} /\ UNCHANGED <<block, mapper>>
        /\ move' = [m \in Move |-> IF <<t, m>> \in waiting THEN Notify(t, m) ELSE move[m]]
    BY DEF Finish
  <1>2. waiting' \subseteq waiting /\ \A u \in Task, m \in Move : <<u, m>> \in waiting' <=> <<u, m>> \in waiting /\ u # t
    BY <1>1
  <1>3. \A m \in Move : <<t, m>> \notin waiting => move'[m] = move[m] /\ AwaitedBy(m)' = AwaitedBy(m)
    BY <1>1, <1>2 DEF AwaitedBy
  <1>4. ASSUME NEW m \in Move, <<t, m>> \in waiting
        PROVE  /\ move'[m] \in [state : MoveState, blocking : Nat]
               /\ move'[m].blocking = Cardinality(AwaitedBy(m)')
               /\ move'[m].state = "created" => move[m].state = "created" /\ AwaitedBy(m)' # {}
    <2>1. AwaitedBy(m)' = AwaitedBy(m) \ {t} /\ t \in AwaitedBy(m)
      BY <1>2, <1>4 DEF AwaitedBy
    <2>2. Cardinality(AwaitedBy(m) \ {t}) = Cardinality(AwaitedBy(m)) - 1 /\ Cardinality(AwaitedBy(m)) \in Nat
      BY <2>1, AwaitedFinite, FS_RemoveElement, FS_CardinalityType
    <2>3. IsFiniteSet(AwaitedBy(m) \ {t})
      BY AwaitedFinite, FS_Subset
    <2>4. Cardinality(AwaitedBy(m) \ {t}) \in Nat /\ (AwaitedBy(m) \ {t} = {} <=> Cardinality(AwaitedBy(m) \ {t}) = 0)
      BY <2>3, FS_CardinalityType, FS_EmptySet
    <2>5. move[m] \in [state : MoveState, blocking : Nat] /\ move[m].blocking = Cardinality(AwaitedBy(m))
      BY DEF TypeOK, CounterExact
    <2>6. move'[m] = Notify(t, m)
      BY <1>1, <1>4
    <2>7. /\ move'[m].blocking = move[m].blocking - 1
          /\ move'[m].state = IF move[m].blocking = 1 /\ move[m].state = "created" THEN "queued" ELSE move[m].state
          /\ move'[m] = [state |-> move'[m].state, blocking |-> move'[m].blocking]
      BY <2>5, <2>6 DEF Notify
    <2>8. move'[m].blocking = Cardinality(AwaitedBy(m) \ {t}) /\ move'[m].blocking \in Nat
      BY <2>2, <2>4, <2>5, <2>7
    <2>9. move'[m].state \in MoveState
      BY <2>5, <2>7 DEF MoveState
    <2>10. ASSUME move'[m].state = "created" PROVE move[m].state = "created" /\ Cardinality(AwaitedBy(m) \ {t}) # 0
      BY <2>2, <2>5, <2>7, <2>10, SMT
    <2> QED BY <2>1, <2>4, <2>7, <2>8, <2>9, <2>10
  <1>5. TypeOK'
    <2>1. \A m \in Move : move'[m] \in [state : MoveState, blocking : Nat]
      BY <1>3, <1>4 DEF TypeOK
    <2>2. move' \in [Move -> [state : MoveState, blocking : Nat]]
      BY <1>1, <2>1
    <2> QED BY <1>1, <1>2, <2>2 DEF TypeOK, TaskState
  <1>6. MapperPlace'
    BY <1>1, <1>2 DEF TypeOK, MapperPlace, Current
  <1>7. Registered'
    <2>1. \A u \in Task : (u # t => state'[u] = state[u]) /\ state'[t] # "spawned"
      BY <1>1 DEF TypeOK
    <2> QED BY <1>1, <1>2, <2>1, MoveShape DEF Registered
  <1>8. CounterExact'
    BY <1>3, <1>4 DEF CounterExact
  <1>9. CreatedKept'
    BY <1>1, <1>3, <1>4 DEF CreatedKept, Current
  <1> QED BY <1>5, <1>6, <1>7, <1>8, <1>9

-----------------------------------------------------------------------------

LEMMA NextIInv == IInv /\ [Next]_vars => IInv'
  <1> SUFFICES ASSUME IInv, [Next]_vars PROVE IInv'
    OBVIOUS
  <1>1. CASE MapperStep
    BY <1>1, MapTaskKeeps, ConstructKeeps, RecordKeeps, AssignKeeps, ExamineKeeps DEF MapperStep
  <1>2. CASE \E t \in Task : TaskStep(t)
    <2>1. PICK t \in Task : TaskStep(t)
      BY <1>2
    <2>2. MovesOf(t) \subseteq Move
      BY DEF MovesOf
    <2> QED BY <2>1, <2>2, StartKeeps, FinishKeeps, RunMoveKeeps DEF TaskStep
  <1>3. CASE UNCHANGED vars
    <2>1. UNCHANGED <<state, block, mapper, move, waiting>>
      BY <1>3 DEF vars
    <2>2. TypeOK' /\ MapperPlace' /\ Registered'
      BY <2>1 DEF IInv, TypeOK, MapperPlace, Registered, Current
    <2>3. CounterExact' /\ CreatedKept'
      BY <2>1, KeepAwaited DEF IInv, CounterExact, CreatedKept, Current
    <2> QED BY <2>2, <2>3 DEF IInv
  <1> QED BY <1>1, <1>2, <1>3 DEF Next

\* The mapper's, the moves' and the tasks' state always has its type.
THEOREM TypeCorrect == Spec => []TypeOK
  <1>1. IInv => TypeOK
    BY DEF IInv
  <1> QED BY <1>1, InitIInv, NextIInv, PTL DEF Spec

\* No data movement task is forgotten (Scheduler._construct_datamove_task,
\* _notify_dependents), whatever the tasks, their operands and the devices.
THEOREM MovesAreNotForgotten == Spec => []NoMoveForgotten
  <1>1. IInv => NoMoveForgotten
    <2> SUFFICES ASSUME IInv, NEW m \in Move
                 PROVE  /\ move[m].blocking = Cardinality(AwaitedBy(m))
                        /\ move[m].state = "created" /\ m[1] # mapper.task =>
                             \E t \in AwaitedBy(m) : state[t] # "done"
      BY DEF NoMoveForgotten, AwaitedBy
    <2>1. \A t \in AwaitedBy(m) : state[t] # "done"
      BY DEF IInv, Registered, AwaitedBy
    <2> QED BY <2>1 DEF IInv, CounterExact, CreatedKept
  <1> QED BY <1>1, InitIInv, NextIInv, PTL DEF Spec

-----------------------------------------------------------------------------
(***************************************************************************)
(* The content of operands.  Arrays are accessed as a whole, and of two    *)
(* tasks of which one writes an array the other uses, one depends on the   *)
(* other: directly, or through a dependency that uses the array too, which *)
(* is the one the move waits for.                                          *)
(***************************************************************************)
Uses(t, a) == \E i \in DOMAIN Ops[t] : Ops[t][i].array = a
Writes(t, a) == \E i \in DOMAIN Ops[t] : Ops[t][i].array = a /\ Ops[t][i].write

\* direct dependencies that use the array, and all that these depend on
Users(t, a) == {p \in Deps[t] : Uses(p, a)}
DepClosed(S) == \A t \in S : Deps[t] \subseteq S
Before(t, a) == {p \in Task : \A S \in SUBSET Task : DepClosed(S) /\ Users(t, a) \subseteq S => p \in S}

WholeOperands == \A t \in Task : \A i \in DOMAIN Ops[t] : Ops[t][i].part = Slice
Ordered == \A a \in Array, t \in Task : Writes(t, a) =>
               \A u \in Task \ {t} : Uses(u, a) => u \in Before(t, a) \/ t \in Before(u, a)

\* The last task that a data movement task is registered with ends while the
\* mapper has not registered it with all of them.
EnqueuedEarly ==
    /\ mapper.pc = "examine"
    /\ move[Current].state = "created" /\ move'[Current].state = "queued"
    /\ \E p \in mapper.left \cap Deps[mapper.task] : state'[p] # "done"

\* tasks and dependencies
DepsFirst ==
    \A t \in Task :
        /\ state[t] # "spawned" => \A p \in Deps[t] : state[p] \in {"assigned", "running", "done"}
        /\ state[t] \in {"running", "done"} => \A p \in Deps[t] : state[p] = "done"

\* mapped tasks are users of the blocks of their operands
Recorded ==
    \A t \in Task : \A i \in DOMAIN Ops[t] :
        \/ state[t] = "spawned"
        \/ /\ state[t] = "mapping" /\ t = mapper.task
           /\ \/ i > mapper.op
              \/ mapper.pc = "examine" /\ i = mapper.op
        \/ t \in block[<<Ops[t][i].array, Slice>>]

\* where moves are while the mapper creates them, and their devices
MovesPlaced ==
    /\ DOMAIN dev = Task
    /\ mapper.pc = "examine" => move[Current].state # "none"
    /\ \A t \in Task : /\ state[t] = "mapping" => mapper.pc # "idle" /\ mapper.task = t
                       /\ state[t] # "spawned" => dev[t] \in Dev
    /\ \A m \in Move : /\ move[m].state # "none" => state[m[1]] # "spawned"
                       /\ move[m].state # "none" /\ m[1] = mapper.task => m[2] <= mapper.op
                       /\ m \in mapper.mappable => m[1] = mapper.task /\ m[2] <= mapper.op
                       /\ state[m[1]] \in {"running", "done"} => move[m].state = "done"

\* what a move waits for
Examining(m, p) == mapper.pc = "examine" /\ m = Current /\ p \in mapper.left
Ready(m) == \A p \in Users(m[1], OperandOf(m).array) : state[p] = "done"
MovesWait ==
    \A m \in Move :
        /\ move[m].state # "none" => \A p \in Users(m[1], OperandOf(m).array) :
               state[p] = "done" \/ <<p, m>> \in waiting \/ Examining(m, p)
        /\ move[m].state \in {"queued", "done"} \/ m \in mapper.mappable => Ready(m)

\* the arrays: a moved operand stays valid, and a moved output the only valid
\* copy, until the task has ended
Arrays ==
    /\ coh \in [Array -> Protocols] /\ buf \in [Array -> Buffers]
    /\ latest \in [Array -> [Slice -> Nat]]
    /\ \A a \in Array : WholeCopies(coh[a], buf[a], latest[a])
Moved ==
    \A m \in Move : move[m].state = "done" /\ state[m[1]] # "done" =>
        LET v == Valid(coh[OperandOf(m).array])
        IN  dev[m[1]] \in v /\ (OperandOf(m).write => v = {dev[m[1]]})

CInv == IInv /\ DepsFirst /\ Recorded /\ MovesPlaced /\ MovesWait /\ Arrays /\ Moved

-----------------------------------------------------------------------------

LEMMA WholeBlock ==
    ASSUME WholeOperands, NEW m \in Move
    PROVE  /\ OperandOf(m).array \in Array /\ OperandOf(m).part = Slice /\ OperandOf(m).write \in BOOLEAN
           /\ Block(OperandOf(m)) = <<OperandOf(m).array, Slice>>
           /\ Parent(OperandOf(m)) = <<OperandOf(m).array, Slice>>
           /\ <<OperandOf(m).array, Slice>> \in Blocks
           /\ Uses(m[1], OperandOf(m).array) /\ OperandOf(m) = Ops[m[1]][m[2]]
  <1>1. m[1] \in Task /\ m[2] \in DOMAIN Ops[m[1]]
    BY MoveShape
  <1>2. Ops[m[1]][m[2]] \in Operand
    BY <1>1, DataMovementAssumption
  <1>3. OperandOf(m) \in Operand /\ OperandOf(m).part = Slice
    BY <1>1, <1>2 DEF OperandOf, WholeOperands
  <1> QED BY <1>1, <1>3 DEF Operand, OperandOf, Block, Parent, Blocks, Uses

\* What conflicts with an operand and comes before its task has ended when
\* its move may run.
LEMMA EarlierHasEnded ==
    ASSUME CInv, NEW m \in Move, move[m].state \in {"queued", "done"},
           NEW p \in Before(m[1], OperandOf(m).array)
    PROVE  state[p] = "done"
  <1> DEFINE Done == {u \in Task : state[u] = "done"}
  <1>1. DepClosed(Done)
    BY DataMovementAssumption DEF CInv, DepsFirst, DepClosed
  <1>2. m[1] \in Task
    BY MoveShape
  <1>3. Users(m[1], OperandOf(m).array) \subseteq Done
    BY <1>2, DataMovementAssumption DEF CInv, MovesWait, Ready, Users
  <1> HIDE DEF Done
  <1>4. Done \in SUBSET Task
    BY DEF Done
  <1>5. p \in Done
    BY <1>1, <1>3, <1>4 DEF Before
  <1> QED BY <1>5 DEF Done

\* Two moves that may run, of tasks one of which writes the array and both of
\* which have yet to end, are one task's.
LEMMA ConflictsAreOneTask ==
    ASSUME CInv, Ordered, NEW m \in Move, NEW n \in Move, NEW a \in Array,
           OperandOf(m).array = a, OperandOf(n).array = a,
           OperandOf(m).write \/ OperandOf(n).write,
           move[m].state \in {"queued", "done"}, move[n].state \in {"queued", "done"},
           state[m[1]] # "done", state[n[1]] # "done"
    PROVE  m[1] = n[1]
  <1> SUFFICES ASSUME m[1] # n[1] PROVE FALSE
    OBVIOUS
  <1>1. m[1] \in Task /\ n[1] \in Task
    BY MoveShape
  <1>2. Uses(m[1], a) /\ Uses(n[1], a) /\ (Writes(m[1], a) \/ Writes(n[1], a))
    BY MoveShape DEF OperandOf, Uses, Writes
  <1>3. m[1] \in Before(n[1], a) \/ n[1] \in Before(m[1], a)
    BY <1>1, <1>2 DEF Ordered
  <1> QED BY <1>3, EarlierHasEnded

\* Steps that leave the arrays and the states of moves alone.
LEMMA ArraysKept ==
    ASSUME Arrays, UNCHANGED <<coh, buf, latest>>
    PROVE  Arrays'
  BY DEF Arrays, WholeCopies, Valid

LEMMA MovedKept ==
    ASSUME Moved, MovesPlaced, UNCHANGED coh,
           \A m \in Move : move'[m].state = "done" => move[m].state = "done",
           \A t \in Task : state[t] # "spawned" => dev'[t] = dev[t],
           \A t \in Task : state[t] = "done" => state'[t] = "done"
    PROVE  Moved'
  <1> SUFFICES ASSUME NEW m \in Move, move'[m].state = "done", state'[m[1]] # "done"
               PROVE  LET v == Valid(coh[OperandOf(m).array])
                      IN  dev'[m[1]] \in v /\ (OperandOf(m).write => v = {dev'[m[1]]})
    BY DEF Moved, Valid
  <1>1. m[1] \in Task /\ move[m].state = "done" /\ state[m[1]] # "done"
    BY MoveShape
  <1>2. dev'[m[1]] = dev[m[1]]
    BY <1>1 DEF MovesPlaced
  <1> QED BY <1>1, <1>2 DEF Moved

LEMMA InitCInv == Init => CInv
  <1> SUFFICES ASSUME Init PROVE CInv
    OBVIOUS
  <1>1. DepsFirst /\ Recorded
    BY DEF Init, DepsFirst, Recorded
  <1>2. MovesPlaced /\ MovesWait /\ Moved
    BY MoveShape, DataMovementAssumption DEF Init, MovesPlaced, MovesWait, Moved, NoMap
  <1>3. ASSUME NEW a \in Array PROVE /\ coh[a] \in Protocols /\ buf[a] \in Buffers
                                     /\ WholeCopies(coh[a], buf[a], latest[a])
    <2>1. PICK o \in Dev : coh[a] = NewProtocol(o) /\ buf[a] = NewBuffer(o)
      BY DataMovementAssumption DEF Init
    <2>2. latest[a] = [s \in Slice |-> 0]
      BY DEF Init
    <2> QED BY <2>1, <2>2, NewIsWhole
  <1>4. Arrays
    BY <1>3 DEF Init, Arrays
  <1> QED BY <1>1, <1>2, <1>4, InitIInv DEF CInv

-----------------------------------------------------------------------------
(* The mapper's steps.                                                     *)

LEMMA MapTaskKeepsC ==
    ASSUME CInv, NEW t \in Task, NEW d \in Placement[t], MapTask(t, d)
    PROVE  CInv'
  <1> USE DEF CInv
  <1>1. IInv'
    BY MapTaskKeeps
  <1>2. /\ state[t] = "spawned" /\ state' = [state EXCEPT ![t] = "mapping"] /\ state \in [Task -> TaskState]
        /\ dev' = [dev EXCEPT ![t] = d] /\ d \in Dev /\ mapper.pc = "idle" /\ mapper.task = NoTask
        /\ \A p \in Deps[t] : state[p] \in {"assigned", "done"}
        /\ UNCHANGED <<block, move, waiting, coh, buf, latest>>
    BY DataMovementAssumption DEF MapTask, IInv, TypeOK, MapperPlace
  <1>3. mapper'.pc = "construct" /\ mapper'.task = t /\ mapper'.op = 0 /\ mapper'.mappable = {}
    BY DEF MapTask, NoMap
  <1>4. DepsFirst'
    BY <1>2, DataMovementAssumption DEF DepsFirst
  <1>5. Recorded'
    BY <1>2, <1>3, MoveShape, DataMovementAssumption DEF Recorded
  <1>6. MovesPlaced'
    BY <1>2, <1>3, MoveShape DEF MovesPlaced
  <1>7. \A u \in Task : (state'[u] = "done") = (state[u] = "done")
    BY <1>2
  <1>8. MovesWait'
    BY <1>2, <1>3, <1>7, MoveShape, DataMovementAssumption DEF MovesWait, Ready, Users, Examining
  <1>9. Arrays' /\ Moved'
    BY <1>2, <1>7, ArraysKept, MovedKept DEF MovesPlaced
  <1> QED BY <1>1, <1>4, <1>5, <1>6, <1>8, <1>9

LEMMA ConstructKeepsC ==
    ASSUME CInv, WholeOperands, Construct
    PROVE  CInv'
  <1> USE DEF CInv
  <1>1. IInv'
    BY ConstructKeeps
  <1>2. PICK t \in Task : t = mapper.task /\ state[t] = "mapping"
    BY DEF Construct, IInv, MapperPlace
  <1>3. PICK n \in Move : n = <<t, mapper.op + 1>>
    BY <1>2, MoveShape DEF Construct, IInv, TypeOK
  <1>4. PICK a \in Array : a = OperandOf(n).array /\ Block(OperandOf(n)) = <<a, Slice>>
    BY WholeBlock
  <1>5. /\ mapper.pc = "construct" /\ mapper'.pc = "examine" /\ mapper'.task = t
        /\ mapper.op \in Nat /\ mapper'.op = mapper.op + 1 /\ mapper'.mappable = mapper.mappable
        /\ mapper'.left = block[<<a, Slice>>] /\ Current' = n
        /\ UNCHANGED <<state, dev, block, waiting, coh, buf, latest>>
    BY <1>2, <1>3, <1>4 DEF Construct, Current, IInv, TypeOK
  <1>6. /\ move'[n].state = "created" /\ n[1] = t /\ n[2] = mapper.op + 1
        /\ \A m \in Move \ {n} : move'[m] = move[m]
    BY <1>2, <1>3 DEF Construct, IInv, TypeOK
  <1>7. DepsFirst' /\ Arrays'
    BY <1>5, ArraysKept DEF DepsFirst
  <1>8. Recorded'
    <2> SUFFICES ASSUME NEW u \in Task, NEW i \in DOMAIN Ops[u], state[u] # "spawned",
                        u \notin block[<<Ops[u][i].array, Slice>>]
                 PROVE  state[u] = "mapping" /\ u = t /\ (i > mapper'.op \/ i = mapper'.op)
      BY <1>5 DEF Recorded
    <2>1. state[u] = "mapping" /\ u = t /\ i > mapper.op
      BY <1>2, <1>5 DEF Recorded
    <2>2. i \in Int
      BY MoveShape
    <2> QED BY <1>5, <2>1, <2>2
  <1>9. MovesPlaced'
    BY <1>2, <1>5, <1>6, MoveShape DEF MovesPlaced
  <1>10. \A p \in Users(t, a) : p \in block[<<a, Slice>>]
    <2> TAKE p \in Users(t, a)
    <2>1. p \in Task /\ p \in Deps[t] /\ state[p] \in {"assigned", "running", "done"}
      BY <1>2, DataMovementAssumption DEF Users, DepsFirst
    <2>2. PICK i \in DOMAIN Ops[p] : Ops[p][i].array = a
      BY DEF Users, Uses
    <2> QED BY <2>1, <2>2 DEF Recorded
  <1>11. MovesWait'
    <2> SUFFICES ASSUME NEW m \in Move
                 PROVE  /\ move'[m].state # "none" => \A p \in Users(m[1], OperandOf(m).array) :
                             state[p] = "done" \/ <<p, m>> \in waiting \/ Examining(m, p)'
                        /\ move'[m].state \in {"queued", "done"} \/ m \in mapper.mappable => Ready(m)
      BY <1>5 DEF MovesWait, Ready
    <2>1. CASE m = n
      <3>1. n \notin mapper.mappable
        BY <1>5, <1>6 DEF MovesPlaced
      <3> QED BY <1>4, <1>5, <1>6, <1>10, <2>1, <3>1 DEF Examining
    <2>2. CASE m # n
      BY <1>5, <1>6, <2>2 DEF MovesWait, Examining
    <2> QED BY <2>1, <2>2
  <1>12. Moved'
    BY <1>5, <1>6, MovedKept
  <1> QED BY <1>1, <1>7, <1>8, <1>9, <1>11, <1>12

LEMMA ExamineKeepsC ==
    ASSUME CInv, NEW q \in Task, Examine(q)
    PROVE  CInv'
  <1> USE DEF CInv
  <1>1. IInv'
    BY ExamineKeeps
  <1>2. /\ mapper.pc = "examine" /\ Current \in Move /\ Current[1] = mapper.task
        /\ mapper'.pc = mapper.pc /\ mapper'.task = mapper.task /\ mapper'.op = mapper.op
        /\ mapper'.mappable = mapper.mappable /\ mapper'.left = mapper.left \ {q} /\ Current' = Current
        /\ UNCHANGED <<state, dev, block, coh, buf, latest>>
    BY MoveShape DEF Examine, IInv, MapperPlace, TypeOK, Current
  <1>3. \A m \in Move : move'[m].state = move[m].state
    BY <1>2 DEF Examine, IInv, TypeOK
  <1>4. /\ waiting \subseteq waiting'
        /\ q \in Deps[mapper.task] => state[q] = "done" \/ <<q, Current>> \in waiting'
    BY DEF Examine
  <1>5. DepsFirst' /\ Arrays'
    BY <1>2, ArraysKept DEF DepsFirst
  <1>6. Recorded' /\ MovesPlaced'
    BY <1>2, <1>3 DEF Recorded, MovesPlaced
  <1>7. MovesWait'
    <2> SUFFICES ASSUME NEW m \in Move
                 PROVE  /\ move[m].state # "none" => \A p \in Users(m[1], OperandOf(m).array) :
                             state[p] = "done" \/ <<p, m>> \in waiting' \/ Examining(m, p)'
                        /\ move[m].state \in {"queued", "done"} \/ m \in mapper.mappable => Ready(m)
      BY <1>2, <1>3 DEF MovesWait, Ready
    <2> SUFFICES ASSUME move[m].state # "none", NEW p \in Users(m[1], OperandOf(m).array),
                        state[p] # "done", <<p, m>> \notin waiting'
                 PROVE  Examining(m, p)'
      BY DEF MovesWait
    <2>1. Examining(m, p)
      BY <1>4 DEF MovesWait
    <2>2. p # q
      BY <1>2, <1>4, <2>1 DEF Examining, Users
    <2> QED BY <1>2, <2>1, <2>2 DEF Examining
  <1>8. Moved'
    BY <1>2, <1>3, MovedKept
  <1> QED BY <1>1, <1>5, <1>6, <1>7, <1>8

LEMMA RecordKeepsC ==
    ASSUME CInv, WholeOperands, Record
    PROVE  CInv'
  <1> USE DEF CInv
  <1>1. IInv'
    BY RecordKeeps
  <1>2. /\ mapper.pc = "examine" /\ mapper.left = {} /\ mapper.task \in Task
        /\ mapper.op \in DOMAIN Ops[mapper.task]
        /\ UNCHANGED <<state, dev, move, waiting, coh, buf, latest>>
    BY DEF Record, IInv, MapperPlace
  <1>3. PICK n \in Move : n = Current /\ n[1] = mapper.task /\ n[2] = mapper.op
    BY <1>2, MoveShape DEF Current
  <1>4. /\ mapper'.pc = "construct" /\ mapper'.task = mapper.task /\ mapper'.op = mapper.op
        /\ mapper'.mappable = IF move[n].blocking = 0 THEN mapper.mappable \cup {n} ELSE mapper.mappable
    BY <1>3 DEF Record, IInv, TypeOK
  <1>5. PICK a \in Array : a = OperandOf(n).array /\ a = Ops[mapper.task][mapper.op].array
    BY <1>3, WholeBlock
  <1>6. \A b \in Blocks : block[b] \subseteq block'[b]
    BY DEF Record
  <1>7. mapper.task \in block'[<<a, Slice>>]
    BY <1>3, <1>5, WholeBlock DEF Record
  <1>8. DepsFirst' /\ Arrays'
    BY <1>2, ArraysKept DEF DepsFirst
  <1>9. Recorded'
    <2> SUFFICES ASSUME NEW t \in Task, NEW i \in DOMAIN Ops[t], state[t] # "spawned",
                        t \notin block'[<<Ops[t][i].array, Slice>>]
                 PROVE  state[t] = "mapping" /\ t = mapper.task /\ i > mapper.op
      BY <1>2, <1>4 DEF Recorded
    <2>1. <<Ops[t][i].array, Slice>> \in Blocks
      <3>1. Ops[t][i] \in Operand
        BY DataMovementAssumption
      <3> QED BY <3>1 DEF Operand, Blocks
    <2>2. t \notin block[<<Ops[t][i].array, Slice>>]
      BY <1>6, <2>1
    <2>3. ~(t = mapper.task /\ i = mapper.op)
      BY <1>5, <1>7
    <2> QED BY <2>2, <2>3 DEF Recorded
  <1>10. MovesPlaced'
    <2>1. mapper.op <= mapper.op
      BY <1>2, MoveShape
    <2> QED BY <1>2, <1>3, <1>4, <2>1 DEF MovesPlaced
  <1>11. MovesWait'
    <2>1. \A m \in Move : \A p : ~Examining(m, p)
      BY <1>2 DEF Examining
    <2>2. ASSUME move[n].blocking = 0 PROVE Ready(n)
      <3>1. AwaitedBy(n) = {}
        BY <2>2, ZeroIsNobody
      <3>2. move[n].state # "none"
        BY <1>2, <1>3 DEF MovesPlaced
      <3>3. Users(n[1], OperandOf(n).array) \subseteq Task
        BY <1>2, <1>3, DataMovementAssumption DEF Users
      <3> QED BY <2>1, <3>1, <3>2, <3>3 DEF MovesWait, Ready, AwaitedBy
    <2> QED BY <1>2, <1>4, <2>1, <2>2 DEF MovesWait, Ready
  <1>12. Moved'
    BY <1>2, MovedKept
  <1> QED BY <1>1, <1>8, <1>9, <1>10, <1>11, <1>12

LEMMA AssignKeepsC ==
    ASSUME CInv, Assign
    PROVE  CInv'
  <1> USE DEF CInv
  <1>1. IInv'
    BY AssignKeeps
  <1>2. /\ mapper.pc = "construct" /\ mapper.task \in Task /\ mapper.op = Len(Ops[mapper.task])
        /\ mapper' = NoMap /\ state \in [Task -> TaskState] /\ state[mapper.task] = "mapping"
        /\ state' = [state EXCEPT ![mapper.task] = "assigned"]
        /\ UNCHANGED <<dev, block, waiting, coh, buf, latest>>
    BY DEF Assign, IInv, MapperPlace, TypeOK
  <1>3. \A m \in Move : \/ move'[m] = move[m]
                        \/ m \in mapper.mappable /\ move[m].state = "created" /\ move'[m].state = "queued"
    BY DEF Assign, IInv, TypeOK
  <1>4. DepsFirst'
    BY <1>2 DEF DepsFirst
  <1>5. Recorded'
    <2> SUFFICES ASSUME NEW t \in Task, NEW i \in DOMAIN Ops[t], state'[t] # "spawned",
                        t \notin block[<<Ops[t][i].array, Slice>>]
                 PROVE  FALSE
      BY <1>2 DEF Recorded
    <2>1. t = mapper.task /\ i > mapper.op
      BY <1>2 DEF Recorded
    <2>2. i \in 1 .. mapper.op /\ mapper.op \in Nat
      BY <1>2, <2>1, MoveShape
    <2> QED BY <2>1, <2>2
  <1>6. MovesPlaced'
    BY <1>2, <1>3, MoveShape, DataMovementAssumption DEF MovesPlaced, NoMap
  <1>7. \A t \in Task : (state'[t] = "done") = (state[t] = "done")
    BY <1>2
  <1>8. MovesWait'
    <2>1. \A m \in Move : Ready(m)' = Ready(m)
      BY <1>7, MoveShape, DataMovementAssumption DEF Ready, Users
    <2>2. \A m \in Move : \A p : ~Examining(m, p)
      BY <1>2 DEF Examining
    <2>3. \A m \in Move : \A p \in Users(m[1], OperandOf(m).array) : (state'[p] = "done") = (state[p] = "done")
      BY <1>7, MoveShape, DataMovementAssumption DEF Users
    <2> QED BY <1>2, <1>3, <2>1, <2>2, <2>3 DEF MovesWait, NoMap
  <1>9. Arrays' /\ Moved'
    BY <1>2, <1>3, <1>7, ArraysKept, MovedKept
  <1> QED BY <1>1, <1>4, <1>5, <1>6, <1>8, <1>9

-----------------------------------------------------------------------------
(* The steps of moves and tasks.                                           *)

LEMMA StartKeepsC ==
    ASSUME CInv, NEW t \in Task, Start(t)
    PROVE  CInv'
  <1> USE DEF CInv
  <1>1. IInv'
    BY StartKeeps
  <1>2. /\ state[t] = "assigned" /\ state' = [state EXCEPT ![t] = "running"] /\ state \in [Task -> TaskState]
        /\ \A p \in Deps[t] : state[p] = "done"
        /\ \A m \in Move : m[1] = t => move[m].state = "done"
        /\ UNCHANGED <<dev, block, mapper, move, waiting, coh, buf, latest>>
    BY DEF Start, MovesOf, IInv, TypeOK
  <1>3. DepsFirst'
    BY <1>2, DataMovementAssumption DEF DepsFirst
  <1>4. Recorded'
    BY <1>2 DEF Recorded
  <1>5. MovesPlaced'
    BY <1>2, MoveShape DEF MovesPlaced, Current
  <1>6. \A u \in Task : (state'[u] = "done") = (state[u] = "done")
    BY <1>2
  <1>7. MovesWait'
    BY <1>2, <1>6, MoveShape, DataMovementAssumption DEF MovesWait, Ready, Users, Examining, Current
  <1>8. Arrays' /\ Moved'
    BY <1>2, <1>6, ArraysKept, MovedKept
  <1> QED BY <1>1, <1>3, <1>4, <1>5, <1>7, <1>8

\* A move reads or writes its array on the device of its task.
LEMMA RunMoveResult ==
    ASSUME CInv, WholeOperands, NEW n \in Move, RunMove(n), NEW a \in Array, a = OperandOf(n).array,
           NEW d \in Dev, d = dev[n[1]]
    PROVE  /\ coh' = [coh EXCEPT ![a] = coh'[a]] /\ buf' = [buf EXCEPT ![a] = buf'[a]]
           /\ WholeCopies(coh'[a], buf'[a], latest[a])
           /\ Valid(coh'[a]) = IF OperandOf(n).write THEN {d} ELSE Valid(coh[a]) \cup {d}
  <1> PICK r : r = IF OperandOf(n).write THEN Write(coh[a], d, Slice) ELSE Read(coh[a], d, Slice)
    OBVIOUS
  <1>1. WholeCopies(coh[a], buf[a], latest[a])
    BY DEF CInv, Arrays
  <1>2. Keeps(buf[a], latest[a], r) /\ Valid(r.c) = IF OperandOf(n).write THEN {d} ELSE Valid(coh[a]) \cup {d}
    <2>1. CASE OperandOf(n).write
      BY <1>1, <2>1, WriteKeeps
    <2>2. CASE ~OperandOf(n).write
      BY <1>1, <2>2, ReadKeeps
    <2> QED BY <2>1, <2>2
  <1>3. OperandOf(n).part = Slice
    BY WholeBlock
  <1>4. /\ coh' = [coh EXCEPT ![a] = r.c]
        /\ buf' = [buf EXCEPT ![a] = Perform(buf[a], r.ops).buf]
    BY <1>3 DEF RunMove
  <1>5. coh'[a] = r.c /\ buf'[a] = Perform(buf[a], r.ops).buf
    BY <1>4 DEF CInv, Arrays
  <1>6. WholeCopies(coh'[a], buf'[a], latest[a])
    BY <1>2, <1>5 DEF Keeps
  <1> QED BY <1>2, <1>4, <1>5, <1>6

LEMMA RunMoveKeepsC ==
    ASSUME CInv, WholeOperands, Ordered, NEW n \in Move, RunMove(n)
    PROVE  CInv'
  <1> USE DEF CInv
  <1>1. IInv'
    BY RunMoveKeeps
  <1>2. /\ move[n].state = "queued" /\ move'[n].state = "done"
        /\ \A m \in Move \ {n} : move'[m] = move[m]
        /\ UNCHANGED <<state, dev, block, mapper, waiting, latest>>
    BY DEF RunMove, IInv, TypeOK
  <1>3. n[1] \in Task /\ state[n[1]] \notin {"spawned", "running", "done"}
    BY <1>2, MoveShape DEF MovesPlaced
  <1>4. PICK d \in Dev : d = dev[n[1]]
    BY <1>3 DEF MovesPlaced
  <1>5. PICK a \in Array : a = OperandOf(n).array
    BY WholeBlock
  <1>6. /\ coh' = [coh EXCEPT ![a] = coh'[a]] /\ buf' = [buf EXCEPT ![a] = buf'[a]]
        /\ WholeCopies(coh'[a], buf'[a], latest[a])
        /\ Valid(coh'[a]) = IF OperandOf(n).write THEN {d} ELSE Valid(coh[a]) \cup {d}
    BY <1>4, <1>5, RunMoveResult
  <1>7. \A e \in Array \ {a} : coh'[e] = coh[e] /\ buf'[e] = buf[e]
    BY <1>6 DEF Arrays
  <1>8. DepsFirst' /\ Recorded'
    BY <1>2 DEF DepsFirst, Recorded
  <1>9. MovesPlaced'
    <2>1. \A m \in Move : /\ (move'[m].state = "none") = (move[m].state = "none")
                          /\ move[m].state = "done" => move'[m].state = "done"
      BY <1>2
    <2>2. mapper.pc = "examine" => Current \in Move
      BY MoveShape DEF IInv, MapperPlace, Current
    <2>3. Current' = Current
      BY <1>2 DEF Current
    <2> QED BY <1>2, <2>1, <2>2, <2>3 DEF MovesPlaced
  <1>10. MovesWait'
    <2>1. \A m \in Move : /\ move'[m].state # "none" => move[m].state # "none"
                          /\ move'[m].state \in {"queued", "done"} => move[m].state \in {"queued", "done"}
      BY <1>2
    <2> QED BY <1>2, <2>1 DEF MovesWait, Ready, Examining, Current
  <1>11. Arrays'
    <2>1. \A e \in Array : WholeCopies(coh'[e], buf'[e], latest[e])
      BY <1>6, <1>7 DEF Arrays
    <2>2. \A e \in Array : coh'[e] \in Protocols /\ buf'[e] \in Buffers
      BY <2>1 DEF WholeCopies, NoParts, WholeBuffers
    <2>3. coh' \in [Array -> Protocols] /\ buf' \in [Array -> Buffers]
      BY <1>6, <2>2 DEF Arrays
    <2> QED BY <1>2, <2>1, <2>3 DEF Arrays, WholeCopies, Valid
  <1>12. ASSUME NEW m \in Move, move'[m].state = "done", state[m[1]] # "done", OperandOf(m).array = a
         PROVE  dev[m[1]] \in Valid(coh'[a]) /\ (OperandOf(m).write => Valid(coh'[a]) = {dev[m[1]]})
    <2>1. CASE m = n
      BY <1>4, <1>6, <2>1
    <2>2. CASE m # n
      <3>1. move[m].state = "done"
        BY <1>2, <1>12, <2>2
      <3>2. dev[m[1]] \in Valid(coh[a]) /\ (OperandOf(m).write => Valid(coh[a]) = {dev[m[1]]})
        BY <1>12, <3>1 DEF Moved
      <3>3. OperandOf(m).write \/ OperandOf(n).write => m[1] = n[1]
        BY <1>2, <1>3, <1>5, <1>12, <3>1, ConflictsAreOneTask
      <3> QED BY <1>4, <1>6, <3>2, <3>3
    <2> QED BY <2>1, <2>2
  <1>13. Moved'
    <2> SUFFICES ASSUME NEW m \in Move, move'[m].state = "done", state[m[1]] # "done",
                        NEW e \in Array, e = OperandOf(m).array
                 PROVE  dev[m[1]] \in Valid(coh'[e]) /\ (OperandOf(m).write => Valid(coh'[e]) = {dev[m[1]]})
      <3>1. \A m \in Move : OperandOf(m).array \in Array
        BY WholeBlock
      <3> QED BY <1>2, <3>1 DEF Moved, Valid
    <2>1. CASE e = a
      BY <1>12, <2>1
    <2>2. CASE e # a
      <3>1. move[m].state = "done"
        BY <1>2, <1>5, <2>2
      <3> QED BY <1>7, <2>2, <3>1 DEF Moved
    <2> QED BY <2>1, <2>2
  <1> QED BY <1>1, <1>8, <1>9, <1>10, <1>11, <1>13

\* The end of a body writes the whole of each output, whose copy is the only
\* valid one, and leaves the other arrays as they are.
LEMMA FinishWrites ==
    ASSUME CInv, WholeOperands, NEW t \in Task, Finish(t), NEW a \in Array
    PROVE  buf'[a] \in Buffers /\ latest'[a] \in [Slice -> Nat] /\ WholeCopies(coh[a], buf'[a], latest'[a])
  <1> USE DEF CInv
  <1>1. state[t] = "running" /\ WholeCopies(coh[a], buf[a], latest[a])
        /\ buf[a] \in Buffers /\ latest[a] \in [Slice -> Nat]
    BY DEF Finish, Arrays
  <1>2. PICK d \in Dev : d = dev[t]
    BY <1>1 DEF MovesPlaced
  <1>3. /\ latest'[a] = [s \in Slice |-> IF s \in Written(t, a) THEN latest[a][s] + 1 ELSE latest[a][s]]
        /\ buf'[a] = [buf[a] EXCEPT !.data[d] =
                        [s \in Slice |-> IF s \in Written(t, a) THEN latest[a][s] + 1 ELSE buf[a].data[d][s]]]
    BY <1>2 DEF Finish
  <1>4. CASE Writes(t, a)
    <2>1. PICK i \in DOMAIN Ops[t] : Ops[t][i].array = a /\ Ops[t][i].write
      BY <1>4 DEF Writes
    <2>2. PICK m \in Move : m[1] = t /\ OperandOf(m) = Ops[t][i]
      <3>1. <<t, i>> \in Move
        BY <2>1, MoveShape
      <3> QED BY <3>1 DEF OperandOf
    <2>3. move[m].state = "done"
      BY <1>1, <2>2 DEF MovesPlaced
    <2>4. Valid(coh[a]) = {d}
      BY <1>1, <1>2, <2>1, <2>2, <2>3 DEF Moved
    <2>5. Slice \subseteq Written(t, a)
      <3>1. Ops[t][i] \in ToSet(Ops[t]) /\ Ops[t][i].part = Slice
        BY <2>1 DEF ToSet, WholeOperands
      <3> QED BY <2>1, <3>1 DEF Written
    <2> PICK g : g = [s \in Slice |-> latest[a][s] + 1]
      OBVIOUS
    <2>6. latest'[a] = g /\ buf'[a] = [buf[a] EXCEPT !.data[d] = g]
      BY <1>3, <2>5
    <2>7. g \in [Slice -> Nat]
      BY <1>1
    <2> QED BY <1>1, <2>4, <2>6, <2>7, BodyWritesWhole
  <1>5. CASE ~Writes(t, a)
    <2>1. Written(t, a) = {}
      BY <1>5 DEF Written, Writes, ToSet
    <2>2. latest'[a] = latest[a]
      BY <1>1, <1>3, <2>1
    <2>3. buf'[a] = buf[a]
      <3> PICK b : b = buf[a]
        OBVIOUS
      <3> PICK k, f : k = b.kind /\ f = b.data
        OBVIOUS
      <3>1. b = [kind |-> k, data |-> f] /\ f \in [Dev -> [Slice -> {NoData} \cup Nat]]
        BY <1>1 DEF Buffers
      <3>2. [s \in Slice |-> b.data[d][s]] = f[d]
        BY <3>1
      <3>3. buf'[a] = [b EXCEPT !.data[d] = f[d]]
        BY <1>3, <2>1, <3>2
      <3>4. [f EXCEPT ![d] = f[d]] = f
        BY <3>1
      <3>5. buf'[a] = [kind |-> k, data |-> [f EXCEPT ![d] = f[d]]]
        BY <3>1, <3>3
      <3> QED BY <3>1, <3>4, <3>5
    <2> QED BY <1>1, <2>2, <2>3
  <1> QED BY <1>4, <1>5

LEMMA FinishKeepsC ==
    ASSUME CInv, WholeOperands, NEW t \in Task, Finish(t), ~EnqueuedEarly
    PROVE  CInv'
  <1> USE DEF CInv
  <1>1. IInv'
    BY FinishKeeps
  <1>2. /\ state[t] = "running" /\ state' = [state EXCEPT ![t] = "done"] /\ state \in [Task -> TaskState]
        /\ waiting' = {w \in waiting : w[1] # t} /\ UNCHANGED <<dev, block, mapper, coh>>
    BY DEF Finish, IInv, TypeOK
  <1>3. \A m \in Move :
          /\ (move'[m].state = "none") = (move[m].state = "none")
          /\ (move'[m].state = "done") = (move[m].state = "done")
          /\ \/ move'[m].state = move[m].state
             \/ /\ <<t, m>> \in waiting /\ move[m].blocking = 1
                /\ move[m].state = "created" /\ move'[m].state = "queued"
    <2> TAKE m \in Move
    <2>1. move[m] \in [state : MoveState, blocking : Nat]
      BY DEF IInv, TypeOK
    <2>2. CASE <<t, m>> \in waiting
      <3>1. move'[m] = Notify(t, m)
        BY <2>2 DEF Finish
      <3>2. move'[m].state = IF move[m].blocking = 1 /\ move[m].state = "created" THEN "queued"
                             ELSE move[m].state
        BY <2>1, <3>1 DEF Notify
      <3> QED BY <2>2, <3>2
    <2>3. CASE <<t, m>> \notin waiting
      BY <2>3 DEF Finish
    <2> QED BY <2>2, <2>3
  <1>4. \A u \in Task : state[u] = "done" => state'[u] = "done"
    BY <1>2
  <1>5. DepsFirst'
    BY <1>2, DataMovementAssumption DEF DepsFirst
  <1>6. Recorded'
    BY <1>2 DEF Recorded
  <1>7. MovesPlaced'
    <2>1. mapper.pc = "examine" => Current \in Move
      BY MoveShape DEF IInv, MapperPlace, Current
    <2>2. Current' = Current
      BY <1>2 DEF Current
    <2>3. \A u \in Task : /\ state'[u] = "mapping" => state[u] = "mapping"
                          /\ state'[u] # "spawned" => state[u] # "spawned"
                          /\ state[u] # "spawned" => state'[u] # "spawned"
                          /\ state'[u] \in {"running", "done"} => state[u] \in {"running", "done"}
      BY <1>2
    <2> QED BY <1>2, <1>3, <2>1, <2>2, <2>3, MoveShape DEF MovesPlaced
  <1>8. ASSUME NEW m \in Move, move[m].state # "none", NEW p \in Users(m[1], OperandOf(m).array)
        PROVE  state'[p] = "done" \/ <<p, m>> \in waiting' \/ Examining(m, p)
    <2>1. p \in Task
      BY <1>8, MoveShape, DataMovementAssumption DEF Users
    <2>2. state[p] = "done" \/ <<p, m>> \in waiting \/ Examining(m, p)
      BY <1>8 DEF MovesWait
    <2> QED BY <1>2, <1>4, <2>1, <2>2
  <1>9. ASSUME NEW m \in Move, <<t, m>> \in waiting, move[m].blocking = 1,
               move[m].state = "created", move'[m].state = "queued"
        PROVE  Ready(m)'
    <2> SUFFICES ASSUME NEW p \in Users(m[1], OperandOf(m).array) PROVE state'[p] = "done"
      BY DEF Ready
    <2>1. AwaitedBy(m)' = AwaitedBy(m) \ {t} /\ t \in AwaitedBy(m)
      BY <1>2, <1>9 DEF AwaitedBy
    <2>2. Cardinality(AwaitedBy(m)) = 1
      BY <1>9 DEF IInv, CounterExact
    <2>3. Cardinality(AwaitedBy(m) \ {t}) = 0 /\ IsFiniteSet(AwaitedBy(m) \ {t})
      BY <2>1, <2>2, AwaitedFinite, FS_RemoveElement, FS_Subset
    <2>4. AwaitedBy(m)' = {}
      BY <2>1, <2>3, FS_EmptySet
    <2>5. p \in Task /\ p \in Deps[m[1]]
      BY MoveShape, DataMovementAssumption DEF Users
    <2>6. state'[p] = "done" \/ Examining(m, p)
      BY <1>8, <1>9, <2>4, <2>5 DEF AwaitedBy
    <2>7. ASSUME Examining(m, p) PROVE state'[p] = "done"
      <3>1. mapper.pc = "examine" /\ m = Current /\ p \in mapper.left /\ m[1] = mapper.task
        BY <2>7 DEF Examining, Current
      <3> QED BY <1>9, <2>5, <3>1 DEF EnqueuedEarly
    <2> QED BY <2>6, <2>7
  <1>10. MovesWait'
    <2>1. \A m \in Move : \A p : Examining(m, p)' = Examining(m, p)
      BY <1>2 DEF Examining, Current
    <2>2. \A m \in Move : Ready(m) => Ready(m)'
      BY <1>4, MoveShape, DataMovementAssumption DEF Ready, Users
    <2>3. ASSUME NEW m \in Move, move'[m].state \in {"queued", "done"} \/ m \in mapper'.mappable PROVE Ready(m)'
      BY <1>2, <1>3, <1>9, <2>2, <2>3 DEF MovesWait
    <2> QED BY <1>3, <1>8, <2>1, <2>3 DEF MovesWait
  <1>11. Arrays'
    <2>1. \A a \in Array : buf'[a] \in Buffers /\ latest'[a] \in [Slice -> Nat]
                           /\ WholeCopies(coh[a], buf'[a], latest'[a])
      BY FinishWrites
    <2>2. buf' \in [Array -> Buffers] /\ latest' \in [Array -> [Slice -> Nat]]
      BY <2>1 DEF Finish
    <2> QED BY <1>2, <2>1, <2>2 DEF Arrays, WholeCopies, Valid
  <1>12. Moved'
    BY <1>2, <1>3, <1>4, MovedKept
  <1> QED BY <1>1, <1>5, <1>6, <1>7, <1>10, <1>11, <1>12

LEMMA NextCInv ==
    ASSUME WholeOperands, Ordered
    PROVE  CInv /\ [Next]_vars /\ [~EnqueuedEarly]_vars => CInv'
  <1> SUFFICES ASSUME CInv, [Next]_vars, [~EnqueuedEarly]_vars PROVE CInv'
    OBVIOUS
  <1>1. CASE UNCHANGED vars
    <2>1. UNCHANGED <<state, dev, block, mapper, move, waiting, coh, buf, latest>> /\ IInv'
      BY <1>1, NextIInv DEF vars, CInv
    <2>2. DepsFirst' /\ Recorded' /\ MovesPlaced' /\ MovesWait'
      BY <2>1 DEF CInv, DepsFirst, Recorded, MovesPlaced, MovesWait, Ready, Examining, Current
    <2>3. Arrays' /\ Moved'
      BY <2>1, ArraysKept, MovedKept DEF CInv
    <2> QED BY <2>1, <2>2, <2>3 DEF CInv
  <1>2. CASE MapperStep
    BY <1>2, MapTaskKeepsC, ConstructKeepsC, RecordKeepsC, AssignKeepsC, ExamineKeepsC DEF MapperStep
  <1>3. CASE ~EnqueuedEarly /\ \E t \in Task : TaskStep(t)
    <2>1. PICK t \in Task : TaskStep(t)
      BY <1>3
    <2>2. MovesOf(t) \subseteq Move
      BY DEF MovesOf
    <2> QED BY <1>3, <2>1, <2>2, StartKeepsC, FinishKeepsC, RunMoveKeepsC DEF TaskStep
  <1> QED BY <1>1, <1>2, <1>3 DEF Next

\* Every task finds the last version of its operands on its device
\* (Scheduler._construct_datamove_task, PArray._auto_move), in every behaviour
\* in which no data movement task is enqueued before the mapper has registered
\* it with all the tasks it must wait for; for every program whose conflicting
\* tasks are ordered, and whatever the devices and the order of the moves.
THEOREM OperandsAreFresh ==
    ASSUME WholeOperands, Ordered
    PROVE  Spec /\ [][~EnqueuedEarly]_vars => []OperandsFresh
  <1>1. CInv => OperandsFresh
    <2> SUFFICES ASSUME CInv, NEW t \in Task, state[t] = "running", NEW i \in DOMAIN Ops[t]
                 PROVE  buf[Ops[t][i].array].data[dev[t]] = latest[Ops[t][i].array]
      <3>1. \A t \in Task : \A o \in ToSet(Ops[t]) : \E i \in DOMAIN Ops[t] : o = Ops[t][i] /\ o.part = Slice
        BY DEF ToSet, WholeOperands
      <3> QED BY <3>1 DEF OperandsFresh
    <2>1. PICK m \in Move : m[1] = t /\ OperandOf(m) = Ops[t][i]
      <3>1. <<t, i>> \in Move
        BY MoveShape
      <3> QED BY <3>1 DEF OperandOf
    <2>2. PICK a \in Array : a = Ops[t][i].array
      BY <2>1, WholeBlock
    <2>3. dev[t] \in Valid(coh[a])
      BY <2>1, <2>2 DEF CInv, MovesPlaced, Moved
    <2>4. WholeCopies(coh[a], buf[a], latest[a])
      BY DEF CInv, Arrays
    <2> QED BY <2>2, <2>3, <2>4 DEF WholeCopies
  <1> QED BY <1>1, InitCInv, NextCInv, PTL DEF Spec

-----------------------------------------------------------------------------
(* Programs in which each task has at most one direct dependency for each  *)
(* of its operands.                                                        *)

OneUser ==
    \A t \in Task, a \in Array : Uses(t, a) => \A p, q \in Users(t, a) : p = q

\* who is in a block, is examined and is waited for uses the array
UsersOnly ==
    /\ \A b \in Blocks : \A p \in block[b] : Uses(p, b[1])
    /\ mapper.pc = "examine" => \A p \in mapper.left : Uses(p, OperandOf(Current).array)
    /\ \A p \in Task, m \in Move : <<p, m>> \in waiting => p \in Users(m[1], OperandOf(m).array)

LEMMA NextUsersOnly == ASSUME WholeOperands PROVE IInv /\ UsersOnly /\ [Next]_vars => UsersOnly'
  <1> SUFFICES ASSUME IInv, UsersOnly, [Next]_vars PROVE UsersOnly'
    OBVIOUS
  <1>1. ASSUME UNCHANGED <<block, mapper>>, waiting' \subseteq waiting PROVE UsersOnly'
    BY <1>1 DEF UsersOnly, Current
  <1>2. ASSUME UNCHANGED <<block, waiting>>, mapper'.pc # "examine" PROVE UsersOnly'
    BY <1>2 DEF UsersOnly
  <1>3. CASE UNCHANGED vars \/ \E t \in Task : TaskStep(t)
    BY <1>1, <1>3 DEF vars, TaskStep, Start, Finish, RunMove
  <1>4. CASE Assign \/ \E t \in Task : \E d \in Placement[t] : MapTask(t, d)
    <2>1. CASE Assign
      BY <1>2, <2>1 DEF Assign, NoMap
    <2>2. ASSUME NEW t \in Task, NEW d \in Placement[t], MapTask(t, d) PROVE UsersOnly'
      <3>1. mapper'.pc = "construct" /\ UNCHANGED <<block, waiting>>
        BY <2>2 DEF MapTask, NoMap
      <3> QED BY <1>2, <3>1
    <2> QED BY <1>4, <2>1, <2>2
  <1>5. CASE Construct
    <2>1. PICK n \in Move : n = <<mapper.task, mapper.op + 1>>
      BY <1>5, MoveShape DEF Construct, IInv, MapperPlace, TypeOK
    <2>2. PICK a \in Array : a = OperandOf(n).array /\ Block(OperandOf(n)) = <<a, Slice>>
                             /\ <<a, Slice>> \in Blocks
      BY WholeBlock
    <2>3. mapper'.left = block[<<a, Slice>>] /\ Current' = n /\ UNCHANGED <<block, waiting>>
      BY <1>5, <2>1, <2>2 DEF Construct, Current, IInv, TypeOK
    <2> QED BY <2>2, <2>3 DEF UsersOnly
  <1>6. CASE Record
    <2>1. UNCHANGED waiting /\ mapper'.pc = "construct"
      BY <1>6 DEF Record, IInv, TypeOK
    <2>2. PICK n \in Move : n = Current /\ n[1] = mapper.task
      BY <1>6, MoveShape DEF Record, IInv, MapperPlace, Current
    <2>3. PICK a \in Array : a = OperandOf(n).array /\ Uses(mapper.task, a)
                             /\ Block(OperandOf(n)) = <<a, Slice>> /\ Parent(OperandOf(n)) = <<a, Slice>>
      BY <2>2, WholeBlock
    <2>4. \A b \in Blocks : \A p \in block'[b] : p \in block[b] \/ (p = mapper.task /\ b = <<a, Slice>>)
      BY <1>6, <2>2, <2>3 DEF Record
    <2> QED BY <2>1, <2>3, <2>4 DEF UsersOnly
  <1>7. ASSUME NEW q \in Task, Examine(q) PROVE UsersOnly'
    <2>1. /\ mapper.pc = "examine" /\ q \in mapper.left /\ Current' = Current /\ mapper'.left \subseteq mapper.left
          /\ UNCHANGED block /\ Current[1] = mapper.task
      BY <1>7 DEF Examine, IInv, TypeOK, Current
    <2>2. \/ waiting' = waiting
          \/ waiting' = waiting \cup {<<q, Current>>} /\ q \in Deps[mapper.task]
      BY <1>7 DEF Examine
    <2>3. \A p \in Task, m \in Move : <<p, m>> \in waiting' =>
            <<p, m>> \in waiting \/ (p = q /\ m = Current /\ q \in Deps[mapper.task])
      BY <2>2
    <2>4. \A p \in Task, m \in Move : <<p, m>> \in waiting' => p \in Users(m[1], OperandOf(m).array)
      BY <2>1, <2>3 DEF UsersOnly, Users
    <2> QED BY <2>1, <2>4 DEF UsersOnly
  <1> QED BY <1>3, <1>4, <1>5, <1>6, <1>7 DEF Next, MapperStep

\* With one task to wait for, its end comes after its registration.
LEMMA NeverEarly ==
    ASSUME WholeOperands, OneUser, IInv, UsersOnly, Next
    PROVE  ~EnqueuedEarly
  <1> SUFFICES ASSUME EnqueuedEarly PROVE FALSE
    OBVIOUS
  <1>1. /\ mapper.pc = "examine" /\ move[Current].state = "created" /\ move'[Current].state = "queued"
        /\ mapper.task \in Task
    BY DEF EnqueuedEarly, IInv, MapperPlace
  <1>2. PICK n \in Move : n = Current /\ n[1] = mapper.task
    BY <1>1, MoveShape DEF IInv, MapperPlace, Current
  <1>3. PICK a \in Array : a = OperandOf(n).array /\ Uses(mapper.task, a)
    BY <1>2, WholeBlock
  <1>4. PICK p \in mapper.left \cap Deps[mapper.task] : state'[p] # "done"
    BY DEF EnqueuedEarly
  <1>5. p \in Users(mapper.task, a)
    BY <1>1, <1>2, <1>3, <1>4 DEF UsersOnly, Users
  <1>6. \E t \in Task : Finish(t) /\ <<t, n>> \in waiting
    <2>1. move'[n].state # move[n].state /\ move'[n].state = "queued"
      BY <1>1, <1>2
    <2>2. ~MapperStep
      <3>1. move' = move \/ (move' = [move EXCEPT ![n].blocking = @ + 1]) => move'[n].state = move[n].state
        BY DEF IInv, TypeOK
      <3>2. ~(\E q \in Task : Examine(q))
        BY <1>2, <2>1, <3>1 DEF Examine
      <3>3. ~Record /\ ~(\E t \in Task : \E d \in Placement[t] : MapTask(t, d))
        BY <2>1 DEF Record, MapTask
      <3> QED BY <1>1, <3>2, <3>3 DEF MapperStep, Construct, Assign
    <2>3. PICK t \in Task : TaskStep(t)
      BY <2>2 DEF Next
    <2>4. ~Start(t)
      BY <2>1 DEF Start
    <2>5. ASSUME NEW m \in MovesOf(t), RunMove(m) PROVE FALSE
      BY <2>1, <2>5 DEF RunMove, IInv, TypeOK
    <2>6. Finish(t)
      BY <2>3, <2>4, <2>5 DEF TaskStep
    <2>7. <<t, n>> \in waiting
      BY <2>1, <2>6 DEF Finish
    <2> QED BY <2>6, <2>7
  <1>7. PICK t \in Task : Finish(t) /\ <<t, n>> \in waiting
    BY <1>6
  <1>8. t = p
    BY <1>1, <1>2, <1>3, <1>5, <1>7 DEF UsersOnly, OneUser
  <1> QED BY <1>4, <1>7, <1>8 DEF Finish, IInv, TypeOK

\* No data movement task of such a program runs too early, and every task
\* finds the last version of its operands.
THEOREM OneUserIsFresh ==
    ASSUME WholeOperands, Ordered, OneUser
    PROVE  Spec => []OperandsFresh
  <1>1. Init => UsersOnly
    BY DEF Init, UsersOnly, NoMap
  <1>2. IInv /\ UsersOnly /\ [Next]_vars => [~EnqueuedEarly]_vars
    BY NeverEarly
  <1>3. Spec => [][~EnqueuedEarly]_vars
    BY <1>1, <1>2, InitIInv, NextIInv, NextUsersOnly, PTL DEF Spec
  <1> QED BY <1>3, OperandsAreFresh, PTL
=============================================================================
