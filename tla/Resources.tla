----------------------------- MODULE Resources -----------------------------
(***************************************************************************)
(* The resources of the devices: class ResourcePool of                     *)
(* parla/task_runtime.py with its tracking of where PArrays are, the       *)
(* assignment policy, the allocations of the mapper, and what a task gives *)
(* back when its run ends.                                                 *)
(*                                                                         *)
(* One thread at a time is the mapper (the mapping phase has a monitor),   *)
(* while other threads run tasks: every use of a device's monitor is an    *)
(* action.  Tasks have no dependencies but their data movement tasks,      *)
(* which are only counted here (module DataMovement has them).  Arrays are *)
(* complete, so nbytes_at is nbytes.  The only multi-resource allocation   *)
(* blocks, so that the roll back of a failed one is never reached.         *)
(***************************************************************************)
EXTENDS Integers, FiniteSets, FiniteSetsExt, SequencesExt

CONSTANTS Task,       \* compute tasks the program spawns
          Array,      \* PArrays it creates
          Dev,        \* devices
          Capacity,   \* Device.resources
          Placement,  \* the devices a task may be mapped to
          Need,       \* the resources a task asks for (spawn's memory, vcus)
          Uses,       \* its input and inout arrays
          Out,        \* its output arrays
          Awaiting,   \* tasks whose body awaits once
          Home,       \* the device an array is created on
          Size,       \* its bytes
          Empty,      \* arrays without data until their writer fills them
          MapLimit,   \* turns of the loop of _map_tasks (3)
          None

Resource == <<"memory", "vcus">>
Names == {"memory", "vcus"}

ASSUME ResourcesAssumption ==
    /\ IsFiniteSet(Task) /\ IsFiniteSet(Array) /\ IsFiniteSet(Dev)
    /\ Capacity \in [Dev -> [Names -> Nat]] /\ Need \in [Task -> [Names -> Nat]]
    /\ \A d \in Dev : Capacity[d]["memory"] > 0
    /\ Placement \in [Task -> (SUBSET Dev) \ {{}}]
    /\ Uses \in [Task -> SUBSET Array] /\ Out \in [Task -> SUBSET Array]
    /\ Awaiting \subseteq Task /\ Empty \subseteq Array
    /\ Home \in [Array -> Dev] /\ Size \in [Array -> Nat]
    /\ MapLimit \in Nat \ {0}
    /\ None \notin Task \cup Dev

\* All arrays and all tasks that may be mapped to d have room there at once.
RoomOn(d) == SumFunctionOnSet(Size, Array)
             + SumFunctionOnSet([t \in Task |-> Need[t]["memory"]], {t \in Task : d \in Placement[t]})
             <= Capacity[d]["memory"]

\* The programs and machines the properties are about.  What is created or
\* filled is charged unchecked, so its device has room for everything; on
\* the other devices the policy's check covers all that a task brings.  An
\* array is filled where it is; a body that awaits asks for nothing, since
\* each of its runs gives back what it asked for.
Fitting ==
    /\ \A a \in Array : RoomOn(Home[a])
    /\ \A t \in Task : \A d \in Placement[t] : RoomOn(d) \/ Out[t] \subseteq Uses[t]
    /\ \A t \in Task : \A a \in Empty : a \in Uses[t] \cup Out[t] => Placement[t] = {Home[a]}
    /\ \A t \in Awaiting : \A r \in Names : Need[t][r] = 0

VARIABLES avail,     \* ResourcePool._devices
          tracker,   \* ResourcePool._managed_parrays: locations and nbytes
          place,     \* where each task is
          queue,     \* the new and the current spawned queue, from the left
          dev,       \* the device of a mapped task
          resumed,   \* tasks that have awaited
          moving,    \* data movement tasks still to finish for a task
          launched,  \* Scheduler._device_launched_compute_task_counts
          mapped,    \* Scheduler._device_mapped_compute_task_counts
          mapper     \* the local variables of _map_tasks and its callees

vars == <<avail, tracker, place, queue, dev, resumed, moving, launched, mapped, mapper>>

Idle == [pc |-> "idle", tries |-> 0, task |-> None, todo |-> {}, total |-> 0, best |-> None, score |-> 0, taken |-> 0]

\* the pool never holds more than the device has, nor less than nothing
TypeOK ==
    /\ DOMAIN avail = Dev
    /\ \A d \in Dev, r \in Names : avail[d][r] \in 0 .. Capacity[d][r]
    /\ tracker \in [Array -> [on : SUBSET Dev, nbytes : Nat]]
    /\ place \in [Task -> {"unspawned", "spawned", "mapping", "mapped", "running", "done"}]
    /\ dev \in [Task -> Dev \cup {None}]
    /\ resumed \subseteq Awaiting
    /\ moving \in [Task -> Nat]
    /\ \A t \in Task : moving[t] <= Cardinality(Uses[t]) + Cardinality(Out[t])
    /\ launched \in [Dev -> 0 .. Cardinality(Task)]
    /\ mapped \in [Dev -> Int]
    /\ queue \in [new : Seq(Task), curr : Seq(Task)]
    /\ mapper.pc \in {"idle", "loop", "policy", "register", "allocate"}
    /\ mapper.tries \in 0 .. MapLimit
    /\ mapper.taken \in 0 .. Len(Resource)

Init == /\ avail = Capacity
        /\ tracker = [a \in Array |-> [on |-> {}, nbytes |-> 0]]
        /\ place = [t \in Task |-> "unspawned"]
        /\ queue = [new |-> <<>>, curr |-> <<>>]
        /\ dev = [t \in Task |-> None]
        /\ resumed = {}
        /\ moving = [t \in Task |-> 0]
        /\ launched = [d \in Dev |-> 0] /\ mapped = [d \in Dev |-> 0]
        /\ mapper = Idle

Tracked(a) == tracker[a].on # {}
Bytes(a) == IF a \in Empty THEN tracker[a].nbytes ELSE Size[a]

\* allocate_resources of memory without blocking, whose callers ignore
\* whether it succeeded
TryTake(av, d, n) == IF n <= av[d]["memory"] THEN [av EXCEPT ![d]["memory"] = @ - n] ELSE av

\* mutant: once for each resource
ReturnPerResource(d, t) ==
    [avail EXCEPT ![d] = [r \in Names |-> @[r] + Len(Resource) * Need[t][r]]]

\* deallocate_resources: never refused
Return(d, t) == [avail EXCEPT ![d] = [r \in Names |-> @[r] + Need[t][r]]]

-----------------------------------------------------------------------------
(* The program.                                                            *)

\* PArray.__init__ and track_parray
Track(a) == /\ ~Tracked(a)
            /\ tracker' = [tracker EXCEPT ![a] = [on |-> {Home[a]}, nbytes |-> Bytes(a)]]
            /\ avail' = TryTake(avail, Home[a], Bytes(a))
            /\ UNCHANGED <<place, queue, dev, resumed, moving, launched, mapped, mapper>>

\* spawn, after the arrays of the task have been created
Spawn(t) == /\ place[t] = "unspawned"
            /\ \A a \in Uses[t] \cup Out[t] : Tracked(a)
            /\ place' = [place EXCEPT ![t] = "spawned"]
            /\ queue' = [queue EXCEPT !.new = <<t>> \o @]
            /\ UNCHANGED <<avail, tracker, dev, resumed, moving, launched, mapped, mapper>>

-----------------------------------------------------------------------------
(* The assignment policy.                                                  *)

Moves(d) == {t \in Task : place[t] \in {"mapping", "mapped"} /\ dev[t] = d}
Load(d) == mapped[d] + SumFunctionOnSet(moving, Moves(d))

Local(t, d) == {a \in Uses[t] : d \in tracker[a].on}
BytesOf(S) == SumFunctionOnSet([a \in Array |-> Bytes(a)], S)

\* mutant: the data to be moved is not counted
FitsWithoutData(t, d) == \A r \in Names : Need[t][r] <= avail[d][r]

\* check_resources_availability of what the task asks for and of the input
\* and inout data to be moved
Fits(t, d) == /\ Need[t]["memory"] + BytesOf(Uses[t] \ Local(t, d)) <= avail[d]["memory"]
              /\ Need[t]["vcus"] <= avail[d]["vcus"]

\* the suitability of a device, times the number of mapped tasks and the
\* product of all memory sizes to make it a whole number
Suitability(t, d, total) ==
    LET scale == FoldSet(LAMBDA e, product : product * Capacity[e]["memory"], 1, Dev)
        T == IF total > 0 THEN total ELSE 1
        local == BytesOf(Local(t, d))
        nonlocal == BytesOf(Uses[t] \ Local(t, d))
        load == IF Load(d) * Cardinality(Placement[t]) < T THEN -T ELSE Load(d)
    IN  30 * (local - nonlocal) * T * (scale \div Capacity[d]["memory"]) - load * scale

\* _map_tasks begins; fill_curr_spawned_task_queue puts the new tasks to the
\* right, and the one on the right is taken next: a new batch comes before
\* what is left of the last one
BeginMapping ==
    /\ mapper.pc = "idle" /\ queue # [new |-> <<>>, curr |-> <<>>]
    /\ queue' = IF Len(queue.curr) < MapLimit THEN [new |-> <<>>, curr |-> queue.curr \o queue.new] ELSE queue
    /\ mapper' = [mapper EXCEPT !.pc = "loop"]
    /\ UNCHANGED <<avail, tracker, place, dev, resumed, moving, launched, mapped>>

\* the next task, and the load of all its devices
PolicyBegins ==
    /\ mapper.pc = "loop" /\ mapper.tries < MapLimit /\ queue.curr # <<>>
    /\ LET t == Last(queue.curr)
       IN  /\ queue' = [queue EXCEPT !.curr = Front(@)]
           /\ place' = [place EXCEPT ![t] = "mapping"]
           /\ mapper' = [mapper EXCEPT !.pc = "policy", !.tries = @ + 1, !.task = t, !.todo = Placement[t],
                                       !.total = SumFunctionOnSet([d \in Dev |-> Load(d)], Placement[t])]
    /\ UNCHANGED <<avail, tracker, dev, resumed, moving, launched, mapped>>

MappingEnds ==
    /\ mapper.pc = "loop" /\ (mapper.tries = MapLimit \/ queue.curr = <<>>)
    /\ mapper' = Idle
    /\ UNCHANGED <<avail, tracker, place, queue, dev, resumed, moving, launched, mapped>>

\* one device is looked at; the first of the best is kept
Consider(d) ==
    LET t == mapper.task
        score == Suitability(t, d, mapper.total)
        better == Fits(t, d) /\ (mapper.best = None \/ score > mapper.score)
    IN  /\ mapper.pc = "policy" /\ d \in mapper.todo
        /\ mapper' = [mapper EXCEPT !.todo = @ \ {d},
                                    !.best = IF better THEN d ELSE @,
                                    !.score = IF better THEN score ELSE @]
        /\ UNCHANGED <<avail, tracker, place, queue, dev, resumed, moving, launched, mapped>>

\* mutant: the task is dropped
AssignmentDropped ==
    /\ mapper.pc = "policy" /\ mapper.todo = {} /\ mapper.best = None
    /\ mapper' = Idle
    /\ UNCHANGED <<avail, tracker, place, queue, dev, resumed, moving, launched, mapped>>

\* no device fits: back to the new tasks, and the loop ends
AssignmentFails ==
    /\ mapper.pc = "policy" /\ mapper.todo = {} /\ mapper.best = None
    /\ place' = [place EXCEPT ![mapper.task] = "spawned"]
    /\ queue' = [queue EXCEPT !.new = <<mapper.task>> \o @]
    /\ mapper' = Idle
    /\ UNCHANGED <<avail, tracker, dev, resumed, moving, launched, mapped>>

-----------------------------------------------------------------------------
(* The mapper with an assigned device.                                     *)

\* a data movement task for each operand
ConstructMoves ==
    LET t == mapper.task
    IN  /\ mapper.pc = "policy" /\ mapper.todo = {} /\ mapper.best # None
        /\ dev' = [dev EXCEPT ![t] = mapper.best]
        /\ moving' = [moving EXCEPT ![t] = Cardinality(Uses[t]) + Cardinality(Out[t])]
        /\ mapper' = [mapper EXCEPT !.pc = "register", !.todo = Uses[t] \cup Out[t]]
        /\ UNCHANGED <<avail, tracker, place, queue, resumed, launched, mapped>>

\* mutant: memory is taken for a copy that was there
RegisterAgain(a) ==
    LET d == mapper.best
    IN  /\ mapper.pc = "register" /\ a \in mapper.todo
        /\ mapper' = [mapper EXCEPT !.todo = @ \ {a}]
        /\ tracker' = [tracker EXCEPT ![a].on = @ \cup {d}]
        /\ avail' = TryTake(avail, d, Bytes(a))
        /\ UNCHANGED <<place, queue, dev, resumed, moving, launched, mapped>>

\* register_parray_move, add_parray_to_device
Register(a) ==
    LET d == mapper.best
    IN  /\ mapper.pc = "register" /\ a \in mapper.todo
        /\ mapper' = [mapper EXCEPT !.todo = @ \ {a}]
        /\ tracker' = [tracker EXCEPT ![a].on = @ \cup {d}]
        /\ avail' = IF d \in tracker[a].on THEN avail ELSE TryTake(avail, d, Bytes(a))
        /\ UNCHANGED <<place, queue, dev, resumed, moving, launched, mapped>>

\* the mapped count, before the allocation
CountMapped ==
    /\ mapper.pc = "register" /\ mapper.todo = {}
    /\ mapped' = [mapped EXCEPT ![mapper.best] = @ + 1]
    /\ mapper' = [mapper EXCEPT !.pc = "allocate"]
    /\ UNCHANGED <<avail, tracker, place, queue, dev, resumed, moving, launched>>

\* allocate_resources with blocking, one resource after the other; a mapper
\* that does not get one waits on the device's monitor, with those it has
Allocate ==
    LET t == mapper.task
        d == mapper.best
        r == Resource[mapper.taken + 1]
    IN  /\ mapper.pc = "allocate" /\ mapper.taken < Len(Resource)
        /\ Need[t][r] <= avail[d][r]
        /\ avail' = [avail EXCEPT ![d][r] = @ - Need[t][r]]
        /\ mapper' = [mapper EXCEPT !.taken = @ + 1]
        /\ UNCHANGED <<tracker, place, queue, dev, resumed, moving, launched, mapped>>

\* set_assigned
Mapped == /\ mapper.pc = "allocate" /\ mapper.taken = Len(Resource)
          /\ place' = [place EXCEPT ![mapper.task] = "mapped"]
          /\ mapper' = [Idle EXCEPT !.pc = "loop", !.tries = mapper.tries]
          /\ UNCHANGED <<avail, tracker, queue, dev, resumed, moving, launched, mapped>>

-----------------------------------------------------------------------------
(* Tasks on their devices.                                                 *)

\* DataMovementTask._finish: nothing is given back
MoveEnds(t) == /\ moving[t] > 0 /\ place[t] \in {"mapping", "mapped"} /\ mapper.pc # "register"
               /\ moving' = [moving EXCEPT ![t] = @ - 1]
               /\ UNCHANGED <<avail, tracker, place, queue, dev, resumed, launched, mapped, mapper>>

Launch(t) == /\ place[t] = "mapped" /\ moving[t] = 0
             /\ place' = [place EXCEPT ![t] = "running"]
             /\ launched' = [launched EXCEPT ![dev[t]] = @ + 1]
             /\ UNCHANGED <<avail, tracker, queue, dev, resumed, moving, mapped, mapper>>

\* update_parray_nbytes for an output array that had no data
Filled(t) == IF t \in resumed THEN {} ELSE {a \in Out[t] : tracker[a].nbytes = 0}

\* one after the other
TakeEach(av, d, S) == FoldSet(LAMBDA a, rest : TryTake(rest, d, Size[a]), av, S)

\* ComputeTask._finish, at the end of every run of the task, suspended or not
FinishRun(t, next) ==
    /\ place[t] = "running"
    /\ avail' = TakeEach(Return(dev[t], t), dev[t], Filled(t))
    /\ tracker' = [a \in Array |-> IF a \in Filled(t) THEN [tracker[a] EXCEPT !.nbytes = Size[a]] ELSE tracker[a]]
    /\ mapped' = [mapped EXCEPT ![dev[t]] = @ - 1]
    /\ launched' = [launched EXCEPT ![dev[t]] = @ - 1]
    /\ place' = [place EXCEPT ![t] = next]
    /\ UNCHANGED <<queue, dev, moving, mapper>>

\* the body awaits; when the awaited tasks have ended it is launched again
Suspend(t) == /\ t \in Awaiting \ resumed
              /\ FinishRun(t, "mapped")
              /\ resumed' = resumed \cup {t}

Complete(t) == /\ t \notin Awaiting \ resumed
               /\ FinishRun(t, "done")
               /\ UNCHANGED resumed

MapperStep == \/ BeginMapping \/ PolicyBegins \/ MappingEnds
              \/ \E d \in Dev : Consider(d)
              \/ AssignmentFails \/ ConstructMoves
              \/ \E a \in Array : Register(a)
              \/ CountMapped \/ Allocate \/ Mapped

TaskStep(t) == MoveEnds(t) \/ Launch(t) \/ Suspend(t) \/ Complete(t)

Next == \/ \E a \in Array : Track(a)
        \/ \E t \in Task : Spawn(t) \/ TaskStep(t)
        \/ MapperStep

\* the callbacks after each spawn and each task keep the mapper going, and
\* the workers the tasks; which task is tried next is up to the queues
Fairness == /\ WF_vars(MapperStep) /\ \A t \in Task : WF_vars(TaskStep(t))

Spec == Init /\ [][Next]_vars /\ Fairness

-----------------------------------------------------------------------------
(* Properties.                                                             *)

\* what a task holds: all of it from its allocation to the end of its run,
\* a part of it while the mapper allocates
Held(t, r) ==
    CASE place[t] = "mapping" -> IF \E i \in 1 .. mapper.taken : Resource[i] = r THEN Need[t][r] ELSE 0
      [] place[t] \in {"mapped", "running"} /\ t \notin resumed -> Need[t][r]
      [] OTHER -> 0

HeldOn(d, r) == SumFunctionOnSet([t \in Task |-> Held(t, r)], {t \in Task : dev[t] = d})
CopiesOn(d) == BytesOf({a \in Array : d \in tracker[a].on})

\* What the pool has given away on a device is what tasks there hold and,
\* for the memory, the copies of arrays registered there: no allocation was
\* silently refused, nothing is returned twice, and no memory leaks.  The
\* machine must have room for arrays that are created or filled (Fitting).
PoolExact == \A d \in Dev :
    /\ Capacity[d]["memory"] - avail[d]["memory"] = HeldOn(d, "memory") + CopiesOn(d)
    /\ Capacity[d]["vcus"] - avail[d]["vcus"] = HeldOn(d, "vcus")

\* The mapper never tries to allocate what is not available: between the
\* policy's check and the allocation the moves of the task itself take no
\* more than was checked and other tasks only give back.  An array that is
\* created or filled meanwhile takes memory unchecked; the machine must have
\* room for that (Fitting).
MapperNeverWaits ==
    mapper.pc = "allocate" /\ mapper.taken < Len(Resource) =>
        LET r == Resource[mapper.taken + 1]
        IN  Need[mapper.task][r] <= avail[mapper.best][r]

\* Every spawned task ends, also one that finds no device with its resources
\* until others have given theirs back, and although the queues put tasks
\* that are spawned meanwhile, and those refused, before it.
EveryTaskEnds == \A t \in Task : place[t] = "spawned" ~> place[t] = "done"
=============================================================================
