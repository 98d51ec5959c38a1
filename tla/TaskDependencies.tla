-------------------------- MODULE TaskDependencies --------------------------
(***************************************************************************)
(* The life of a Parla task and the bookkeeping of its dependencies:       *)
(* classes Task and ComputeTask of parla/task_runtime.py, the mapper's     *)
(* part that admits and assigns tasks, and the launcher's hand-over to a   *)
(* worker.                                                                 *)
(*                                                                         *)
(* Each task has a mutex.  Task.run() holds it from the start of the body  *)
(* until the new state is stored, and Task.__init__ holds it while the     *)
(* task registers with its dependencies; every other use is one short      *)
(* critical section, which is one action here, enabled while nobody holds  *)
(* the mutex.  A step that needs the mutex of another task is therefore    *)
(* an action of its own.                                                   *)
(*                                                                         *)
(* The program is given by constants: who spawns each task, with which     *)
(* dependencies, which barriers its body awaits, which bodies may raise.   *)
(* A body spawns its tasks in any order, between any of its barriers.      *)
(* Queues are sets or counters (their order is not relied on), and the     *)
(* ready queue and the device queues are one.  Which thread runs the       *)
(* mapper's and the launcher's callbacks is left open.  Tasks here have no *)
(* data operands and run on one device.                                    *)
(***************************************************************************)
EXTENDS Integers, Sequences, FiniteSets

CONSTANTS Task,      \* tasks the program may spawn
          Main,      \* the code inside `with Parla():`
          Parent,    \* who spawns each task: Main or the body of a task
          Deps,      \* dependencies each task is spawned with
          Awaits,    \* the barriers a body awaits, in order: sets of tasks
          MayRaise,  \* tasks whose body may end with an exception
          Workers    \* number of worker threads

Ctx == Task \cup {Main}

ASSUME ProgramAssumption ==
    /\ Main \notin Task
    /\ IsFiniteSet(Task)
    /\ Parent \in [Task -> Ctx]
    /\ Deps \in [Task -> SUBSET Task]
    /\ Awaits \in [Task -> Seq(SUBSET Task)]
    /\ MayRaise \subseteq Task
    /\ Workers \in Nat \ {0}

VARIABLES
    state,        \* Task._state, and the two halves of the constructor
    pc,           \* where the thread executing run(), or Main, is
    step,         \* barriers each body has passed or reached
    outcome,      \* the terminal state a run is about to store
    deps,         \* Task._dependencies
    unreg,        \* dependencies the setter has yet to register with
    dependents,   \* dependents[d][t]: how often Task._dependents of d lists t
    numBlocking,  \* Task._num_blocking_dependencies
    assigned,     \* Task._assigned
    newQ,         \* Scheduler._new_spawned_task_queue
    fill,         \* tasks fill_curr_spawned_task_queue has yet to examine
    mapQ,         \* Scheduler._spawned_task_queue
    checking,     \* task the mapper has assigned and not yet checked
    ready,        \* entries of each task in the ready and device queues
    launched,     \* workers given the task that have not begun its run()
    free,         \* Scheduler._free_worker_threads: how many
    active,       \* Scheduler._active_task_count
    stopped       \* ~Scheduler._should_run

taskVars  == <<state, pc, step, outcome>>
depVars   == <<deps, unreg, dependents, numBlocking>>
mapVars   == <<assigned, newQ, fill, mapQ, checking>>
schedVars == <<ready, launched, free, active, stopped>>
vars == <<taskVars, depVars, mapVars, schedVars>>

State == {"Unspawned", "Registering", "Registered", "Running",
          "Completed", "Exception"}

TypeOK == /\ state \in [Task -> State]
          /\ pc \in [Ctx -> {"idle", "body", "spawning", "notifying",
                             "updating", "exited", "raised"}]
          /\ step \in [Task -> Nat]
          /\ outcome \in [Task -> {"Completed", "Exception"}]
          /\ deps \in [Task -> SUBSET Task]
          /\ unreg \in [Task -> SUBSET Task]
          /\ dependents \in [Task -> [Task -> Nat]]
          /\ numBlocking \in [Task -> Int]
          /\ assigned \in [Task -> BOOLEAN]
          /\ newQ \subseteq Task /\ fill \subseteq Task /\ mapQ \subseteq Task
          /\ checking \subseteq Task
          /\ ready \in [Task -> Nat]
          /\ launched \in [Task -> Nat]
          /\ free \in Nat
          /\ active \in Int
          /\ stopped \in BOOLEAN

Terminal(t) == state[t] \in {"Completed", "Exception"}

\* TaskID.task is set, so _flat_tasks turns the id into a task
HasTask(t) == state[t] = "Running" \/ Terminal(t)


\* nobody holds t._mutex
MutexFree(t) == state[t] # "Registering" /\ pc[t] = "idle"

Schedulable(t) == state[t] = "Running" /\ numBlocking[t] = 0 /\ assigned[t]

Init == /\ state = [t \in Task |-> "Unspawned"]
        /\ pc = [c \in Ctx |-> IF c = Main THEN "body" ELSE "idle"]
        /\ step = [t \in Task |-> 0]
        /\ outcome = [t \in Task |-> "Completed"]
        /\ deps = [t \in Task |-> {}]
        /\ unreg = [t \in Task |-> {}]
        /\ dependents = [d \in Task |-> [t \in Task |-> 0]]
        /\ numBlocking = [t \in Task |-> 0]
        /\ assigned = [t \in Task |-> FALSE]
        /\ newQ = {} /\ fill = {} /\ mapQ = {} /\ checking = {}
        /\ ready = [t \in Task |-> 0]
        /\ launched = [t \in Task |-> 0]
        /\ free = Workers
        /\ active = 1
        /\ stopped = FALSE

-----------------------------------------------------------------------------
(* Counters shared by several actions.                                     *)

\* Scheduler.decr_active_tasks: the last one stops the scheduler
DecrActive == /\ active' = active - 1
              /\ stopped' = (stopped \/ active' = 0)

Enqueue(t) == ready' = [ready EXCEPT ![t] = @ + 1]

\* The `dependencies` setter up to its loop: count them all as blocking
BeginDependencies(t, S) == /\ deps' = [deps EXCEPT ![t] = S]
                           /\ unreg' = [unreg EXCEPT ![t] = S]
                           /\ numBlocking' = [numBlocking EXCEPT ![t] = Cardinality(S)]
                           /\ UNCHANGED dependents

-----------------------------------------------------------------------------
(* Spawning.                                                               *)

\* spawn() when all dependencies have a task: Task.__init__ takes the mutex
BeginSpawn(c, t) ==
    /\ pc[c] = "body" /\ Parent[t] = c /\ state[t] = "Unspawned"
    /\ \A d \in Deps[t] : HasTask(d)
    /\ pc' = [pc EXCEPT ![c] = "spawning"]
    /\ state' = [state EXCEPT ![t] = "Registering"]
    /\ BeginDependencies(t, Deps[t])
    /\ UNCHANGED <<step, outcome, mapVars, schedVars>>

\* spawn_task() when a dependency is still a TaskID: the id of the new task
\* has no task either, so UnspawnedDependencies.add raises in the spawner
SpawnRejected(c, t) ==
    /\ pc[c] = "body" /\ Parent[t] = c /\ state[t] = "Unspawned"
    /\ \E d \in Deps[t] : ~HasTask(d)
    /\ IF c = Main
         THEN /\ pc' = [pc EXCEPT ![c] = "raised"]
              /\ DecrActive
              /\ UNCHANGED outcome
         ELSE /\ pc' = [pc EXCEPT ![c] = "notifying"]
              /\ outcome' = [outcome EXCEPT ![c] = "Exception"]
              /\ UNCHANGED <<active, stopped>>
    /\ UNCHANGED <<state, step, depVars, mapVars, ready, launched, free>>

\* (faulty: a dependency that has finished is not discounted)
RegisterUncounted(t, d) ==
    /\ d \in unreg[t] /\ MutexFree(d)
    /\ unreg' = [unreg EXCEPT ![t] = @ \ {d}]
    /\ dependents' = [dependents EXCEPT ![d][t] = @ + (IF Terminal(d) THEN 0 ELSE 1)]
    /\ UNCHANGED <<taskVars, deps, numBlocking, mapVars, schedVars>>

\* (faulty: a finished dependency takes the dependent on its list)
RegisterUnchecked(t, d) ==
    /\ d \in unreg[t] /\ MutexFree(d)
    /\ unreg' = [unreg EXCEPT ![t] = @ \ {d}]
    /\ dependents' = [dependents EXCEPT ![d][t] = @ + 1]
    /\ UNCHANGED <<taskVars, deps, numBlocking, mapVars, schedVars>>

\* The setter's loop, in Task.__init__ or, under run()'s mutex, at an await:
\* d._add_dependent_mutex(t), which a terminal d refuses
Register(t, d) ==
    /\ d \in unreg[t]
    /\ MutexFree(d)
    /\ unreg' = [unreg EXCEPT ![t] = @ \ {d}]
    /\ IF Terminal(d)
         THEN /\ numBlocking' = [numBlocking EXCEPT ![t] = @ - 1]
              /\ UNCHANGED dependents
         ELSE /\ dependents' = [dependents EXCEPT ![d][t] = @ + 1]
              /\ UNCHANGED numBlocking
    /\ UNCHANGED <<taskVars, deps, mapVars, schedVars>>

\* Task.__init__ releases the mutex
EndInit(t) == /\ state[t] = "Registering" /\ unreg[t] = {}
              /\ state' = [state EXCEPT ![t] = "Registered"]
              /\ UNCHANGED <<pc, step, outcome, depVars, mapVars, schedVars>>

\* (faulty: the new task is not counted as active)
PublishUncounted(t) ==
    /\ state[t] = "Registered" /\ fill = {}
    /\ state' = [state EXCEPT ![t] = "Running"]
    /\ pc' = [pc EXCEPT ![Parent[t]] = "body"]
    /\ newQ' = newQ \cup {t}
    /\ UNCHANGED <<step, outcome, depVars, assigned, fill, mapQ, checking, schedVars>>

\* ComputeTask.__init__: the id gets its task, _ready_to_map, and the spawner
\* goes on.  enqueue_spawned_task waits for a fill in progress.
Publish(t) ==
    /\ state[t] = "Registered" /\ fill = {}
    /\ state' = [state EXCEPT ![t] = "Running"]
    /\ pc' = [pc EXCEPT ![Parent[t]] = "body"]
    /\ newQ' = newQ \cup {t}
    /\ active' = active + 1
    /\ UNCHANGED <<step, outcome, depVars, assigned, fill, mapQ, checking,
                   ready, launched, free, stopped>>

\* Main leaves the `with` block: Scheduler.__exit__
MainExit == /\ pc[Main] = "body"
            /\ \A t \in Task : Parent[t] = Main => HasTask(t)
            /\ pc' = [pc EXCEPT ![Main] = "exited"]
            /\ DecrActive
            /\ UNCHANGED <<state, step, outcome, depVars, mapVars, ready, launched, free>>

-----------------------------------------------------------------------------
(* The mapper: fill_curr_spawned_task_queue and _map_tasks.                *)

\* fill_curr_spawned_task_queue takes _spawned_queue_monitor
FillBegin == /\ fill = {} /\ checking = {} /\ newQ # {}
             /\ fill' = newQ
             /\ newQ' = {}
             /\ UNCHANGED <<taskVars, depVars, assigned, mapQ, checking, schedVars>>

\* check_all_dependency_mapped, which takes the mutex of each dependency
\* while the monitor stays held
FillExamine(t) ==
    /\ t \in fill
    /\ \A d \in deps[t] : MutexFree(d)
    /\ fill' = fill \ {t}
    /\ IF \A d \in deps[t] : assigned[d]
         THEN mapQ' = mapQ \cup {t} /\ UNCHANGED newQ
         ELSE newQ' = newQ \cup {t} /\ UNCHANGED mapQ
    /\ UNCHANGED <<taskVars, depVars, assigned, checking, schedVars>>

\* _assignment_policy finds no device with the resources: back to the queue
AssignFails(t) == /\ t \in mapQ /\ fill = {} /\ checking = {}
                  /\ mapQ' = mapQ \ {t}
                  /\ newQ' = newQ \cup {t}
                  /\ UNCHANGED <<taskVars, depVars, assigned, fill, checking, schedVars>>

\* the policy chose a device: task.set_assigned()
SetAssigned(t) == /\ t \in mapQ /\ fill = {} /\ checking = {}
                  /\ MutexFree(t)
                  /\ mapQ' = mapQ \ {t}
                  /\ assigned' = [assigned EXCEPT ![t] = TRUE]
                  /\ checking' = {t}
                  /\ UNCHANGED <<taskVars, depVars, newQ, fill, schedVars>>

\* (faulty: the mapper does not look at what blocks the task)
EnqueueUnchecked(t) ==
    /\ t \in checking /\ MutexFree(t)
    /\ checking' = {}
    /\ Enqueue(t)
    /\ UNCHANGED <<taskVars, depVars, assigned, newQ, fill, mapQ,
                   launched, free, active, stopped>>

\* then, in a second critical section, enqueue it if nothing blocks it
EnqueueUnblocked(t) ==
    /\ t \in checking
    /\ MutexFree(t)
    /\ checking' = {}
    /\ IF numBlocking[t] = 0 THEN Enqueue(t) ELSE UNCHANGED ready
    /\ UNCHANGED <<taskVars, depVars, assigned, newQ, fill, mapQ,
                   launched, free, active, stopped>>

-----------------------------------------------------------------------------
(* The launcher and Task.run().                                            *)

\* (faulty: no worker need be free)
LaunchWithoutWorker(t) ==
    /\ ready[t] > 0 /\ active # 0
    /\ ready' = [ready EXCEPT ![t] = @ - 1]
    /\ free' = free - 1
    /\ launched' = [launched EXCEPT ![t] = @ + (IF state[t] = "Completed" THEN 0 ELSE 1)]
    /\ UNCHANGED <<taskVars, depVars, mapVars, active, stopped>>

\* _launch_task pops the queue and a worker; a completed task is dropped,
\* and the popped worker with it
Launch(t) == /\ ready[t] > 0 /\ free > 0 /\ active # 0
             /\ ready' = [ready EXCEPT ![t] = @ - 1]
             /\ free' = free - 1
             /\ IF state[t] = "Completed"
                  THEN UNCHANGED launched
                  ELSE launched' = [launched EXCEPT ![t] = @ + 1]
             /\ UNCHANGED <<taskVars, depVars, mapVars, active, stopped>>

\* run() takes the mutex; `assert isinstance(self._state, TaskRunning)`
StartRun(t) == /\ launched[t] > 0
               /\ MutexFree(t)
               /\ launched' = [launched EXCEPT ![t] = @ - 1]
               /\ IF state[t] = "Running"
                    THEN /\ pc' = [pc EXCEPT ![t] = "body"]
                         /\ UNCHANGED outcome
                    ELSE /\ pc' = [pc EXCEPT ![t] = "notifying"]
                         /\ outcome' = [outcome EXCEPT ![t] = "Exception"]
               /\ UNCHANGED <<state, step, depVars, mapVars, ready, free, active, stopped>>

\* the body returns, having spawned all its tasks and passed its barriers,
\* or raises
BodyEnds(t, result) ==
    /\ pc[t] = "body"
    /\ \/ /\ result = "Completed"
          /\ step[t] = Len(Awaits[t])
          /\ \A u \in Task : Parent[u] = t => HasTask(u)
       \/ result = "Exception" /\ t \in MayRaise
    /\ pc' = [pc EXCEPT ![t] = "notifying"]
    /\ outcome' = [outcome EXCEPT ![t] = result]
    /\ UNCHANGED <<state, step, depVars, mapVars, schedVars>>

\* the body yields TaskAwaitTasks: ids without a task are filtered out and
\* _set_state(TaskRunning) starts the setter
Await(t) == /\ pc[t] = "body"
            /\ step[t] < Len(Awaits[t])
            /\ step' = [step EXCEPT ![t] = @ + 1]
            /\ pc' = [pc EXCEPT ![t] = "updating"]
            /\ BeginDependencies(t, {d \in Awaits[t][step[t] + 1] : HasTask(d)})
            /\ UNCHANGED <<state, outcome, mapVars, schedVars>>

\* (faulty: what was awaited may have finished in the meantime, unnoticed)
SuspendOnly(t) == /\ pc[t] = "updating" /\ unreg[t] = {}
                  /\ pc' = [pc EXCEPT ![t] = "idle"]
                  /\ free' = free + 1
                  /\ UNCHANGED <<state, step, outcome, depVars, mapVars, ready,
                                 launched, active, stopped>>

\* (faulty: it is enqueued whatever it waits for)
SuspendEnqueued(t) == /\ pc[t] = "updating" /\ unreg[t] = {}
                      /\ pc' = [pc EXCEPT ![t] = "idle"]
                      /\ Enqueue(t)
                      /\ free' = free + 1
                      /\ UNCHANGED <<state, step, outcome, depVars, mapVars,
                                     launched, active, stopped>>

\* _set_state(TaskRunning) after the setter: enqueue if nothing blocks it,
\* and the worker is free again
Suspend(t) == /\ pc[t] = "updating" /\ unreg[t] = {}
              /\ pc' = [pc EXCEPT ![t] = "idle"]
              /\ IF Schedulable(t) THEN Enqueue(t) ELSE UNCHANGED ready
              /\ free' = free + 1
              /\ UNCHANGED <<state, step, outcome, depVars, mapVars,
                             launched, active, stopped>>

\* (faulty: the counter drops and nobody enqueues the task)
NotifyOnly(d, t) ==
    /\ pc[d] = "notifying" /\ dependents[d][t] > 0 /\ MutexFree(t)
    /\ dependents' = [dependents EXCEPT ![d][t] = @ - 1]
    /\ numBlocking' = [numBlocking EXCEPT ![t] = @ - 1]
    /\ UNCHANGED <<taskVars, deps, unreg, mapVars, schedVars>>

\* (faulty: every notification enqueues the task)
NotifyEnqueued(d, t) ==
    /\ pc[d] = "notifying" /\ dependents[d][t] > 0 /\ MutexFree(t)
    /\ dependents' = [dependents EXCEPT ![d][t] = @ - 1]
    /\ numBlocking' = [numBlocking EXCEPT ![t] = @ - 1]
    /\ Enqueue(t)
    /\ UNCHANGED <<taskVars, deps, unreg, mapVars, launched, free, active, stopped>>

\* (faulty: a task stays on the list and is notified again)
NotifyKept(d, t) ==
    /\ pc[d] = "notifying" /\ dependents[d][t] > 0 /\ MutexFree(t)
    /\ numBlocking' = [numBlocking EXCEPT ![t] = IF @ > 0 THEN @ - 1 ELSE 0]
    /\ IF state[t] = "Running" /\ numBlocking[t] = 1 /\ assigned[t]
         THEN Enqueue(t)
         ELSE UNCHANGED ready
    /\ UNCHANGED <<taskVars, deps, unreg, dependents, mapVars, launched, free, active, stopped>>

\* _notify_dependents: t._handle_dependency_event_mutex
Notify(d, t) ==
    /\ pc[d] = "notifying" /\ dependents[d][t] > 0
    /\ MutexFree(t)
    /\ dependents' = [dependents EXCEPT ![d][t] = @ - 1]
    /\ numBlocking' = [numBlocking EXCEPT ![t] = @ - 1]
    /\ IF state[t] = "Running" /\ numBlocking[t] = 1 /\ assigned[t]
         THEN Enqueue(t)
         ELSE UNCHANGED ready
    /\ UNCHANGED <<taskVars, deps, unreg, mapVars, launched, free, active, stopped>>

\* _set_state of a terminal state, and the end of run()
Finish(t) == /\ pc[t] = "notifying"
             /\ \A u \in Task : dependents[t][u] = 0
             /\ state' = [state EXCEPT ![t] = outcome[t]]
             /\ pc' = [pc EXCEPT ![t] = "idle"]
             /\ DecrActive
             /\ free' = free + 1
             /\ UNCHANGED <<step, outcome, depVars, mapVars, ready, launched>>

-----------------------------------------------------------------------------
\* after stop() nothing more need happen
Stopped == stopped /\ UNCHANGED vars

Next == \/ \E t \in Task :
             \/ \E c \in Ctx : BeginSpawn(c, t) \/ SpawnRejected(c, t)
             \/ \E d \in Task : Register(t, d) \/ Notify(d, t)
             \/ \E r \in {"Completed", "Exception"} : BodyEnds(t, r)
             \/ EndInit(t) \/ Publish(t)
             \/ FillExamine(t) \/ AssignFails(t) \/ SetAssigned(t) \/ EnqueueUnblocked(t)
             \/ Launch(t) \/ StartRun(t) \/ Await(t) \/ Suspend(t) \/ Finish(t)
        \/ MainExit
        \/ FillBegin
        \/ Stopped

Spec == Init /\ [][Next]_vars
-----------------------------------------------------------------------------
(* Properties.                                                             *)

\* t's body has begun at least once
Started(t) == pc[t] # "idle" \/ step[t] > 0 \/ Terminal(t)

\* t's body has ended, whether or not the state says so yet
BodyDone(t) == Terminal(t) \/ pc[t] = "notifying"

\* dependencies that still count against a task that has not begun
Pending(t) == {d \in Deps[t] : d \in unreg[t] \/ dependents[d][t] > 0}

\* Every dependency a task has not begun for is counted exactly once: the
\* counter that registrations, refusals and notifications update under
\* different mutexes is the number of dependencies still to come.
CountsPending == \A t \in Task :
    ~Started(t) /\ state[t] # "Unspawned" => numBlocking[t] = Cardinality(Pending(t))

\* A body begins only after the bodies of all its dependencies have ended,
\* whichever of spawn, mapper and finishing dependencies comes last.
StartsAfterDeps == \A t \in Task : Started(t) => \A d \in Deps[t] : BodyDone(d)

\* No task is forgotten: a spawned task that is not being run is in the
\* mapper's hands, in the ready queues or with a worker, or is on the list
\* of a task that has yet to notify it.
NoTaskForgotten == \A t \in Task :
    state[t] = "Running" /\ pc[t] = "idle" =>
        \/ t \in newQ \cup fill \cup mapQ \cup checking
        \/ ready[t] + launched[t] > 0
        \/ \E d \in Task : dependents[d][t] > 0 /\ (pc[d] # "idle" \/ ~Terminal(d))

\* In particular none is lost before its first start: if it is not queued, a
\* dependency that is not finished will notify it.
NoNewTaskForgotten == \A t \in Task :
    state[t] = "Running" /\ ~Started(t) =>
        \/ t \in newQ \cup fill \cup mapQ \cup checking
        \/ ready[t] + launched[t] > 0
        \/ \E d \in Deps[t] : dependents[d][t] > 0 /\ ~Terminal(d)

\* Nobody waits for a finished task: a stored terminal state means that the
\* list of dependents is empty and stays so.
NoDependentOfFinished == \A d, t \in Task :
    Terminal(d) /\ pc[d] = "idle" => dependents[d][t] = 0

\* At any time a task is in the ready queues or with a worker at most once.
QueuedOnce == \A t \in Task :
    ready[t] + launched[t] + (IF pc[t] = "idle" THEN 0 ELSE 1) <= 1

\* The scheduler stops only when every task that was spawned has finished:
\* leaving `with Parla():` waits for all of them.
StopsLast == stopped => \A t \in Task : HasTask(t) => Terminal(t)

\* A stored terminal state, and with it the result of a task, is never
\* replaced by another.
TerminalIsFinal == [][\A t \in Task : Terminal(t) => state'[t] = state[t]]_vars

\* Who keeps whom from going on: the thread that holds the mutex a thread
\* needs next; a task under construction is in the hands of its spawner.  The
\* mapper holds the monitor of the spawned queue in a fill.
Holder(t) == IF state[t] \in {"Registering", "Registered"} THEN Parent[t] ELSE t
Held(t) == ~MutexFree(t)
Wants(c) == {t \in Task :
    /\ Held(t)
    /\ \/ \E u \in Task : t \in unreg[u] /\ c = Holder(u)
       \/ c \in Task /\ pc[c] = "notifying" /\ dependents[c][t] > 0}
MapperWants == {t \in Task : Held(t) /\ \E u \in fill : t \in deps[u]}
Publishing(c) == pc[c] = "spawning" /\ \E u \in Task : Parent[u] = c /\ state[u] = "Registered"

\* No set of threads waits for the mutexes of one another, nor for the
\* mapper while the mapper waits for one of them.
NoMutexCycle == \A S \in (SUBSET Ctx) \ {{}} : \E c \in S :
    /\ \A t \in Wants(c) : Holder(t) \notin S
    /\ Publishing(c) => \A t \in MapperWants : Holder(t) \notin S

\* Programs for which this holds (README): three shapes of program make
\* threads wait for one another, two bodies that await the same two tasks, a
\* dependency that spawns, and an awaited task that spawns beside siblings
\* with dependencies.
BarriersOnly == \A t \in Task : Deps[t] = {}

\* Every task is waited for by one context: the spawner of the tasks that
\* depend on it, or the body that awaits it; and nobody, in the end, by itself.
Owned(Owner) ==
    /\ \A t \in Task : \A d \in Deps[t] : Owner[d] = Parent[t]
    /\ \A t \in Task : \A i \in 1..Len(Awaits[t]) : \A d \in Awaits[t][i] : Owner[d] = t
    /\ \A T \in (SUBSET Task) \ {{}} : \E d \in T : \A e \in T : Owner[e] # d

\* what is waited for spawns nothing
LeavesAwaited == \A t, u \in Task :
    /\ Parent[u] \notin Deps[t]
    /\ \A i \in 1..Len(Awaits[t]) : Parent[u] \notin Awaits[t][i]

Structured == /\ \E Owner \in [Task -> Ctx] : Owned(Owner)
              /\ BarriersOnly \/ LeavesAwaited

-----------------------------------------------------------------------------
(* The abstract view of a task program.                                    *)

StatusOf(t) == IF ~HasTask(t) THEN "unspawned"
               ELSE IF BodyDone(t) THEN "finished"
               ELSE IF pc[t] \in {"body", "spawning"} THEN "executing"
               ELSE IF step[t] > 0 THEN "suspended"
               ELSE "spawned"

Graph == INSTANCE TaskGraph WITH
            status <- [t \in Task |-> StatusOf(t)],
            barrier <- [t \in Task |-> IF step[t] > 0 THEN deps[t] ELSE {}]

\* The runtime's steps are steps of the task program: bodies start after
\* their dependencies and continue after their barriers.
ImplementsTaskGraph == Graph!Spec
=============================================================================
