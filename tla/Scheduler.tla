----------------------------- MODULE Scheduler -----------------------------
(***************************************************************************)
(* The threads of parla/task_runtime.py that carry tasks from spawn to     *)
(* completion: the main thread and the workers, each of which calls the    *)
(* three callbacks of the scheduler (map, schedule, launch) after a spawn  *)
(* and after a task, the hand-over to a worker through its monitor, and    *)
(* the shutdown.                                                           *)
(*                                                                         *)
(* A callback tests its condition, and then takes its phase with a         *)
(* try-lock: a thread that finds it taken goes on without.  No variable    *)
(* holds the phase monitors; a phase is taken while a thread's pc is in    *)
(* it.  The decision to leave a phase and its release are two steps.       *)
(*                                                                         *)
(* Tasks here have no dependencies, never await and never raise (module    *)
(* TaskDependencies has all three).  Queues are sets: their order is not   *)
(* relied on.  The policy chooses any device of the task's placement, or   *)
(* none while some mapped task may hold what it needs.                     *)
(***************************************************************************)
EXTENDS Integers, FiniteSets, FiniteSetsExt, Functions

CONSTANTS Task,          \* tasks the program spawns
          Worker,        \* WorkerThread objects
          Main,          \* the thread inside `with Parla():`
          Parent,        \* who spawns each task: Main or the body of a task
          Placement,     \* the devices a task may be mapped to
          Dev,           \* devices
          Gpu,           \* those that are not the CPU
          NoTask,
          MapLimit,      \* mapping_limit of _map_tasks: 3
          MappedLimit,   \* mapping_limit of map_tasks_callback: 60
          ScheduleLimit, \* schedule_limit of _schedule_tasks: 4
          Colocatable    \* _num_colocatable_tasks: 2

Thread == Worker \cup {Main}

\* no task is its own ancestor: of the tasks of any set, one is spawned by
\* another task than these
ASSUME SchedulerAssumption ==
    /\ IsFiniteSet(Task) /\ IsFiniteSet(Worker) /\ IsFiniteSet(Dev)
    /\ Main \notin Task \cup Worker /\ NoTask \notin Task
    /\ Parent \in [Task -> Task \cup {Main}]
    /\ \A S \in SUBSET Task : S # {} => \E t \in S : Parent[t] \notin S
    /\ Dev # {} /\ Gpu \subseteq Dev
    /\ Placement \in [Task -> (SUBSET Dev) \ {{}}]
    /\ MapLimit \in Nat \ {0} /\ MappedLimit \in Nat \ {0} /\ ScheduleLimit \in Nat \ {0}
    /\ Colocatable \in Nat

VARIABLES pc,       \* where each thread is
          job,      \* WorkerThread.task
          place,    \* the queue or the hands each task is in
          dev,      \* the device of a mapped task
          turns,    \* turns taken in the mapping and in the scheduling phase
          visit,    \* devices the launching phase has yet to visit
          free,     \* Scheduler._free_worker_threads
          worked,   \* threads with a callback that succeeded in this round
          running,  \* Scheduler._running_task_count
          active,   \* Scheduler._active_task_count
          stopped,  \* ~Scheduler._should_run
          halted    \* workers with ~_should_run

vars == <<pc, job, place, dev, turns, visit, free, worked, running, active, stopped, halted>>

Mapping == {"mapping", "mapped"}
Scheduling == {"scheduling", "scheduled"}
Launching == {"launching", "launched"}
Callback == {"map", "schedule", "launch", "tryMap", "trySchedule", "tryLaunch", "again"} \cup Mapping \cup Scheduling \cup Launching

TypeOK ==
    /\ pc \in [Thread -> Callback \cup
                 {"init", "program", "exit", "returned", "stopping", "start", "loop", "get",
                  "waiting", "woken", "body", "remove", "append", "ended", "crashed"}]
    /\ job \in [Worker -> Task \cup {NoTask}]
    /\ place \in [Task -> {"unspawned", "new", "current", "ready", "queued", "given", "done"}]
    /\ dev \in [Task -> Dev]
    /\ turns \in [map : 0 .. MapLimit, failed : BOOLEAN, schedule : 0 .. ScheduleLimit]
    /\ visit \subseteq Dev
    /\ free \subseteq Worker
    /\ worked \subseteq Thread
    /\ running \in 1 .. Cardinality(Task) + 1
    /\ active \in 0 .. Cardinality(Task) + 1
    /\ stopped \in BOOLEAN
    /\ halted \subseteq Worker

At(p) == {t \in Task : place[t] = p}
Mapped == At("ready") \cup At("queued") \cup At("given")
GivenOn(d) == {t \in At("given") : dev[t] = d}
PhaseFree(P) == \A c \in Thread : pc[c] \notin P
Children(p) == {t \in Task : Parent[t] = p}

Init == /\ pc = [c \in Thread |-> IF c = Main THEN "init" ELSE "start"]
        /\ job = [w \in Worker |-> NoTask]
        /\ place = [t \in Task |-> "unspawned"]
        /\ dev = [t \in Task |-> CHOOSE d \in Placement[t] : TRUE]
        /\ turns = [map |-> 0, failed |-> FALSE, schedule |-> 0]
        /\ visit = {} /\ free = {} /\ worked = {}
        /\ running = 1 /\ active = 1
        /\ stopped = FALSE /\ halted = {}

Goto(c, l) == pc' = [pc EXCEPT ![c] = l]

-----------------------------------------------------------------------------
(* The program.                                                            *)

\* Scheduler.__init__ waits for one free worker
MainStarts == /\ pc[Main] = "init" /\ free # {}
              /\ Goto(Main, "program")
              /\ UNCHANGED <<job, place, dev, turns, visit, free, worked, running, active, stopped, halted>>

\* mutant: the task is queued and not counted as active
SpawnUncounted(c, t) ==
    /\ place[t] = "unspawned"
    /\ \/ c = Main /\ pc[c] = "program" /\ Parent[t] = Main
       \/ c \in Worker /\ pc[c] = "body" /\ Parent[t] = job[c]
    /\ place' = [place EXCEPT ![t] = "new"]
    /\ Goto(c, "map")
    /\ UNCHANGED <<job, dev, turns, visit, free, worked, running, active, stopped, halted>>

\* spawn: the task is counted and queued, and the callbacks follow
Spawn(c, t) ==
    /\ place[t] = "unspawned"
    /\ \/ c = Main /\ pc[c] = "program" /\ Parent[t] = Main
       \/ c \in Worker /\ pc[c] = "body" /\ Parent[t] = job[c]
    /\ place' = [place EXCEPT ![t] = "new"]
    /\ active' = active + 1
    /\ Goto(c, "map")
    /\ UNCHANGED <<job, dev, turns, visit, free, worked, running, stopped, halted>>

\* decr_active_tasks: who brings the count to zero stops the scheduler
DecrActive(c, l) == /\ active' = active - 1
                    /\ stopped' = (active = 1)
                    /\ Goto(c, IF active = 1 THEN "stopping" ELSE l)

\* Scheduler.__exit__
MainExits == /\ pc[Main] = "program"
             /\ \A t \in Children(Main) : place[t] # "unspawned"
             /\ DecrActive(Main, "exit")
             /\ UNCHANGED <<job, place, dev, turns, visit, free, worked, running, halted>>

\* __exit__ has seen _should_run fall, and has joined all workers
MainReturns == /\ pc[Main] = "exit" /\ stopped
               /\ \A w \in Worker : pc[w] = "ended"
               /\ Goto(Main, "returned")
               /\ UNCHANGED <<job, place, dev, turns, visit, free, worked, running, active, stopped, halted>>

\* Scheduler.stop: each worker's stop, which notifies it under its monitor
StopWorker(c, w) ==
    /\ pc[c] = "stopping" /\ w \notin halted
    /\ halted' = halted \cup {w}
    /\ IF pc[w] = "waiting" THEN Goto(w, "woken") ELSE UNCHANGED pc
    /\ UNCHANGED <<job, place, dev, turns, visit, free, worked, running, active, stopped>>

StopEnds(c) == /\ pc[c] = "stopping" /\ halted = Worker
               /\ Goto(c, IF c = Main THEN "exit" ELSE "remove")
               /\ UNCHANGED <<job, place, dev, turns, visit, free, worked, running, active, stopped, halted>>

-----------------------------------------------------------------------------
(* WorkerThread.run and Task.run.                                          *)

\* append_free_thread, before the loop and after a task
AppendFree(w) == /\ pc[w] \in {"start", "append"}
                 /\ free' = free \cup {w}
                 /\ Goto(w, IF pc[w] = "start" THEN "loop" ELSE "map")
                 /\ UNCHANGED <<job, place, dev, turns, visit, worked, running, active, stopped, halted>>

\* `while self._should_run`, read without the monitor
Loop(w) == /\ pc[w] = "loop"
           /\ Goto(w, IF w \in halted THEN "ended" ELSE "get")
           /\ UNCHANGED <<job, place, dev, turns, visit, free, worked, running, active, stopped, halted>>

\* under the monitor: wait, unless there is a task already
GetTask(w) == /\ pc[w] = "get"
              /\ Goto(w, IF job[w] = NoTask THEN "waiting" ELSE "body")
              /\ UNCHANGED <<job, place, dev, turns, visit, free, worked, running, active, stopped, halted>>

\* back from wait(): a worker without a task and without a stop raises
Wake(w) == /\ pc[w] = "woken"
           /\ Goto(w, IF job[w] # NoTask THEN "body"
                      ELSE IF w \in halted THEN "loop" ELSE "crashed")
           /\ UNCHANGED <<job, place, dev, turns, visit, free, worked, running, active, stopped, halted>>

\* mutant: the worker enters the free list before its task is removed
FinishFreed(w) == /\ pc[w] = "body"
                  /\ \A t \in Children(job[w]) : place[t] # "unspawned"
                  /\ place' = [place EXCEPT ![job[w]] = "done"]
                  /\ free' = free \cup {w}
                  /\ DecrActive(w, "remove")
                  /\ UNCHANGED <<job, dev, turns, visit, worked, running, halted>>

\* the body has spawned its tasks and returned; Task.run stores the state,
\* decrements the active count and gives the resources back
Finish(w) == /\ pc[w] = "body"
             /\ \A t \in Children(job[w]) : place[t] # "unspawned"
             /\ place' = [place EXCEPT ![job[w]] = "done"]
             /\ DecrActive(w, "remove")
             /\ UNCHANGED <<job, dev, turns, visit, free, worked, running, halted>>

\* mutant: without decr_running_tasks
RemoveUncounted(w) == /\ pc[w] = "remove"
                      /\ job' = [job EXCEPT ![w] = NoTask]
                      /\ Goto(w, "append")
                      /\ UNCHANGED <<place, dev, turns, visit, free, worked, running, active, stopped, halted>>

\* decr_running_tasks and _remove_task
RemoveTask(w) == /\ pc[w] = "remove"
                 /\ running' = running - 1
                 /\ job' = [job EXCEPT ![w] = NoTask]
                 /\ Goto(w, "append")
                 /\ UNCHANGED <<place, dev, turns, visit, free, worked, active, stopped, halted>>

-----------------------------------------------------------------------------
(* map_tasks_callback.                                                     *)

\* the condition, read without the phase's monitor
MapTests(c) ==
    /\ pc[c] = "map"
    /\ Goto(c, IF At("new") \cup At("current") # {} /\ Cardinality(Mapped) < MappedLimit
                 THEN "tryMap" ELSE "schedule")
    /\ UNCHANGED <<job, place, dev, turns, visit, free, worked, running, active, stopped, halted>>

\* the phase is taken; fill_curr_spawned_task_queue unless enough is there
MapEnter(c) ==
    /\ pc[c] = "tryMap" /\ PhaseFree(Mapping)
    /\ Goto(c, "mapping")
    /\ worked' = worked \cup {c}
    /\ IF Cardinality(At("current")) < MapLimit
         THEN place' = [t \in Task |-> IF place[t] = "new" THEN "current" ELSE place[t]]
         ELSE UNCHANGED place
    /\ UNCHANGED <<job, dev, turns, visit, free, running, active, stopped, halted>>

\* another thread has the phase
MapSkip(c) == /\ pc[c] = "tryMap" /\ ~PhaseFree(Mapping)
              /\ Goto(c, "schedule")
              /\ UNCHANGED <<job, place, dev, turns, visit, free, worked, running, active, stopped, halted>>

\* mutant: one turn too many
CanMapOnceMore(c) == pc[c] = "mapping" /\ turns.map <= MapLimit /\ ~turns.failed

CanMap(c) == pc[c] = "mapping" /\ turns.map < MapLimit /\ ~turns.failed

\* the policy chose a device; no dependency blocks the task
MapTask(c, t, d) ==
    /\ CanMap(c) /\ place[t] = "current" /\ d \in Placement[t]
    /\ place' = [place EXCEPT ![t] = "ready"]
    /\ dev' = [dev EXCEPT ![t] = d]
    /\ turns' = [turns EXCEPT !.map = @ + 1]
    /\ UNCHANGED <<pc, job, visit, free, worked, running, active, stopped, halted>>

\* the policy found no device with the resources
MapFails(c, t) ==
    /\ CanMap(c) /\ place[t] = "current" /\ Mapped # {}
    /\ place' = [place EXCEPT ![t] = "new"]
    /\ turns' = [turns EXCEPT !.map = @ + 1, !.failed = TRUE]
    /\ UNCHANGED <<pc, job, dev, visit, free, worked, running, active, stopped, halted>>

\* the loop ends
MapEnds(c) == /\ pc[c] = "mapping"
              /\ At("current") = {} \/ ~CanMap(c)
              /\ Goto(c, "mapped")
              /\ turns' = [turns EXCEPT !.map = 0, !.failed = FALSE]
              /\ UNCHANGED <<job, place, dev, visit, free, worked, running, active, stopped, halted>>

-----------------------------------------------------------------------------
(* schedule_tasks_callback.                                                *)

ScheduleTests(c) ==
    /\ pc[c] = "schedule"
    /\ Goto(c, IF At("ready") # {} THEN "trySchedule" ELSE "launch")
    /\ UNCHANGED <<job, place, dev, turns, visit, free, worked, running, active, stopped, halted>>

ScheduleEnter(c) ==
    /\ pc[c] = "trySchedule" /\ PhaseFree(Scheduling)
    /\ Goto(c, "scheduling")
    /\ worked' = worked \cup {c}
    /\ UNCHANGED <<job, place, dev, turns, visit, free, running, active, stopped, halted>>

ScheduleSkip(c) ==
    /\ pc[c] = "trySchedule" /\ ~PhaseFree(Scheduling)
    /\ Goto(c, "launch")
    /\ UNCHANGED <<job, place, dev, turns, visit, free, worked, running, active, stopped, halted>>

\* from the ready queue to the queue of its device
ScheduleTask(c, t) ==
    /\ pc[c] = "scheduling" /\ turns.schedule < ScheduleLimit /\ ~stopped
    /\ place[t] = "ready"
    /\ place' = [place EXCEPT ![t] = "queued"]
    /\ turns' = [turns EXCEPT !.schedule = @ + 1]
    /\ UNCHANGED <<pc, job, dev, visit, free, worked, running, active, stopped, halted>>

ScheduleEnds(c) ==
    /\ pc[c] = "scheduling"
    /\ At("ready") = {} \/ turns.schedule = ScheduleLimit \/ stopped
    /\ Goto(c, "scheduled")
    /\ turns' = [turns EXCEPT !.schedule = 0]
    /\ UNCHANGED <<job, place, dev, visit, free, worked, running, active, stopped, halted>>

-----------------------------------------------------------------------------
(* launch_tasks_callback.                                                  *)

LaunchTests(c) ==
    /\ pc[c] = "launch"
    /\ Goto(c, IF free # {} /\ active # 0 THEN "tryLaunch" ELSE "again")
    /\ UNCHANGED <<job, place, dev, turns, visit, free, worked, running, active, stopped, halted>>

LaunchEnter(c) ==
    /\ pc[c] = "tryLaunch" /\ PhaseFree(Launching)
    /\ Goto(c, "launching")
    /\ visit' = Dev
    /\ worked' = worked \cup {c}
    /\ UNCHANGED <<job, place, dev, turns, free, running, active, stopped, halted>>

LaunchSkip(c) ==
    /\ pc[c] = "tryLaunch" /\ ~PhaseFree(Launching)
    /\ Goto(c, "again")
    /\ UNCHANGED <<job, place, dev, turns, visit, free, worked, running, active, stopped, halted>>

\* mutant: the loop does not break after a GPU task
BatchWithoutBreak(d) ==
    LET queue == {t \in At("queued") : dev[t] = d}
        room == d \notin Gpu \/ Cardinality(GivenOn(d)) < Colocatable + 1
    IN  IF ~room THEN {{}}
        ELSE kSubset(IF Cardinality(queue) < Cardinality(free)
                       THEN Cardinality(queue) ELSE Cardinality(free), queue)

\* tasks of a device's queue that are launched at one visit: one on a GPU
\* that has room, as many as there are workers on the CPU
Batch(d) ==
    LET queue == {t \in At("queued") : dev[t] = d}
    IN  IF d \in Gpu
          THEN IF Cardinality(GivenOn(d)) < Colocatable + 1
                 THEN kSubset(IF queue = {} THEN 0 ELSE 1, queue)
                 ELSE {{}}
          ELSE kSubset(IF Cardinality(queue) < Cardinality(free)
                         THEN Cardinality(queue) ELSE Cardinality(free), queue)

\* mutant: assign_task without notify
LaunchSilently(c, d) ==
    /\ pc[c] = "launching" /\ d \in visit /\ free # {}
    /\ visit' = visit \ {d}
    /\ \E B \in Batch(d) : \E f \in Injection(B, free) :
         LET taken == {f[t] : t \in B}
         IN  /\ place' = [t \in Task |-> IF t \in B THEN "given" ELSE place[t]]
             /\ job' = [w \in Worker |-> IF w \in taken THEN CHOOSE t \in B : f[t] = w ELSE job[w]]
             /\ free' = free \ taken
    /\ running' = running + Cardinality(free \ free')
    /\ UNCHANGED <<pc, dev, turns, worked, active, stopped, halted>>

\* _launch_task and assign_task, while the device's queue and the free list
\* are locked; a worker that waits is notified
LaunchOn(c, d) ==
    /\ pc[c] = "launching" /\ d \in visit /\ free # {}
    /\ visit' = visit \ {d}
    /\ \E B \in Batch(d) : \E f \in Injection(B, free) :
         LET taken == {f[t] : t \in B}
         IN  /\ place' = [t \in Task |-> IF t \in B THEN "given" ELSE place[t]]
             /\ job' = [w \in Worker |-> IF w \in taken THEN CHOOSE t \in B : f[t] = w ELSE job[w]]
             /\ pc' = [x \in Thread |-> IF x \in taken /\ pc[x] = "waiting" THEN "woken" ELSE pc[x]]
             /\ free' = free \ taken
    /\ running' = running + Cardinality(free \ free')
    /\ UNCHANGED <<dev, turns, worked, active, stopped, halted>>

\* all devices visited, or no worker left
LaunchEnds(c) ==
    /\ pc[c] = "launching" /\ (visit = {} \/ free = {})
    /\ Goto(c, "launched")
    /\ visit' = {}
    /\ UNCHANGED <<job, place, dev, turns, free, worked, running, active, stopped, halted>>

-----------------------------------------------------------------------------
\* the monitor of a phase is released
Release(c) ==
    /\ pc[c] \in {"mapped", "scheduled", "launched"}
    /\ Goto(c, CASE pc[c] = "mapped" -> "schedule"
                 [] pc[c] = "scheduled" -> "launch"
                 [] pc[c] = "launched" -> "again")
    /\ UNCHANGED <<job, place, dev, turns, visit, free, worked, running, active, stopped, halted>>

\* mutant: another round while at most one is counted as running
AgainOffByOne(c) ==
    /\ pc[c] = "again"
    /\ worked' = worked \ {c}
    /\ Goto(c, IF running <= 1 /\ c \in worked THEN "map"
               ELSE IF c = Main THEN "program"
               ELSE IF job[c] # NoTask THEN "body" ELSE "loop")
    /\ UNCHANGED <<job, place, dev, turns, visit, free, running, active, stopped, halted>>

\* start_scheduler_callbacks: another round while nothing is counted as
\* running and some callback succeeded; then back to the program, to the
\* body that spawned, or to the worker's loop
Again(c) ==
    /\ pc[c] = "again"
    /\ worked' = worked \ {c}
    /\ Goto(c, IF running = 0 /\ c \in worked THEN "map"
               ELSE IF c = Main THEN "program"
               ELSE IF job[c] # NoTask THEN "body" ELSE "loop")
    /\ UNCHANGED <<job, place, dev, turns, visit, free, running, active, stopped, halted>>

Callbacks(c) ==
    \/ MapTests(c) \/ MapEnter(c) \/ MapSkip(c) \/ MapEnds(c)
    \/ \E t \in Task : MapFails(c, t) \/ \E d \in Dev : MapTask(c, t, d)
    \/ ScheduleTests(c) \/ ScheduleEnter(c) \/ ScheduleSkip(c) \/ ScheduleEnds(c)
    \/ \E t \in Task : ScheduleTask(c, t)
    \/ LaunchTests(c) \/ LaunchEnter(c) \/ LaunchSkip(c) \/ LaunchEnds(c)
    \/ \E d \in Dev : LaunchOn(c, d)
    \/ Release(c) \/ Again(c)

ThreadStep(c) ==
    \/ Callbacks(c)
    \/ \E t \in Task : Spawn(c, t)
    \/ \E w \in Worker : StopWorker(c, w)
    \/ StopEnds(c)

MainStep == MainStarts \/ MainExits \/ MainReturns \/ ThreadStep(Main)

WorkerStep(w) == \/ AppendFree(w) \/ Loop(w) \/ GetTask(w) \/ Wake(w)
                 \/ Finish(w) \/ RemoveTask(w) \/ ThreadStep(w)

Next == MainStep \/ \E w \in Worker : WorkerStep(w)

\* the interpreter lets every thread that can go on do so eventually
Fairness == WF_vars(MainStep) /\ \A w \in Worker : WF_vars(WorkerStep(w))

Spec == Init /\ [][Next]_vars /\ Fairness

-----------------------------------------------------------------------------
(* Properties.                                                             *)

\* The worker pool: a worker on the free list has no task and runs none, so
\* that assign_task never finds one, and a worker is only woken with a task
\* or by a stop.
PoolConsistent ==
    /\ \A w \in free : job[w] = NoTask /\ pc[w] \notin {"body", "stopping", "remove"}
    /\ \A w \in Worker : pc[w] # "crashed"

\* _running_task_count is one more than the number of workers with a task,
\* so a round of callbacks never sees it at 0.
RunningCounted == running = 1 + Cardinality({w \in Worker : job[w] # NoTask})

\* The scheduler stops only after the program has left its `with` block and
\* every task it spawned, directly or not, has run.
StopsAfterAll == stopped => /\ pc[Main] \in {"stopping", "exit", "returned"}
                            /\ \A t \in Task : place[t] = "done"

\* No GPU runs more than one task beyond _num_colocatable_tasks, although
\* the count is compared before the loop that launches.
Colocated == \A d \in Gpu : Cardinality(GivenOn(d)) <= Colocatable + 1

\* A task handed to a worker is run: assign_task, the worker's wait and the
\* shutdown never leave one with its worker for ever.
GivenRuns == \A t \in Task : []<>(place[t] # "given")

\* A spawn returns to its caller and a worker to its loop: no thread stays in
\* the callbacks, which they call until nothing succeeds.
SpawnReturns == \A c \in Thread : []<>(pc[c] \notin Callback)

AtRest(c) == pc[c] \in {"waiting", "exit", "ended"}

\* When all threads rest, no task is left in a queue: a callback that found
\* its phase taken can rely on the thread that holds it.
NothingStranded ==
    ~stopped /\ (\A c \in Thread : AtRest(c)) => \A t \in Task : place[t] = "done"
=============================================================================
