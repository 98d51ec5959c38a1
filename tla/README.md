# Parla.py in TLA+

Parla runs Python task programs: `with Parla():` starts a scheduler and one worker
thread per core, `@spawn(taskid, dependencies, input, output, inout)` creates tasks
from the main thread or from the bodies of other tasks, and a body that is a coroutine
suspends itself with `await` until other tasks have ended. Arrays that several devices
use are `PArray`s, which a coherence protocol copies between device buffers.

This directory holds TLA+ models of that program, TLC configurations that check them
on small instances, and proofs, checked by TLAPS, of theorems that hold for every task
program. Paths below are relative to the repository.

## 1. Inventory

| component | state | operations | how it interacts |
|---|---|---|---|
| Task life cycle (`parla/task_runtime.py`: `Task`, `ComputeTask`) | `_state`, `_dependencies`, `_num_blocking_dependencies`, `_dependents`, `_assigned`, a mutex per task | construct, register with dependencies, `run`, await, notify, store the terminal state | called by spawners and workers; enters itself in the scheduler's queues; takes the mutexes of other tasks |
| Unspawned dependencies (`UnspawnedDependencies`) | a dictionary of waiting ids | `add`, `get_dependents` | from `spawn_task` and `ComputeTask.__init__` |
| Mapper (`_map_tasks`, `fill_curr_spawned_task_queue`, `_assignment_policy`) | new and current spawned queues, per-device counts of mapped tasks | fill, assign a device, create data movement tasks, allocate, enqueue | runs in whichever thread calls `start_scheduler_callbacks`, one at a time (try-lock) |
| Schedule and launch phases, workers, shutdown (`_schedule_tasks`, `_launch_task(s)`, `WorkerThread`, `Scheduler.stop`/`__exit__`) | ready queue, device queues, free workers, running and active counts, `_should_run` | move to device queues, hand a task to a worker, free the worker, stop and join | workers call back into all three phases after every task |
| Resource pool (`ResourcePool`, `ParrayTracker`) | amounts left per device, where each `PArray` will be | allocate (blocking or not, with rollback), deallocate, check, track moves | the mapper allocates, `_finish` deallocates |
| Data movement tasks (`DataMovementTask`, `_construct_datamove_task`) | `_datablock_dict` | created by the mapper for each operand, become dependencies of the compute task | call `PArray._auto_move` |
| Task API (`parla/tasks.py`) | task spaces, the current scopes | `spawn`, `tasks`, `finish`, `_task_callback` | creates tasks, drives coroutine bodies |
| Coherence protocol (`parla/parray/coherence.py`) | per device: state, version, completeness, subarray states; owner; latest version | `read`, `write`, `evict` | returns memory operations to the `PArray` |
| Buffers (`parla/parray/core.py`, `memory.py`) | a buffer per device: nothing, a complete array or a list of subarrays with index maps | load, load of a subarray, clear; slice mapping | `_process_operations` applies what the protocol returns |
| Slice mapping (`parla/parray/memory.py`) | index maps of each device's subarrays | `map_local_slices`, `get_by_global_slices`, `set_by_global_slices` | `PArray` calls it for every index of a fine-grained task |
| Partitioning (`parla/ldevice.py`, `partitioning.py`) | none | bounds of slices, device of a partition, vertices of a graph partition | used by programs |
| Environments and CUDA components (`parla/environments.py`, `cuda.py`) | a stream and an event per run of a body | enter, record, wait, synchronise | `run()` calls them around a body; dependents receive the events |
| Programs (`examples/`, `tutorial/`, `benchmarks/`) | their arrays | spawns, awaits, accesses | use all of the above |
| Devices, array helpers, multiload, launcher | static registries, conversions, dynamic linking | | |

What is hard here: every task has its own lock and steps of one task need the locks of
others; the mapper, the last dependency to finish and the end of an await all may
enqueue the same task, and each decides on state the others change; a scheduler that
stops when a counter reaches zero; callbacks guarded by try-locks; a pool that is
checked in one critical section and taken from in others; dependents that run ahead of
GPU kernels; a coherence protocol whose state is spread over five per-device
dictionaries and whose answers assume that the program keeps some rules; index
arithmetic with two different roundings; and programs whose dependencies are right in
most schedules. `PROJECT.json` lists each hazard at its line.

What makes the components correct: a body starts after its dependencies and continues
after its barrier; no task is lost, none runs twice; the scheduler stops after the last
task; no set of threads waits for itself; a task finds the last version of its operands
on its device; no step loses the only valid copy of an array; the pool is exact and the
mapper never waits for it; kernels run in the order of the tasks; and a program computes
what its serial execution does.

## 2. Modules

`TaskGraph` is the abstract specification: what Parla's tutorial promises the author of
a task program. A task is unspawned, spawned, executing, suspended or finished; it
starts when its dependencies have finished and resumes when its barrier has.

`TaskDependencies` is the detailed one, `task_runtime.py`'s `Task`, `ComputeTask`, the
mapper and the launcher. The task program is given by constants (`Parent`, `Deps`,
`Awaits`, `MayRaise`), the order in which a body spawns its tasks is free. Each action
is one critical section of the code:

| action | code |
|---|---|
| `BeginSpawn`, `Register`, `EndInit`, `Publish` | `spawn`, `spawn_task`, `Task.__init__` with the `dependencies` setter (one registration per action: each takes another mutex), `ComputeTask.__init__` with `_ready_to_map` |
| `SpawnRejected` | `UnspawnedDependencies.add` raising in the spawner |
| `FillBegin`, `FillExamine` | `fill_curr_spawned_task_queue`, which keeps the monitor while it takes the mutexes of dependencies |
| `AssignFails`, `SetAssigned`, `EnqueueUnblocked` | one turn of the loop of `_map_tasks`; the last two are the two critical sections at its end |
| `Launch` | `_schedule_tasks` and `_launch_task` |
| `StartRun`, `BodyEnds`, `Notify`, `Finish` | `Task.run`, `_notify_dependents`, `_set_state` of a terminal state, the worker's return to the pool |
| `Await`, `Register`, `Suspend` | `_task_callback` returning `TaskRunning`, `_set_state` with the setter |
| `MainExit`, `Stopped` | `Scheduler.__exit__`, `stop` |

A task's mutex is not a variable: `MutexFree(t)` says when nobody holds it, from where
the thread of `t` or of its spawner is. Queues are sets or counters; which thread runs
the mapper and the launcher is left open, so every schedule of the callbacks is a
behaviour. Tasks have no data operands and there is one device. `Graph` is the instance
of `TaskGraph` under the mapping `StatusOf`; a task whose body has ended is `finished`
there even though the code has not stored the state yet.

`Scheduler` is the part of `task_runtime.py` that carries a task from `spawn` through
the queues to a worker and back: Main and the workers as threads with program counters.

| action | code |
|---|---|
| `MainStarts`, `MainExits`, `MainReturns` | the wait of `Scheduler.__init__` for a free worker, `__exit__` with its wait and its joins |
| `Spawn` | `spawn`: the task is counted, enqueued, and the thread enters the callbacks |
| `MapTests`, `MapEnter` or `MapSkip`, `MapTask`, `MapFails`, `MapEnds`, `Release` | `map_tasks_callback` and `_map_tasks`: the condition, the try-lock, the fill, one turn of the loop each, the end of the loop, the release of the phase |
| `ScheduleTests` ... `ScheduleEnds` | `schedule_tasks_callback`, `_schedule_tasks` |
| `LaunchTests` ... `LaunchEnds` | `launch_tasks_callback`, `_launch_tasks`: `LaunchOn` is the visit of one device under the locks of its queue and of the free list, with `_launch_task` and `assign_task` |
| `Again` | the loop of `start_scheduler_callbacks` |
| `AppendFree`, `Loop`, `GetTask`, `Wake`, `Finish`, `RemoveTask` | `WorkerThread.run` with the end of `Task.run` |
| `StopWorker`, `StopEnds` | `Scheduler.stop`, one worker at a time |

A phase is taken while a thread's `pc` is in it, so its end (the decision to leave the
loop) and its release are two steps, as are the test of a callback's condition and its
try-lock. `waiting` and `woken` are the two sides of a condition variable: only a notify
leads from one to the other. Tasks here have no dependencies, do not await or raise, and
the policy may fail only while a mapped task may hold what it needs. The limits of the
source (3, 60, 4, 2) are constants. The decrement of the active count and the store of
`_should_run` in `stop` are one step, as are `decr_running_tasks` and `_remove_task`; the
scheduler's own thread only sleeps and is left out.

`Protocol` is `coherence.py` with the operations `core.py` and `memory.py` apply to
the buffers, without a state of its own: `Read`, `Write` and `EvictCopy` give the
protocol's new fields and its list of memory operations, `Apply` what one operation does
to the buffers, and `Perform` what a list of them does. `Coherence` is one array under that protocol: `Move` is `_auto_move` for
one operand (protocol step and memory operations under `Coherence._lock`), `Body` the
later use of the buffer by the task, `EvictDevice` a call of `evict` by the program. The content of a slice is the number of writes it has
seen. The environment keeps the rules of `tutorial/6_automatic_data_movement/README.md`:
conflicting accesses are not concurrent, a slice is a subarray on one device only.

`DataMovement` composes the mapper with several arrays under `Protocol`:

| action | code |
|---|---|
| `MapTask`, `Construct`, `Examine`, `Record`, `Assign` | the part of `_map_tasks` for one task: `_construct_datamove_task` for each operand creates the move, examines the tasks in `_datablock_dict` (each under its mutex), records the compute task, and keeps an unblocked move; at the end these are enqueued and the task is assigned |
| `RunMove` | `DataMovementTask._execute_task`: the protocol's read or write with its memory operations |
| `Start`, `Finish` | the compute task, after its dependencies and its moves; its end with the notifications |

`Resources` is `ResourcePool`, the assignment policy and the mapper's allocations:

| action | code |
|---|---|
| `Track`, `Spawn` | a `PArray` is created and tracked; a task is spawned |
| `BeginMapping`, `MappingEnds` | a call of `_map_tasks`: the fill of the current spawned queue and the limits of the loop, with the order of both queues |
| `PolicyBegins`, `Consider`, `AssignmentFails` | `_dequeue_spawned_task` and `_assignment_policy`, one device per step, since each check takes that device's monitor |
| `ConstructMoves`, `Register`, `CountMapped`, `Allocate`, `Mapped` | the rest of `_map_tasks`: data movement tasks, one `register_parray_move` per operand, the mapped count, one resource at a time with `blocking=True`, `set_assigned` |
| `MoveEnds`, `Launch`, `Suspend`, `Complete` | the ends of data movement tasks, the launch, `ComputeTask._finish` at an await and at the end |

`Streams` is `Task.run` with `TaskEnvironment` and `GPUComponentInstance`: `Enter`,
`WaitEvents`, `LaunchKernel`, `BodyEnds` or `BodyRaises`, `Record`, the early and late
`Notify`, `Sync`, `Finish`, next to the GPU's streams, which do their operations in order
(`StreamWaits`, `KernelStarts`, `KernelEnds`, `EventOccurs`). A stream's behaviour is
CUDA's, modelled from how `cuda.py` uses it. An event that has not been recorded is not
waited for, as in CUDA.

`Partitioning` and `SliceMapping` are the pure index arithmetic of `ldevice.py`,
`partitioning.py` and `memory.py`.

`Programs` runs whole Parla programs by what the runtime promises (the task graph), with
every order that leaves open. A program is a sequence of steps (`ProgramSteps`: `Spawn`,
`Access`, `Await`, and what is built from them), transcribed with its loops and its
dependencies in `Examples` (Cholesky, matrix multiplication, Fox), `Applications`
(Jacobi, k-means, TSQR, quicksort, reductions) and `Tutorials` (tutorial, benchmarks, and
programs around `Partitioning` and `SliceMapping` of the kind the tests have). A step
names the blocks it reads and writes; the value of a block is the step that wrote it, so
two runs agree exactly when every step reads the same. The reference is the serial
execution, in which each body runs at its spawn. Sizes and device numbers are
parameters.

`MCTaskDependencies`, `MCCoherence`, `MCScheduler`, `MCDataMovement`, `MCResources`,
`MCStreams` and `MCPrograms` give TLC small programs and machines. A module
`X_proofs` holds the theorems about `X`.

## 3. Runs

| run | instance | what it shows |
|---|---|---|
| `flat` | four tasks in a diamond, spawned in any order, one may raise, 2 workers | the counter of blocking dependencies is exact; nobody starts early or is lost before its start; nobody waits for a finished task; Main, the mapper's fill and the notifying tasks never wait in a cycle; `TaskGraph` is implemented |
| `nested` | a body that spawns two tasks, awaits one, then both and a task of Main | queued at most once, no continuation lost, stop last, no cycle of mutex holders, no deadlock; `TaskGraph` is implemented |
| `whole` | complete copies on 3 GPUs and the CPU, 2 tasks at a time, evictions, 3 writes | operands are fresh, a modified copy is alone, the array is never lost, protocol and buffers agree |
| `slices` | 2 slices on 2 GPUs, one task at a time, evictions, 2 writes per slice | operands are fresh and the array is not lost with subarrays either, and no step raises |
| `pool` | Main, 2 workers, 3 tasks (one spawned by a body), a GPU and a CPU, all limits at their smallest | the worker pool, the running count and the stop at zero active tasks are right under every interleaving of the callbacks; no GPU is over its bound; what is handed over runs; the callbacks end |
| `resources` | 4 tasks, 3 arrays, a CPU and a GPU with room for two tasks and an array, or one and two | the pool is exactly the capacity less what tasks and copies hold; the blocking allocation never waits; every spawned task ends |
| `moves` | a diamond of 4 tasks over 2 arrays, on 2 GPUs and the CPU | operands are fresh when a task runs; no data movement task is forgotten |
| `streams` | GPU and CPU tasks in a chain, one that awaits two, two that may raise, 2 workers | kernels keep the order of the tasks while the host runs ahead; an ended task has no kernel left; every task ends |
| `programs` | 29 programs and 689 small ones around mappers, partitions and slice maps | every schedule computes what the serial execution does; nothing unwritten is read; no spawn is rejected; moves of operands come after all earlier conflicting tasks |
| `early_stop`, `lost_wakeup`, `stale_slice` | | each refutes one statement of the tutorial; see section 4 |

### Bounds

Two workers and three concurrent contexts (Main, two bodies) give every pair of steps that
touch the same counter or list; the diamond of `flat` has a task with two dependencies and
a task with two dependents, which is where counters and lists can disagree; the program of
`nested` has a barrier that contains finished, running and not yet spawned tasks. `flat`
sets `CHECK_DEADLOCK FALSE` since the launcher drops a completed task together with its
worker, and such a run may really stop; `nested` checks deadlock. `QueuedOnce` and
`StopsLast` hold where no task has its last dependency finish between the mapper's two
critical sections, as in `nested`, where nothing has dependencies at its spawn, and fail
where one does (`early_stop`, where it stops the scheduler; `flat` does not check them).
That no other interleaving breaks them, in any program, is proved (section 5).
`NoMutexCycle` needs both runs: barriers are in `nested`, the fill that takes the mutexes
of dependencies is in `flat`. The programs of `flat`, `nested` and
`early_stop` are `Structured`, which TLC evaluates (`ProgramStructured`); for such programs
`NoMutexCycle` is proved, as long as the interleaving of `early_stop` does not occur.

Three GPUs are the least with two sharers that are neither owner nor writer; three writes
(`MaxWrites`) let a version grow old twice; `MaxPending` tasks hold operands at a time.
`slices` has `MaxPending = 1`, since parallel tasks on different slices of one array
disturb each other (section 4). Both never deadlock, because reads go on.

In `pool` three tasks and two workers are the least with which two tasks can be queued on
a GPU while another ends; `MapLimit = ScheduleLimit = 1` and `MappedLimit = 2` make each
loop end at its limit, and `Colocatable = 0` puts the bound within reach. It sets
`CHECK_DEADLOCK FALSE` because the program ends, and because it may hang in the two ways
described in section 4.

In `resources` the CPU (7 units) has room for the three arrays and a task; the GPU (7) for
both arrays it may hold and one task, or for one array and two tasks, so that the policy
must refuse in some states and not in others. What an instance must satisfy is `Fitting`:
the program and the machine are chosen so that no charge goes unchecked where it matters
(section 4 says which charges are), and TLC evaluates it (`MachineFits` in `MCResources`).
The 7 units of the CPU are exactly what it asks for; with 6 TLC finds `PoolExact`,
`MapperNeverWaits` and `EveryTaskEnds` violated. The GPU does not have that room, so there
the policy's check is what keeps them. `MapLimit` has the source's value, 3, less than the
number of tasks.
`resources` and `moves` end, hence `CHECK_DEADLOCK FALSE`.

`moves` has two arrays of one slice, two GPUs, and the CPU for the last task: two
independent moves of one task, two tasks that move one array to different devices, and a
dependency that ends before, during or after the registration all occur. No task has two
direct dependencies that use the same array of its own: with two, a move can be enqueued too
early (section 4), which is proved to be the only way for an operand to be stale
(section 5). `streams` has one kernel per run (`Kernels`), which is enough to overtake and be overtaken, and two workers,
which a CPU task and its predecessors on the GPU can use up; it checks deadlock, as does
`programs`.

`programs` starts from 718 programs. Sizes are the smallest with every kind of step of the
loops (three block rows, two time steps, seven elements over two tasks): each is run in
every order its task graph leaves open. Ranges of four to seven elements over one to four
partitions and devices include those that do not divide; index maps are tried for all
slices of five elements with steps one and two, integers and lists, on one axis, with two
subarrays, and on two axes of three elements.

### Fairness

`Scheduler` assumes weak fairness of each thread as a whole: the interpreter lets every
thread that can go on do so eventually, and nothing more is assumed of locks, since no
thread waits for a phase. A thread blocked in `wait` or in a join has no step. Task bodies
end. `GivenRuns` and `SpawnReturns` are its liveness properties; that every spawned task
runs is not one, since it fails (`lost_wakeup`).

`Streams` assumes weak fairness of each thread and each stream: a kernel ends, and so does
a body. `Resources` assumes weak fairness of the mapper and of each task, and nothing
about which task is tried next: the queues, which are in the model, decide. It does assume
that the mapper is called as long as tasks are spawned; that this may fail is what
`lost_wakeup` shows, and is not counted again here. The other modules check safety only
and assume no fairness.

## 4. Known disagreements

Three are runs that TLC must find violated; `PROJECT.json` quotes the documentation.

- `early_stop` (`task_runtime.py` 2039-2043): set as assigned in one critical section,
  checked for blocking dependencies in another. A dependency that ends in between enqueues
  the task a second time; the second run lowers the count of active tasks again and the
  scheduler stops early. With both in one critical section the interleaving cannot occur,
  and by the theorems of section 5 nothing else is needed.
- `lost_wakeup` (2183): a thread that finds a phase taken leaves its task to the thread
  that holds it, which may have made its last turn. `start_scheduler_callbacks` has a
  retry loop for that, guarded by `_running_task_count = 0`, and the count starts at 1 and
  only returns to 1 (`RunningCounted`). If `running` in `Init` is changed to 0 (and
  `TypeOK`'s range and `RunningCounted` with it), TLC finds no violation of
  `NothingStranded` on these instances.
- `stale_slice` (`coherence.py` 297): a reader's slice load leaves the owner modified, so
  that the owner's next complete write does not invalidate the subarray.

Others were met on the way. They are kept out of the instances named here, and have no run
of their own:

- A data movement task can be enqueued from its creation on (523; `init_assigned`, 659).
  While the mapper registers it with the users of its block one by one (1928-1937), the
  last one it is registered with so far may end: the counter reaches zero and the move
  runs before the next registration, although 1949-1951 says it "should not be enqueued
  immediately". The proof of `OperandsFresh` fails at this step and at no other. With A
  and B writing an array, B depending on A, and C reading it with dependencies on both,
  TLC finds C using what A wrote. A count that cannot reach zero before the end of
  `_construct_datamove_task` would do.
- The write-back task of `tutorial/6_automatic_data_movement/README.md` (141-151): users
  of a block are kept by id, and a user of `arr[0]` joins the users of `arr` (1943-1945)
  but not the other way round. The move of `arr[0]` for `t[1]` does not wait for `a[0]`,
  which uses `arr`, though `t[1]` depends on both; it may copy before the write back,
  and the write back then invalidates the copy. With these three tasks TLC finds
  `OperandsFresh` violated.
- Dependents are notified before the terminal state is stored (407-409), and a result is
  read without the mutex: a continuation may read a result that is not there yet.
- `run` keeps its task's mutex while it spawns, notifies and registers (362), and the
  mapper keeps the monitor of the spawned queue, which every spawn needs (1574), while it
  takes the mutexes of dependencies in `is_assigned` (1826-1838, 507-511). Threads can
  wait for one another for ever in three shapes of program, each found by TLC as a
  violation of `NoMutexCycle`: (1) a dependency that spawns: A is in its body and about to
  spawn while the mapper examines B, which depends on A; (2) an awaited task that spawns
  beside siblings with dependencies: A awaits B, C and D, D depends on B, C spawns, and A
  registers at its barrier; (3) two bodies that await the same two tasks and register with
  them in different orders. `NestedBarriersNeverCycle` and `NoThreadsWaitInACycle` prove
  that programs without these shapes are safe.
- A worker tests `_should_run`, and only then takes its monitor and waits (1007-1012): a
  `stop` in between notifies nobody, and the join of `__exit__` waits for ever.
- `_finish` runs at every suspension (410): an awaiting task's resources are given back
  each time, but were taken once; in `Fitting` a body that awaits asks for nothing.
- The message at 1209 says that the "mapper should never try to allocate resources that
  aren't actually available", but memory is charged past the policy's check: the bytes of
  a created array and of an output that gets its size at the end of a task (1249-1250,
  1344-1346) are taken with the result of the allocation ignored; the policy counts the
  bytes of a task's inputs and not of its outputs (1661); and an empty array filled on one
  device is charged there only, while it may be recorded on others. `Fitting` is a
  condition under which none of this does harm.
- Two concurrent tasks on different slices share a protocol object: a complete write on
  the owner clears the subarray the other is using (`coherence.py` 365).
- `_map_slice_with_slice` gives a wrong end for steps of three and more when the length is
  not a multiple of the step; index maps are therefore checked with steps one and two. Its
  docstring's example (`memory.py` 184-187) returns `(1, 4, 2)`, not `(1, 5, 2)`. A
  subarray loaded by a list of one element is found under the integer only (246).
- `LDeviceGridRaveled` uses the number of rows as the length of a row: with more rows than
  columns a cell may lie beyond the last device. `RaveledDeviceExists` proves that it does
  not otherwise; the runs use square grids.
- `LDeviceSequenceBlocked` asserts that `floor(divisor * n_devices)` is the number of
  logical devices again (257), which the rounding of the divisor makes false for some, the
  smallest being 15 logical devices on 11 or 13: the constructor fails.
- `jacobi_automatic` relies on a dependency through another task, which the move of an
  operand does not wait for (1933); the run has two steps, where it does no harm.
- New tasks are put to the right of the current spawned queue "to guarantee FIFO manners"
  (1841) and taken from the right: a later batch, with the tasks refused meanwhile, comes
  before what is left of an earlier one. `EveryTaskEnds` holds nevertheless.
- `untrack_parray`, `remove_parray` and `remove_parray_from_device` have no caller: copies
  that the protocol evicts stay in the pool, and `PoolExact` counts them as there.

## 5. Proofs

`TaskDependencies_proofs` proves, for every task program and every number of workers (from
`ProgramAssumption` alone: finitely many tasks, well-typed constants):

- `TypeCorrect`: `Spec => []TypeOK`;
- `BodiesStartAfterDependencies`, `CounterIsExact`, `NobodyWaitsForFinished`,
  `NoTaskLostBeforeStart`: the properties of run `flat` of these names' definitions.

They follow from one inductive invariant `IInv`. A body starts because its counter is 0
when it is enqueued; that the counter then says what it should needs: every dependency of
a task that has not begun is either yet to be registered with, or lists the task exactly
once, or has ended (`ListsAgree`); the counter is the number of the first two kinds
(`CounterAgrees`); a task that is in a queue and has not begun is not blocked
(`QueuedUnblocked`); who spawns and who is being constructed belong together
(`SpawnerWaits`); what the mapper has in hand has been published (`MapperKnows`); and a
stored terminal state comes with an empty list (`FinishedListsNobody`). There is one lemma
per action, and facts about tasks an action does not touch are factored into
`KeepStarted`, `KeepNew` and `KeepUntouched`. TLC checked `IInv` as an invariant of all
the task programs of `MCTaskDependencies` first.

`DataMovement_proofs` proves `MovesAreNotForgotten`, that is `Spec => []NoMoveForgotten`,
for all tasks, arrays, operands and placements (from `DataMovementAssumption`). A move
counts the tasks that will notify it (`CounterExact`), which needs that nobody is
registered twice: while the mapper examines the users of a block, those left to examine
are not registered with the new move (`MapperPlace`), and a move beyond the operand it is
at has no registrations (`Registered`). A move not enqueued yet is awaited, or on the
mapper's list, or the one it examines (`CreatedKept`); with the mapper's last step only
the first is left. Nobody is registered with a task that has ended (`Registered`), so some
awaited task has still to end.

The second half of `TaskDependencies_proofs` is about what comes after the start of a
body. `QueuedOnce`, `StopsLast`, `NoTaskForgotten`, `TerminalIsFinal` and the refinement of
`TaskGraph` do not hold for every program (`early_stop`). They are proved for every
program and every number of workers under one condition on the behaviour, that no task
gets its last notification while the mapper has it in `checking`
(`Spec /\ [][~LastNotified]_vars`): that interleaving is the only cause. For programs that
spawn without dependencies and wait at barriers it cannot occur, so these have all five
unconditionally (`BarriersAreSafe`, from `BarriersOnly`). `TerminalIsFinal` is in no
passing run: in `nested` the double enqueue cannot arise, and in `flat`, where it does,
the second run replaces the stored result of the first, which is the interleaving of
section 4 again. The invariant `SInv` adds to `IInv` that the counter is exact at barriers
too (`Counted`: a body reaches one with nothing left of the one before), that a task is
with the mapper, or queued, or with a worker, or executing, and blocked if it is nowhere
(`Placed`), that the mapper's sets are disjoint, and that the active count is the number
of tasks that run and Main (`ActiveExact`). For the refinement each action is a step of
`Graph` or a stutter under `StatusOf`.

`NoThreadsWaitInACycle` proves `NoMutexCycle` for `Structured` programs, under the same
condition on the behaviour, and `NestedBarriersNeverCycle` without it when nothing has
dependencies at its spawn. `Structured` says that each task is waited for by one context
(its spawner, on behalf of the tasks that depend on it, or the body that awaits it), that
ownership has no cycles, and that what is waited for does not spawn, unless all waiting is
at barriers. In a set of threads that waits for itself, a thread that registers waits for
tasks it owns. Each of those that is in the set has to register too: it does not notify,
since the task it would have to wait for is the one that has yet to register with it, and
it does not spawn. So each owns another one, against the acyclic ownership, and nobody in
the set registers. A thread that notifies waits for a task that is being registered, by a
thread that could only be registering. What is left is threads that all wait for the
mapper, among them a task the mapper examines, which does not spawn. `MInv` adds to `SInv`
that a task with the mapper has not begun, and which tasks one registers with: those of its
spawn, or of the barrier its body is at.

`Scheduler_proofs` proves all five invariants of run `pool` for every program, any number
of workers and devices, and all limits (from `SchedulerAssumption`: finitely many tasks
and workers, and parents without cycles, since a task exists before its body spawns). The
inductive invariant says where each thread can be and what a worker's place says about its
task (`Threads`), that a task is with one worker until this has ended it (`Jobs`), that
nobody leaves its body with tasks unspawned (`SpawnersDone`), and that the two counts are
those of busy workers and of live tasks (`CountsExact`). The stop needs one more thought
than the counts: when none is live and Main is out, a task that is not spawned has a parent
that is not spawned, and so on without end, which the acyclic parents exclude.

`Streams_proofs` proves `EndedAreQuiet` and `KernelsInOrder` for every program of tasks,
every number of workers and of kernels per run. The invariant describes a stream (its wait
comes first, its record last, it is empty before and after its run: `StreamOf`) and, for
each dependency of a task, why it cannot be overtaken (`Kept`): the task still waits for
its notification, or the dependency's last body has ended and its kernels have too, or the
task has its event and has not launched anything, or the task's stream waits for that event
(`Passed`). `Before` is the closure of dependencies and barriers; the theorem follows since
the tasks whose kernels have ended are a closed set.

`Protocol_proofs` has the lemmas about the coherence protocol. A list of operations is
executed by a recursive function, and what it does to a list of any length needs an
induction that the library's theorems cannot be instantiated for; `SetInduction` states it
with a set in the place of the predicate and is proved from the well-foundedness of `<` on
`Nat`, and `PerformKeeps` is the loop rule that follows from it. `ReadKeeps`, `WriteKeeps`
and `EvictKeeps` say that `Read`, `Write` and `EvictCopy`, with the operations they ask
for, keep `WholeCopies`: every valid copy has the highest version and the last content, a
modified one is the only one, and the owner's is valid.

`Coherence_proofs` proves the five invariants of run `whole`, and that no step raises
(`NeverRaises`), for any number of devices, concurrent tasks, writes and evictions, under
`SliceDev = {}`, which makes every access one to the whole array, as in that run.
`WholeCopies` says what the array keeps; for the tasks `InUse` is needed: an operand's
copy stays valid until its task's body ends, and is the only valid one if the task writes.

`DataMovement_proofs` also proves `OperandsFresh` of `DataMovement`, for programs over any
number of arrays accessed as a whole (`WholeOperands`) in which of two conflicting tasks one
comes before the other (`Ordered`): it is a direct dependency that uses the array, or comes,
through any dependencies, before one that does. The move waits for the direct dependencies
that use its block and for nothing else, so an order through a task that does not use the
array would not do (`jacobi_automatic`, section 4). `Before` says "in every set
of tasks closed under dependencies that has these": the tasks that have ended are such a
set. The invariant `CInv` says who is in a block (`Recorded`), that a move
is registered with each user it must wait for, or the user has ended or is still to be
examined (`MovesWait`), and that a moved operand is valid on its task's device, and alone
if it is written, until the task has ended (`Moved`). It is inductive as long as no move is
enqueued while the mapper examines its users (`EnqueuedEarly`), hence `OperandsAreFresh`
for `Spec /\ [][~EnqueuedEarly]_vars`; and `OneUserIsFresh` without that condition for
programs in which each task has at most one direct dependency that uses each of its arrays
(`OneUser`), as the one of run `moves`. TLC checked `CInv` on that program, and
on one with two such dependencies with early enqueueing excluded.

`Resources_proofs` proves `TypeOK`, `PoolExact` and `MapperNeverWaits` for every program
and machine that is `Fitting`: a device on which arrays are created or filled has room for
all arrays and all tasks that may be put there, on every other one each task's outputs are
among its inputs (so that the policy has counted them), an array without data is filled
where it is, and a body that awaits asks for nothing. With room for everything on every
device the policy's check would never matter; with `Fitting` it does on all devices that
are nobody's home, and `Promised` is the part of the invariant that says so: what the
policy found available for the task in hand is still there when the mapper takes it,
because only the mapper takes (a finished task gives back and fills at home), and each
move it registers uses up its share of what is left to come (`ToCome`). Elsewhere the room
follows from `PoolExact` and the sum of all that can be held (`RoomForOne`,
`RoomForMove`). The rest of `IInv` is where the queues, the tracked arrays, the tasks and
the mapper's locals can be; `LaunchedExact` is the count of launched tasks. The pool's
amounts are sums over finite sets. How such a sum changes when one term does, or when an
element is added, is proved from the fold of the library by induction over subsets, again
with a set in the place of the predicate (`SubsetInduction`). TLC checked `IInv` on the
instances of run `resources` before it was proved.

`Partitioning_proofs` is about the floating-point arithmetic of `ldevice.py`, which TLC
checks only in sizes where it comes out exact. A floating-point number is a whole number of
some units, and `FloatProducts` and `FloatQuotients` say how far the products and quotients
of the code may be from the exact ones: less than one over the number of partitions or
logical devices, which IEEE rounding guarantees as long as the product of the two sizes is
below 2^51, and not at all where the code's divisor is such that nothing is rounded. The
exact numbers are among these (`ExactProducts`, `ExactQuotients`). A number so close to a
fraction is on the same side of every other whole number (`NearSide`); only where the exact
value is whole itself may rounding move a bound by one. Hence an element selected by
partition `i` of `p` has the quotient `(x * p) \div n = i`, or is the first of the
next partition and the partition size is not whole (`PartitionOwner`): with 56 elements and 50
partitions, element 28 is the second of partition 24 and partition 25 begins after it.
The partitions cover a range exactly once all the same (`PartitionsCover`), the device of
an element exists (`DeviceExists`, `RaveledDeviceExists`), and every device has one when
there are not more devices than logical ones (`NoDeviceIdle`).

Only model-checked: `Coherence` with subarrays (`slices`), where the content of a buffer
is put together from parts that several devices hold; `Programs`, which uses recursive
operators and whose reference, the serial execution, is defined by recursion over a
program, and `SliceMapping`, which is checked through programs; and all liveness
properties, which are out of the prover's reach (`EveryTaskEnds`, `GivenRuns`, `SpawnReturns`, and the
absence of deadlock where a run checks it). Three things that the theorems exclude by a
hypothesis are failures of the code that TLC shows: the last notification between the
mapper's two critical sections (`early_stop`), a move enqueued early, and the programs and
machines that are not `Structured` or not `Fitting` (section 4).

## 6. Not modelled, and the plan

Left open within modelled components:

- `PArray.update` with its reset, views and shapes; slice hashes; negative bounds of
  slices; `evict(keep_one_copy=False)`; arrays in parts in `Resources`.
- The eviction under `_coherence_cv`, which excludes nothing (`core.py` 352): the program
  evicts while no task uses the array.
- Bodies that raise before they have synchronised their stream; several GPUs in one task,
  whose component has no event methods; the synchronisation inside a move (`core.py`
  417-427), which makes it an operation of the host.
- A data movement task that is enqueued twice (the race of `early_stop`): its second run
  fails an assertion before it moves anything. The roll back of a failed allocation is
  unreachable, since every allocation blocks.
- `reserve_persistent_memory`, and variants that ask for different resources.
- In the programs: `jacobi_manual` and `timestep_gpu` with `isync = 0`, which race; the
  parts of tutorials 5 and 6 that await only the last task or read an array that is moved
  meanwhile; the bounds of Q in `qr_parla` when the rows do not divide; `async_test.py` of
  tutorial 3, which imports a missing module.

Left out for good: `multiload` (dynamic linking), the CUDA bindings and array conversions
(external libraries), the enumeration of devices and the registry of environments
(static), the launcher, and the Dask, MPI and thread baselines (no Parla).

What would come next: `Coherence` with subarrays, proved; `PArray.update` with the index
maps; and hashes and negative bounds of slices.
