-------------------------- MODULE Scheduler_proofs --------------------------
(***************************************************************************)
(* The safety of the worker threads, the callbacks and the shutdown, for   *)
(* every program of tasks and every number of workers and devices: the     *)
(* worker pool is consistent, the running and the active count are exact,  *)
(* the scheduler stops after all tasks, and no GPU is over its bound.      *)
(***************************************************************************)
EXTENDS Scheduler, FiniteSetTheorems, TLAPS

Place == {"unspawned", "new", "current", "ready", "queued", "given", "done"}
Queue == {"new", "current", "ready", "queued"}
MainPc == Callback \cup {"init", "program", "exit", "returned", "stopping"}
WorkerPc == Callback \cup {"stopping", "start", "loop", "get", "waiting", "woken", "body", "remove", "append", "ended"}

Busy == {w \in Worker : job[w] # NoTask}
Live == {t \in Task : place[t] \notin {"unspawned", "done"}}
MainOut == pc[Main] \in {"stopping", "exit", "returned"}

\* TypeOK without the ranges of the two counts, which follow from CountsExact
Types ==
    /\ job \in [Worker -> Task \cup {NoTask}]
    /\ place \in [Task -> Place]
    /\ dev \in [Task -> Dev]
    /\ turns \in [map : 0 .. MapLimit, failed : BOOLEAN, schedule : 0 .. ScheduleLimit]
    /\ visit \subseteq Dev
    /\ free \subseteq Worker
    /\ worked \subseteq Thread
    /\ stopped \in BOOLEAN
    /\ halted \subseteq Worker

\* where threads can be, and what a worker's place says about its task
Threads ==
    /\ pc \in [Thread -> MainPc \cup WorkerPc]
    /\ pc[Main] \in MainPc
    /\ \A w \in Worker :
        /\ pc[w] \in WorkerPc
        /\ w \in free => job[w] = NoTask
        /\ pc[w] \in {"body", "stopping", "remove"} => job[w] # NoTask
        /\ pc[w] \in {"start", "append"} => job[w] = NoTask /\ w \notin free
        /\ pc[w] = "woken" => job[w] # NoTask \/ w \in halted

\* a worker's task is given until the worker has ended it, and no other
\* worker has it
Jobs ==
    /\ \A w \in Busy : place[job[w]] = IF pc[w] \in {"stopping", "remove"} THEN "done" ELSE "given"
    /\ \A v, w \in Busy : job[v] = job[w] => v = w

\* who has left its body has spawned all its tasks
SpawnersDone ==
    /\ \A t \in Task : place[t] = "done" => \A u \in Children(t) : place[u] # "unspawned"
    /\ MainOut => \A u \in Children(Main) : place[u] # "unspawned"

CountsExact ==
    /\ running = 1 + Cardinality(Busy)
    /\ active = Cardinality(Live) + (IF MainOut THEN 0 ELSE 1)
    /\ stopped => active = 0

IInv == Types /\ Threads /\ Jobs /\ SpawnersDone /\ CountsExact /\ Colocated

-----------------------------------------------------------------------------

LEMMA MainIsNoWorker == Main \notin Worker /\ \A c \in Thread : c = Main \/ c \in Worker
  BY SchedulerAssumption DEF Thread

LEMMA Finite ==
    /\ IsFiniteSet(Live) /\ IsFiniteSet(Busy)
    /\ \A d : IsFiniteSet(GivenOn(d))
    /\ Cardinality(Live) \in Nat /\ Cardinality(Busy) \in Nat
  <1>1. Live \subseteq Task /\ Busy \subseteq Worker /\ \A d : GivenOn(d) \subseteq Task
    BY DEF Live, Busy, GivenOn, At
  <1>2. IsFiniteSet(Live) /\ IsFiniteSet(Busy) /\ \A d : IsFiniteSet(GivenOn(d))
    BY <1>1, FS_Subset, SchedulerAssumption
  <1> QED BY <1>2, FS_CardinalityType

LEMMA InitIInv == Init => IInv
  <1> SUFFICES ASSUME Init PROVE IInv
    OBVIOUS
  <1> USE SchedulerAssumption, MainIsNoWorker
  <1>1. Types
    <2>1. dev \in [Task -> Dev]
      <3>1. \A t \in Task : Placement[t] \in (SUBSET Dev) \ {{}}
        OBVIOUS
      <3>2. \A t \in Task : (CHOOSE d \in Placement[t] : TRUE) \in Dev
        BY <3>1
      <3> QED BY <3>2 DEF Init
    <2>2. turns \in [map : 0 .. MapLimit, failed : BOOLEAN, schedule : 0 .. ScheduleLimit]
      BY DEF Init
    <2> QED BY <2>1, <2>2 DEF Init, Types, Place
  <1>2. Threads
    BY DEF Init, Threads, MainPc, WorkerPc, Thread
  <1>3. Busy = {} /\ Live = {} /\ ~MainOut /\ \A d : GivenOn(d) = {}
    BY DEF Init, Busy, Live, MainOut, GivenOn, At, Thread
  <1>4. Jobs /\ SpawnersDone
    <2>1. \A t \in Task : place[t] # "done"
      BY DEF Init
    <2> QED BY <1>3, <2>1 DEF Jobs, SpawnersDone
  <1>5. CountsExact
    BY <1>3, FS_EmptySet DEF Init, CountsExact
  <1>6. Colocated
    <2>1. \A d : Cardinality(GivenOn(d)) = 0
      BY <1>3, FS_EmptySet
    <2> QED BY <2>1 DEF Colocated
  <1> QED BY <1>1, <1>2, <1>4, <1>5, <1>6 DEF IInv

-----------------------------------------------------------------------------
(* A thread goes on, and tasks go from queue to queue: nothing that a      *)
(* count depends on changes.                                               *)

LEMMA Walk ==
    ASSUME IInv, NEW c \in Thread, NEW l,
           pc' = [pc EXCEPT ![c] = l],
           pc[c] \notin {"stopping", "remove", "exit", "returned"},
           IF c = Main THEN l \in Callback \cup {"init", "program"}
           ELSE \/ l \in Callback \cup {"loop", "get", "waiting", "ended"}
                \/ l = "body" /\ job[c] # NoTask,
           place' \in [Task -> Place],
           \A t \in Task : place'[t] = place[t] \/ {place[t], place'[t]} \subseteq Queue,
           dev' \in [Task -> Dev],
           \A t \in Task : place[t] = "given" => dev'[t] = dev[t],
           turns' \in [map : 0 .. MapLimit, failed : BOOLEAN, schedule : 0 .. ScheduleLimit],
           visit' \subseteq Dev, worked' \subseteq Thread,
           UNCHANGED <<job, free, running, active, stopped, halted>>
    PROVE  IInv'
  <1> USE MainIsNoWorker
  <1>1. Types'
    BY DEF IInv, Types
  <1>2. Threads'
    <2>1. pc' \in [Thread -> MainPc \cup WorkerPc]
      BY DEF IInv, Threads, MainPc, WorkerPc
    <2>2. pc'[Main] \in MainPc
      BY DEF IInv, Threads, MainPc
    <2>3. ASSUME NEW w \in Worker
          PROVE  /\ pc'[w] \in WorkerPc
                 /\ w \in free => job[w] = NoTask
                 /\ pc'[w] \in {"body", "stopping", "remove"} => job[w] # NoTask
                 /\ pc'[w] \in {"start", "append"} => job[w] = NoTask /\ w \notin free
                 /\ pc'[w] = "woken" => job[w] # NoTask \/ w \in halted
      <3>1. CASE w = c
        BY <3>1 DEF IInv, Threads, WorkerPc, Callback, Mapping, Scheduling, Launching
      <3>2. CASE w # c
        BY <3>2 DEF IInv, Threads
      <3> QED BY <3>1, <3>2
    <2> QED BY <2>1, <2>2, <2>3 DEF Threads
  <1>3. Busy' = Busy
    BY DEF Busy
  <1>4. \A t \in Task : /\ (place'[t] = "done") = (place[t] = "done")
                        /\ (place'[t] = "given") = (place[t] = "given")
                        /\ (place'[t] = "unspawned") = (place[t] = "unspawned")
    BY DEF Queue
  <1>5. Live' = Live /\ \A d : GivenOn(d)' = GivenOn(d)
    BY <1>4 DEF Live, GivenOn, At
  <1>6. MainOut' = MainOut
    <2>1. CASE c = Main
      BY <2>1 DEF IInv, Threads, MainOut, Callback, Mapping, Scheduling, Launching, Thread
    <2>2. CASE c # Main
      BY <2>2 DEF IInv, Threads, MainOut, Thread
    <2> QED BY <2>1, <2>2
  <1>7. Jobs'
    <2>1. ASSUME NEW w \in Busy
          PROVE  place'[job[w]] = IF pc'[w] \in {"stopping", "remove"} THEN "done" ELSE "given"
      <3>1. w \in Worker /\ job[w] \in Task
        BY DEF Busy, IInv, Types
      <3>2. (pc'[w] \in {"stopping", "remove"}) = (pc[w] \in {"stopping", "remove"})
        BY <3>1 DEF IInv, Threads, Callback, Mapping, Scheduling, Launching
      <3>3. place[job[w]] = IF pc[w] \in {"stopping", "remove"} THEN "done" ELSE "given"
        BY DEF IInv, Jobs
      <3> QED BY <3>1, <3>2, <3>3, <1>4
    <2> QED BY <2>1, <1>3 DEF Jobs, IInv
  <1>8. SpawnersDone'
    <2>1. \A p : Children(p) \subseteq Task
      BY DEF Children
    <2> QED BY <2>1, <1>4, <1>6 DEF SpawnersDone, IInv, Children
  <1>9. CountsExact' /\ Colocated'
    BY <1>3, <1>5, <1>6 DEF CountsExact, Colocated, IInv
  <1> QED BY <1>1, <1>2, <1>7, <1>8, <1>9 DEF IInv
\* the same when no task moves
LEMMA Go ==
    ASSUME IInv, NEW c \in Thread, NEW l,
           pc' = [pc EXCEPT ![c] = l],
           pc[c] \notin {"stopping", "remove", "exit", "returned"},
           IF c = Main THEN l \in Callback \cup {"init", "program"}
           ELSE \/ l \in Callback \cup {"loop", "get", "waiting", "ended"}
                \/ l = "body" /\ job[c] # NoTask,
           turns' \in [map : 0 .. MapLimit, failed : BOOLEAN, schedule : 0 .. ScheduleLimit],
           visit' \subseteq Dev, worked' \subseteq Thread,
           UNCHANGED <<job, place, dev, free, running, active, stopped, halted>>
    PROVE  IInv'
  <1>1. place' \in [Task -> Place] /\ dev' \in [Task -> Dev]
    BY DEF IInv, Types
  <1> QED BY <1>1, Walk

\* the steps of a callback that only move its thread
LEMMA CallbackGoes ==
    ASSUME IInv, NEW c \in Thread,
           \/ MapTests(c) \/ MapSkip(c) \/ ScheduleTests(c) \/ ScheduleSkip(c)
           \/ LaunchTests(c) \/ LaunchSkip(c) \/ Release(c) \/ Again(c) \/ ScheduleEnter(c)
    PROVE  IInv'
  <1> DEFINE l == pc'[c]
  <1>1. worked \subseteq Thread /\ pc \in [Thread -> MainPc \cup WorkerPc] /\ visit \subseteq Dev
    BY DEF IInv, Types, Threads
  <1>2. turns \in [map : 0 .. MapLimit, failed : BOOLEAN, schedule : 0 .. ScheduleLimit]
    BY DEF IInv, Types
  <1>3. /\ worked' \subseteq Thread
        /\ UNCHANGED <<job, place, dev, turns, visit, free, running, active, stopped, halted>>
    BY <1>1 DEF MapTests, MapSkip, ScheduleTests, ScheduleSkip, LaunchTests, LaunchSkip, Release, Again,
                ScheduleEnter
  <1>4. /\ pc' = [pc EXCEPT ![c] = l]
        /\ pc[c] \notin {"stopping", "remove", "exit", "returned"}
        /\ IF c = Main THEN l \in Callback \cup {"init", "program"}
           ELSE \/ l \in Callback \cup {"loop", "get", "waiting", "ended"}
                \/ l = "body" /\ job[c] # NoTask
    <2>1. CASE MapTests(c) \/ MapSkip(c) \/ ScheduleTests(c) \/ ScheduleSkip(c)
      BY <2>1, <1>1 DEF MapTests, MapSkip, ScheduleTests, ScheduleSkip, Goto, Callback
    <2>2. CASE LaunchTests(c) \/ LaunchSkip(c)
      BY <2>2, <1>1 DEF LaunchTests, LaunchSkip, Goto, Callback
    <2>3. CASE Release(c)
      BY <2>3, <1>1 DEF Release, Goto, Callback
    <2>4. CASE Again(c)
      BY <2>4, <1>1 DEF Again, Goto, Callback
    <2>5. CASE ScheduleEnter(c)
      BY <2>5, <1>1 DEF ScheduleEnter, Goto, Callback, Scheduling
    <2> QED BY <2>1, <2>2, <2>3, <2>4, <2>5
  <1> HIDE DEF l
  <1> QED BY <1>2, <1>1, <1>3, <1>4, Go

\* the steps of the three phases, but for a launch
LEMMA MappingPhase ==
    ASSUME IInv, NEW c \in Thread,
           \/ MapEnter(c) \/ MapEnds(c)
           \/ \E t \in Task : MapFails(c, t) \/ \E d \in Dev : MapTask(c, t, d)
    PROVE  IInv'
  <1>1. /\ worked \subseteq Thread /\ pc \in [Thread -> MainPc \cup WorkerPc] /\ visit \subseteq Dev
        /\ place \in [Task -> Place] /\ dev \in [Task -> Dev]
        /\ turns \in [map : 0 .. MapLimit, failed : BOOLEAN, schedule : 0 .. ScheduleLimit]
    BY DEF IInv, Types, Threads
  <1>2. CASE MapEnter(c)
    <2>1. /\ pc' = [pc EXCEPT ![c] = "mapping"] /\ pc[c] = "tryMap"
          /\ "mapping" \in Callback
      BY <1>2 DEF MapEnter, Goto, Callback, Mapping
    <2>2. /\ place' \in [Task -> Place]
          /\ \A t \in Task : place'[t] = place[t] \/ {place[t], place'[t]} \subseteq Queue
      BY <1>1, <1>2 DEF MapEnter, Place, Queue
    <2>3. worked' \subseteq Thread
      BY <1>1, <1>2 DEF MapEnter
    <2>4. UNCHANGED <<job, dev, turns, visit, free, running, active, stopped, halted>>
      BY <1>2 DEF MapEnter
    <2> QED BY <1>1, <2>1, <2>2, <2>3, <2>4, Walk
  <1>3. CASE MapEnds(c)
    <2>1. /\ pc' = [pc EXCEPT ![c] = "mapped"] /\ pc[c] = "mapping" /\ "mapped" \in Callback
      BY <1>3 DEF MapEnds, Goto, Callback, Mapping
    <2>2. turns' \in [map : 0 .. MapLimit, failed : BOOLEAN, schedule : 0 .. ScheduleLimit]
      <3>1. turns.schedule \in 0 .. ScheduleLimit /\ 0 \in 0 .. MapLimit
        BY <1>1, SchedulerAssumption
      <3>2. turns' = [map |-> 0, failed |-> FALSE, schedule |-> turns.schedule]
        BY <1>1, <1>3 DEF MapEnds
      <3> QED BY <3>1, <3>2
    <2>3. UNCHANGED <<job, place, dev, visit, free, worked, running, active, stopped, halted>>
      BY <1>3 DEF MapEnds
    <2> QED BY <1>1, <2>1, <2>2, <2>3, Go
  <1>4. ASSUME NEW t \in Task, NEW d \in Dev, MapTask(c, t, d) \/ MapFails(c, t)
        PROVE  IInv'
    <2>1. /\ pc' = [pc EXCEPT ![c] = "mapping"] /\ pc[c] = "mapping" /\ "mapping" \in Callback
      BY <1>1, <1>4 DEF MapTask, MapFails, CanMap, Callback, Mapping
    <2>2. place[t] = "current"
      BY <1>4 DEF MapTask, MapFails
    <2>3. place' = [place EXCEPT ![t] = "ready"] \/ place' = [place EXCEPT ![t] = "new"]
      BY <1>4 DEF MapTask, MapFails
    <2>4. /\ place' \in [Task -> Place]
          /\ \A u \in Task : place'[u] = place[u] \/ {place[u], place'[u]} \subseteq Queue
      BY <1>1, <2>2, <2>3 DEF Place, Queue
    <2>5. dev' = [dev EXCEPT ![t] = d] \/ dev' = dev
      BY <1>4 DEF MapTask, MapFails
    <2>6. dev' \in [Task -> Dev] /\ \A u \in Task : place[u] = "given" => dev'[u] = dev[u]
      BY <1>1, <2>2, <2>5
    <2>7. turns.map < MapLimit
      BY <1>4 DEF MapTask, MapFails, CanMap
    <2>8. turns' \in [map : 0 .. MapLimit, failed : BOOLEAN, schedule : 0 .. ScheduleLimit]
      <3>1. /\ turns.schedule \in 0 .. ScheduleLimit /\ turns.failed \in BOOLEAN
            /\ turns.map + 1 \in 0 .. MapLimit
        BY <1>1, <2>7, SchedulerAssumption
      <3>2. \E b \in BOOLEAN :
                turns' = [map |-> turns.map + 1, failed |-> b, schedule |-> turns.schedule]
        <4>1. CASE MapTask(c, t, d)
          BY <4>1, <1>1 DEF MapTask
        <4>2. CASE MapFails(c, t)
          BY <4>2, <1>1 DEF MapFails
        <4> QED BY <4>1, <4>2, <1>4
      <3> QED BY <3>1, <3>2
    <2>9. UNCHANGED <<job, visit, free, worked, running, active, stopped, halted>>
      BY <1>4 DEF MapTask, MapFails
    <2> QED BY <1>1, <2>1, <2>4, <2>6, <2>8, <2>9, Walk
  <1>5. \E d : d \in Dev
    BY SchedulerAssumption
  <1> QED BY <1>2, <1>3, <1>4, <1>5

LEMMA SchedulingPhase ==
    ASSUME IInv, NEW c \in Thread,
           ScheduleEnds(c) \/ \E t \in Task : ScheduleTask(c, t)
    PROVE  IInv'
  <1>1. /\ worked \subseteq Thread /\ pc \in [Thread -> MainPc \cup WorkerPc] /\ visit \subseteq Dev
        /\ place \in [Task -> Place] /\ dev \in [Task -> Dev]
        /\ turns \in [map : 0 .. MapLimit, failed : BOOLEAN, schedule : 0 .. ScheduleLimit]
    BY DEF IInv, Types, Threads
  <1>2. CASE ScheduleEnds(c)
    <2>1. pc' = [pc EXCEPT ![c] = "scheduled"] /\ pc[c] = "scheduling" /\ "scheduled" \in Callback
      BY <1>2 DEF ScheduleEnds, Goto, Callback, Scheduling
    <2>2. turns' \in [map : 0 .. MapLimit, failed : BOOLEAN, schedule : 0 .. ScheduleLimit]
      BY <1>1, <1>2, SchedulerAssumption DEF ScheduleEnds
    <2>3. UNCHANGED <<job, place, dev, visit, free, worked, running, active, stopped, halted>>
      BY <1>2 DEF ScheduleEnds
    <2> QED BY <1>1, <2>1, <2>2, <2>3, Go
  <1>3. ASSUME NEW t \in Task, ScheduleTask(c, t)
        PROVE  IInv'
    <2>1. pc' = [pc EXCEPT ![c] = "scheduling"] /\ pc[c] = "scheduling" /\ "scheduling" \in Callback
      BY <1>1, <1>3 DEF ScheduleTask, Callback, Scheduling
    <2>2. /\ place' \in [Task -> Place]
          /\ \A u \in Task : place'[u] = place[u] \/ {place[u], place'[u]} \subseteq Queue
      BY <1>1, <1>3 DEF ScheduleTask, Place, Queue
    <2>3. turns.schedule < ScheduleLimit /\ turns' = [turns EXCEPT !.schedule = @ + 1]
      BY <1>3 DEF ScheduleTask
    <2>4. turns' \in [map : 0 .. MapLimit, failed : BOOLEAN, schedule : 0 .. ScheduleLimit]
      BY <1>1, <2>3, SchedulerAssumption
    <2>5. UNCHANGED <<job, dev, visit, free, worked, running, active, stopped, halted>>
      BY <1>3 DEF ScheduleTask
    <2> QED BY <1>1, <2>1, <2>2, <2>4, <2>5, Walk
  <1> QED BY <1>2, <1>3

LEMMA LaunchingPhase ==
    ASSUME IInv, NEW c \in Thread, LaunchEnter(c) \/ LaunchEnds(c)
    PROVE  IInv'
  <1>1. /\ worked \subseteq Thread /\ pc \in [Thread -> MainPc \cup WorkerPc]
        /\ turns \in [map : 0 .. MapLimit, failed : BOOLEAN, schedule : 0 .. ScheduleLimit]
    BY DEF IInv, Types, Threads
  <1>2. PICK l \in {"launching", "launched"} : pc' = [pc EXCEPT ![c] = l]
    BY DEF LaunchEnter, LaunchEnds, Goto
  <1>3. pc[c] \in {"tryLaunch", "launching"} /\ l \in Callback
    BY <1>2 DEF LaunchEnter, LaunchEnds, Callback, Launching
  <1>4. worked' \subseteq Thread /\ visit' \subseteq Dev
    BY <1>1 DEF LaunchEnter, LaunchEnds
  <1>5. UNCHANGED <<job, place, dev, turns, free, running, active, stopped, halted>>
    BY DEF LaunchEnter, LaunchEnds
  <1> QED BY <1>1, <1>2, <1>3, <1>4, <1>5, Go

\* the main thread's and a worker's own steps that change no count
LEMMA OwnSteps ==
    ASSUME IInv, MainStarts \/ \E w \in Worker : Loop(w) \/ GetTask(w) \/ Wake(w)
    PROVE  IInv'
  <1> USE MainIsNoWorker DEF Thread
  <1>1. /\ worked \subseteq Thread /\ pc \in [Thread -> MainPc \cup WorkerPc] /\ visit \subseteq Dev
        /\ turns \in [map : 0 .. MapLimit, failed : BOOLEAN, schedule : 0 .. ScheduleLimit]
    BY DEF IInv, Types, Threads
  <1>2. CASE MainStarts
    <2>1. pc' = [pc EXCEPT ![Main] = "program"] /\ pc[Main] = "init"
      BY <1>2 DEF MainStarts, Goto
    <2>2. UNCHANGED <<job, place, dev, turns, visit, free, worked, running, active, stopped, halted>>
      BY <1>2 DEF MainStarts
    <2> QED BY <1>1, <2>1, <2>2, Go
  <1>3. ASSUME NEW w \in Worker, Loop(w) \/ GetTask(w) \/ Wake(w)
        PROVE  IInv'
    <2>1. pc[w] = "woken" => job[w] # NoTask \/ w \in halted
      BY DEF IInv, Threads
    <2>2. PICK l \in {"loop", "get", "waiting", "ended", "body"} :
              pc' = [pc EXCEPT ![w] = l] /\ (l = "body" => job[w] # NoTask)
      BY <1>3, <2>1 DEF Loop, GetTask, Wake, Goto
    <2>3. pc[w] \in {"loop", "get", "woken"}
      BY <1>3 DEF Loop, GetTask, Wake
    <2>4. UNCHANGED <<job, place, dev, turns, visit, free, worked, running, active, stopped, halted>>
      BY <1>3 DEF Loop, GetTask, Wake
    <2> QED BY <1>1, <2>2, <2>3, <2>4, Go
  <1> QED BY <1>2, <1>3
-----------------------------------------------------------------------------
(* The steps that change a count.                                          *)

\* one thread moves: what Threads asks of it afterwards
LEMMA ThreadMoves ==
    ASSUME IInv, NEW c \in Thread, NEW l, pc' = [pc EXCEPT ![c] = l],
           halted \subseteq halted',
           \A w \in Worker \ {c} : job'[w] = job[w] /\ (w \in free' => w \in free),
           c = Main => l \in MainPc,
           c # Main => /\ l \in WorkerPc \ {"woken"}
                       /\ c \in free' => job'[c] = NoTask
                       /\ l \in {"body", "stopping", "remove"} => job'[c] # NoTask
                       /\ l \in {"start", "append"} => job'[c] = NoTask /\ c \notin free'
    PROVE  Threads'
  <1> USE MainIsNoWorker
  <1>1. pc' \in [Thread -> MainPc \cup WorkerPc] /\ pc'[Main] \in MainPc
    BY DEF IInv, Threads
  <1>2. ASSUME NEW w \in Worker
        PROVE  /\ pc'[w] \in WorkerPc
               /\ w \in free' => job'[w] = NoTask
               /\ pc'[w] \in {"body", "stopping", "remove"} => job'[w] # NoTask
               /\ pc'[w] \in {"start", "append"} => job'[w] = NoTask /\ w \notin free'
               /\ pc'[w] = "woken" => job'[w] # NoTask \/ w \in halted'
    <2>1. CASE w = c
      BY <2>1 DEF IInv, Threads
    <2>2. CASE w # c
      BY <2>2 DEF IInv, Threads
    <2> QED BY <2>1, <2>2
  <1> QED BY <1>1, <1>2 DEF Threads

\* the scheduler is not stopped while a thread can still spawn
LEMMA BusyIsActive ==
    ASSUME IInv
    PROVE  /\ \A w \in Busy : pc[w] \notin {"stopping", "remove"} => job[w] \in Live
           /\ Live # {} \/ ~MainOut => active > 0 /\ ~stopped
           /\ active \in Nat
  <1>1. \A w \in Busy : pc[w] \notin {"stopping", "remove"} => job[w] \in Live
    BY DEF IInv, Types, Jobs, Busy, Live
  <1>2. Live # {} => Cardinality(Live) > 0
    BY Finite, FS_EmptySet
  <1>3. active \in Nat /\ (Live # {} \/ ~MainOut => active > 0)
    BY <1>2, Finite DEF IInv, CountsExact
  <1> QED BY <1>1, <1>3 DEF IInv, CountsExact

LEMMA SpawnStep ==
    ASSUME IInv, NEW c \in Thread, NEW t \in Task, Spawn(c, t)
    PROVE  IInv'
  <1> USE MainIsNoWorker
  <1>1. /\ pc' = [pc EXCEPT ![c] = "map"] /\ place[t] = "unspawned"
        /\ pc[c] \in {"program", "body"}
        /\ c # Main => pc[c] = "body"
        /\ c = Main => pc[c] = "program"
        /\ place' = [place EXCEPT ![t] = "new"] /\ active' = active + 1
        /\ UNCHANGED <<job, dev, turns, visit, free, worked, running, stopped, halted>>
    BY DEF Spawn, Goto
  <1>2. pc \in [Thread -> MainPc \cup WorkerPc] /\ place \in [Task -> Place] /\ Types
    BY DEF IInv, Types, Threads
  <1>3. Types'
    BY <1>1, <1>2 DEF Types, Place
  <1>4. Threads'
    <2>1. c # Main => (c \in free' => job'[c] = NoTask)
      BY <1>1 DEF IInv, Threads
    <2> QED BY <1>1, <2>1, ThreadMoves DEF MainPc, WorkerPc, Callback
  <1>5. MainOut' = MainOut /\ (c = Main => ~MainOut)
    BY <1>1, <1>2 DEF MainOut, Thread
  <1>6. Busy' = Busy /\ Live' = Live \cup {t} /\ t \notin Live
    BY <1>1, <1>2 DEF Busy, Live
  <1>7. Jobs'
    <2>1. ASSUME NEW w \in Busy
          PROVE  place'[job[w]] = IF pc'[w] \in {"stopping", "remove"} THEN "done" ELSE "given"
      <3>1. w \in Worker /\ job[w] \in Task
        BY <1>2 DEF Busy, Types
      <3>2. (pc'[w] \in {"stopping", "remove"}) = (pc[w] \in {"stopping", "remove"})
        BY <3>1, <1>1, <1>2
      <3>3. place[job[w]] = IF pc[w] \in {"stopping", "remove"} THEN "done" ELSE "given"
        BY DEF IInv, Jobs
      <3> QED BY <3>1, <3>2, <3>3, <1>1, <1>2
    <2> QED BY <2>1, <1>1, <1>6 DEF IInv, Jobs
  <1>8. SpawnersDone'
    <2>1. \A u \in Task : /\ (place'[u] = "done") = (place[u] = "done")
                          /\ place[u] # "unspawned" => place'[u] # "unspawned"
      BY <1>1, <1>2
    <2> QED BY <2>1, <1>5 DEF IInv, SpawnersDone, Children
  <1>9. CountsExact'
    <2>1. Cardinality(Live') = Cardinality(Live) + 1
      BY <1>6, Finite, FS_AddElement
    <2>2. ~stopped
      <3>1. CASE c = Main
        BY <3>1, <1>5, BusyIsActive
      <3>2. CASE c # Main
        <4>1. c \in Busy
          BY <3>2, <1>1 DEF IInv, Threads, Busy
        <4> QED BY <4>1, <3>2, <1>1, BusyIsActive
      <3> QED BY <3>1, <3>2
    <2> QED BY <2>1, <2>2, <1>1, <1>5, <1>6, Finite DEF IInv, CountsExact
  <1>10. Colocated'
    <2>1. \A d : GivenOn(d)' = GivenOn(d)
      BY <1>1, <1>2 DEF GivenOn, At
    <2> QED BY <2>1 DEF IInv, Colocated
  <1> QED BY <1>3, <1>4, <1>7, <1>8, <1>9, <1>10 DEF IInv

LEMMA MainExitsStep == ASSUME IInv, MainExits PROVE IInv'
  <1> USE MainIsNoWorker
  <1>1. PICK l \in {"stopping", "exit"} : pc' = [pc EXCEPT ![Main] = l]
    BY DEF MainExits, DecrActive, Goto
  <1>2. /\ pc[Main] = "program" /\ active' = active - 1 /\ (stopped' => active = 1) /\ stopped' \in BOOLEAN
        /\ UNCHANGED <<job, place, dev, turns, visit, free, worked, running, halted>>
        /\ \A t \in Children(Main) : place[t] # "unspawned"
    BY DEF MainExits, DecrActive
  <1>3. pc \in [Thread -> MainPc \cup WorkerPc] /\ Types /\ Main \in Thread
    BY DEF IInv, Threads, Thread
  <1>4. Types'
    BY <1>2, <1>3 DEF Types
  <1>5. Threads'
    BY <1>1, <1>2, <1>3, ThreadMoves DEF MainPc
  <1>6. ~MainOut /\ MainOut'
    BY <1>1, <1>2, <1>3 DEF MainOut
  <1>7. \A w \in Worker : pc'[w] = pc[w]
    BY <1>1, <1>3
  <1>8. Busy' = Busy /\ Live' = Live /\ \A d : GivenOn(d)' = GivenOn(d)
    BY <1>2 DEF Busy, Live, GivenOn, At
  <1>9. Jobs'
    <2>1. Busy \subseteq Worker
      BY DEF Busy
    <2> QED BY <2>1, <1>2, <1>7, <1>8 DEF IInv, Jobs
  <1>10. SpawnersDone'
    BY <1>2 DEF IInv, SpawnersDone, Children
  <1>11. CountsExact'
    <2>1. running' = 1 + Cardinality(Busy)' /\ active' = Cardinality(Live)'
      BY <1>2, <1>6, <1>8, Finite DEF IInv, CountsExact
    <2>2. stopped' => active' = 0
      BY <1>2
    <2> QED BY <2>1, <2>2, <1>6, <1>8, Finite DEF CountsExact
  <1>12. Colocated'
    BY <1>8 DEF IInv, Colocated
  <1> QED BY <1>4, <1>5, <1>9, <1>10, <1>11, <1>12 DEF IInv

LEMMA FinishStep == ASSUME IInv, NEW w \in Worker, Finish(w) PROVE IInv'
  <1> USE MainIsNoWorker
  <1> DEFINE t == job[w]
  <1>1. PICK l \in {"stopping", "remove"} : pc' = [pc EXCEPT ![w] = l]
    BY DEF Finish, DecrActive, Goto
  <1>2. /\ pc[w] = "body" /\ active' = active - 1 /\ (stopped' => active = 1) /\ stopped' \in BOOLEAN
        /\ place' = [place EXCEPT ![t] = "done"]
        /\ UNCHANGED <<job, dev, turns, visit, free, worked, running, halted>>
        /\ \A u \in Children(t) : place[u] # "unspawned"
    BY DEF Finish, DecrActive
  <1>3. pc \in [Thread -> MainPc \cup WorkerPc] /\ Types /\ w \in Thread
    BY DEF IInv, Threads, Thread
  <1>4. w \in Busy /\ t \in Task /\ place[t] = "given"
    <2>1. w \in Busy
      BY <1>2 DEF IInv, Threads, Busy
    <2> QED BY <2>1, <1>2, <1>3 DEF IInv, Jobs, Busy, Types
  <1> HIDE DEF t
  <1>5. Types'
    BY <1>2, <1>3 DEF Types, Place
  <1>6. Threads'
    <2>1. w \notin free /\ job[w] # NoTask
      BY <1>4 DEF IInv, Threads, Busy
    <2> QED BY <2>1, <1>1, <1>2, <1>3, ThreadMoves DEF WorkerPc
  <1>7. MainOut' = MainOut
    BY <1>1, <1>3 DEF MainOut, Thread
  <1>8. place \in [Task -> Place]
    BY <1>3 DEF Types
  <1>9. Busy' = Busy /\ Live' = Live \ {t} /\ t \in Live
    BY <1>2, <1>4, <1>8 DEF Busy, Live
  <1>10. Jobs'
    <2>1. ASSUME NEW v \in Busy
          PROVE  place'[job[v]] = IF pc'[v] \in {"stopping", "remove"} THEN "done" ELSE "given"
      <3>1. v \in Worker /\ job[v] \in Task
        BY <1>3 DEF Busy, Types
      <3>2. CASE v = w
        BY <3>1, <3>2, <1>1, <1>2, <1>3, <1>4, <1>8 DEF t
      <3>3. CASE v # w
        <4>1. job[v] # t
          BY <3>3, <1>4 DEF IInv, Jobs, t
        <4>2. pc'[v] = pc[v] /\ place'[job[v]] = place[job[v]]
          BY <3>1, <3>3, <4>1, <1>1, <1>2, <1>3, <1>8
        <4> QED BY <4>2 DEF IInv, Jobs
      <3> QED BY <3>2, <3>3
    <2> QED BY <2>1, <1>2, <1>9 DEF IInv, Jobs
  <1>11. SpawnersDone'
    <2>1. \A u \in Task : /\ place'[u] = "done" => u = t \/ place[u] = "done"
                          /\ place[u] # "unspawned" => place'[u] # "unspawned"
      BY <1>2, <1>8
    <2>2. \A p : Children(p)' = Children(p) /\ Children(p) \subseteq Task
      BY DEF Children
    <2> QED BY <2>1, <2>2, <1>2, <1>7 DEF IInv, SpawnersDone
  <1>12. CountsExact'
    <2>1. Cardinality(Live') = Cardinality(Live) - 1
      BY <1>9, Finite, FS_RemoveElement
    <2>2. running' = 1 + Cardinality(Busy') /\ active' = Cardinality(Live') + (IF MainOut' THEN 0 ELSE 1)
      BY <2>1, <1>2, <1>7, <1>9, Finite DEF IInv, CountsExact
    <2>3. stopped' => active' = 0
      BY <1>2
    <2> QED BY <2>2, <2>3 DEF CountsExact
  <1>13. Colocated'
    <2>1. ASSUME NEW d \in Gpu PROVE Cardinality(GivenOn(d)') <= Cardinality(GivenOn(d))
      <3>1. GivenOn(d)' \subseteq GivenOn(d)
        BY <1>2, <1>8 DEF GivenOn, At
      <3> QED BY <3>1, Finite, FS_Subset
    <2>2. \A d \in Gpu : Cardinality(GivenOn(d)') \in Nat /\ Cardinality(GivenOn(d)) \in Nat
      <3>1. \A d : GivenOn(d)' \subseteq Task
        BY DEF GivenOn, At
      <3> QED BY <3>1, Finite, FS_Subset, FS_CardinalityType, SchedulerAssumption
    <2> QED BY <2>1, <2>2, SchedulerAssumption DEF IInv, Colocated
  <1> QED BY <1>5, <1>6, <1>10, <1>11, <1>12, <1>13 DEF IInv
\* no task moves and no worker's task changes
LEMMA CountsKept ==
    ASSUME IInv, Types', Threads', MainOut' = MainOut,
           UNCHANGED <<job, place, dev, running, active, stopped>>,
           \A w \in Busy : (pc'[w] \in {"stopping", "remove"}) = (pc[w] \in {"stopping", "remove"})
    PROVE  IInv'
  <1>1. Busy' = Busy /\ Live' = Live /\ \A d : GivenOn(d)' = GivenOn(d)
    BY DEF Busy, Live, GivenOn, At
  <1>2. Jobs'
    <2>1. ASSUME NEW w \in Busy
          PROVE  place'[job[w]] = IF pc'[w] \in {"stopping", "remove"} THEN "done" ELSE "given"
      BY DEF IInv, Jobs
    <2> QED BY <2>1, <1>1 DEF IInv, Jobs
  <1>3. SpawnersDone'
    BY DEF IInv, SpawnersDone, Children
  <1>4. CountsExact' /\ Colocated'
    BY <1>1 DEF IInv, CountsExact, Colocated
  <1> QED BY <1>2, <1>3, <1>4 DEF IInv

LEMMA StopSteps ==
    ASSUME IInv, NEW c \in Thread, StopEnds(c) \/ \E w \in Worker : StopWorker(c, w)
    PROVE  IInv'
  <1> USE MainIsNoWorker
  <1>1. pc \in [Thread -> MainPc \cup WorkerPc] /\ Types
    BY DEF IInv, Threads
  <1>2. CASE StopEnds(c)
    <2>1. /\ pc[c] = "stopping"
          /\ pc' = [pc EXCEPT ![c] = IF c = Main THEN "exit" ELSE "remove"]
          /\ UNCHANGED <<job, place, dev, turns, visit, free, worked, running, active, stopped, halted>>
      BY <1>2 DEF StopEnds, Goto
    <2>2. Types'
      BY <1>1, <2>1 DEF Types
    <2>3. Threads'
      <3>1. c # Main => job[c] # NoTask /\ c \notin free
        BY <2>1 DEF IInv, Threads
      <3> QED BY <2>1, <3>1, ThreadMoves DEF MainPc, WorkerPc
    <2>4. MainOut' = MainOut
      BY <1>1, <2>1 DEF MainOut, Thread
    <2>5. \A w \in Busy : (pc'[w] \in {"stopping", "remove"}) = (pc[w] \in {"stopping", "remove"})
      BY <1>1, <2>1 DEF Busy, Thread
    <2> QED BY <2>1, <2>2, <2>3, <2>4, <2>5, CountsKept
  <1>3. ASSUME NEW w \in Worker, StopWorker(c, w)
        PROVE  IInv'
    <2>1. /\ halted' = halted \cup {w}
          /\ IF pc[w] = "waiting" THEN pc' = [pc EXCEPT ![w] = "woken"] ELSE pc' = pc
          /\ UNCHANGED <<job, place, dev, turns, visit, free, worked, running, active, stopped>>
      BY <1>3 DEF StopWorker, Goto
    <2>2. Types'
      BY <1>1, <2>1 DEF Types
    <2>3. Threads'
      <3>1. pc' \in [Thread -> MainPc \cup WorkerPc] /\ pc'[Main] \in MainPc
        <4>1. pc' = pc \/ pc' = [pc EXCEPT ![w] = "woken"]
          BY <2>1
        <4>2. pc[Main] \in MainPc /\ w # Main
          BY DEF IInv, Threads
        <4> QED BY <1>1, <4>1, <4>2 DEF WorkerPc, Thread
      <3>2. \A v \in Worker : pc'[v] = pc[v] \/ (v = w /\ pc'[v] = "woken")
        BY <1>1, <2>1 DEF Thread
      <3> QED BY <2>1, <3>1, <3>2 DEF IInv, Threads, WorkerPc
    <2>4. MainOut' = MainOut
      BY <1>1, <2>1 DEF MainOut, Thread
    <2>5. \A v \in Busy : (pc'[v] \in {"stopping", "remove"}) = (pc[v] \in {"stopping", "remove"})
      BY <1>1, <2>1 DEF Busy, Thread
    <2> QED BY <2>1, <2>2, <2>3, <2>4, <2>5, CountsKept
  <1> QED BY <1>2, <1>3

LEMMA MainReturnsStep == ASSUME IInv, MainReturns PROVE IInv'
  <1> USE MainIsNoWorker
  <1>1. pc \in [Thread -> MainPc \cup WorkerPc] /\ Types /\ Main \in Thread
    BY DEF IInv, Threads, Thread
  <1>2. /\ pc[Main] = "exit" /\ pc' = [pc EXCEPT ![Main] = "returned"]
        /\ UNCHANGED <<job, place, dev, turns, visit, free, worked, running, active, stopped, halted>>
    BY DEF MainReturns, Goto
  <1>3. Types' /\ MainOut' = MainOut
    BY <1>1, <1>2 DEF Types, MainOut
  <1>4. Threads'
    BY <1>1, <1>2, ThreadMoves DEF MainPc
  <1>5. \A w \in Busy : (pc'[w] \in {"stopping", "remove"}) = (pc[w] \in {"stopping", "remove"})
    BY <1>1, <1>2 DEF Busy
  <1> QED BY <1>2, <1>3, <1>4, <1>5, CountsKept

LEMMA AppendFreeStep == ASSUME IInv, NEW w \in Worker, AppendFree(w) PROVE IInv'
  <1> USE MainIsNoWorker
  <1>1. pc \in [Thread -> MainPc \cup WorkerPc] /\ Types /\ w \in Thread
    BY DEF IInv, Threads, Thread
  <1>2. /\ pc[w] \in {"start", "append"} /\ free' = free \cup {w}
        /\ UNCHANGED <<job, place, dev, turns, visit, worked, running, active, stopped, halted>>
    BY DEF AppendFree
  <1>3. PICK l \in {"loop", "map"} : pc' = [pc EXCEPT ![w] = l]
    BY DEF AppendFree, Goto
  <1>4. Types' /\ MainOut' = MainOut
    BY <1>1, <1>2, <1>3 DEF Types, MainOut, Thread
  <1>5. Threads'
    <2>1. job[w] = NoTask
      BY <1>2 DEF IInv, Threads
    <2> QED BY <1>1, <1>2, <1>3, <2>1, ThreadMoves DEF WorkerPc, Callback
  <1>6. \A v \in Busy : (pc'[v] \in {"stopping", "remove"}) = (pc[v] \in {"stopping", "remove"})
    BY <1>1, <1>2, <1>3 DEF Busy, Thread
  <1> QED BY <1>2, <1>4, <1>5, <1>6, CountsKept

LEMMA RemoveTaskStep == ASSUME IInv, NEW w \in Worker, RemoveTask(w) PROVE IInv'
  <1> USE MainIsNoWorker
  <1>1. pc \in [Thread -> MainPc \cup WorkerPc] /\ Types /\ w \in Thread /\ job \in [Worker -> Task \cup {NoTask}]
    BY DEF IInv, Threads, Thread, Types
  <1>2. /\ pc[w] = "remove" /\ running' = running - 1
        /\ job' = [job EXCEPT ![w] = NoTask] /\ pc' = [pc EXCEPT ![w] = "append"]
        /\ UNCHANGED <<place, dev, turns, visit, free, worked, active, stopped, halted>>
    BY DEF RemoveTask, Goto
  <1>3. Types' /\ MainOut' = MainOut
    BY <1>1, <1>2 DEF Types, MainOut, Thread
  <1>4. w \in Busy /\ w \notin free
    BY <1>2 DEF IInv, Threads, Busy
  <1>5. Threads'
    BY <1>1, <1>2, <1>4, ThreadMoves DEF WorkerPc
  <1>6. Busy' = Busy \ {w}
    BY <1>1, <1>2 DEF Busy
  <1>7. \A v \in Busy' : v \in Busy /\ job'[v] = job[v] /\ pc'[v] = pc[v]
    <2>1. Busy \subseteq Worker
      BY DEF Busy
    <2> QED BY <2>1, <1>1, <1>2, <1>6 DEF Thread
  <1>8. Jobs'
    BY <1>2, <1>7 DEF IInv, Jobs
  <1>9. SpawnersDone'
    BY <1>2, <1>3 DEF IInv, SpawnersDone, Children
  <1>10. Live' = Live /\ \A d : GivenOn(d)' = GivenOn(d)
    BY <1>2 DEF Live, GivenOn, At
  <1>11. CountsExact'
    <2>1. Cardinality(Busy') = Cardinality(Busy) - 1
      BY <1>4, <1>6, Finite, FS_RemoveElement
    <2>2. running' = 1 + Cardinality(Busy')
      BY <2>1, <1>2, Finite DEF IInv, CountsExact
    <2> QED BY <2>2, <1>2, <1>3, <1>10 DEF IInv, CountsExact
  <1>12. Colocated'
    BY <1>10 DEF IInv, Colocated
  <1> QED BY <1>3, <1>5, <1>8, <1>9, <1>11, <1>12 DEF IInv
-----------------------------------------------------------------------------
(* A launch.                                                               *)

\* what is launched comes from the queue of the device; on a GPU it is at
\* most one task, and none where Colocatable + 1 have been given
LEMMA BatchBounds ==
    ASSUME NEW d, NEW B \in Batch(d)
    PROVE  /\ \A t \in B : t \in Task /\ place[t] = "queued" /\ dev[t] = d
           /\ d \in Gpu => B = {} \/ (Cardinality(GivenOn(d)) < Colocatable + 1 /\ Cardinality(B) = 1)
  <1> DEFINE queue == {t \in At("queued") : dev[t] = d}
             room == Cardinality(GivenOn(d)) < Colocatable + 1
  <1>1. \A k : \A S \in kSubset(k, queue) : S \subseteq queue /\ Cardinality(S) = k
    BY DEF kSubset
  <1>2. B = {} \/ \E k : B \in kSubset(k, queue)
    BY DEF Batch
  <1>3. d \in Gpu => \/ B = {}
                     \/ (room /\ B \in kSubset(1, queue))
                     \/ (queue = {} /\ B \in kSubset(0, queue))
    BY DEF Batch
  <1>4. B \subseteq queue
    BY <1>1, <1>2
  <1>5. \A t \in queue : t \in Task /\ place[t] = "queued" /\ dev[t] = d
    BY DEF At
  <1> HIDE DEF queue, room
  <1>6. d \in Gpu => B = {} \/ (room /\ Cardinality(B) = 1)
    BY <1>1, <1>3, <1>4
  <1> QED BY <1>4, <1>5, <1>6 DEF room

LEMMA LaunchOnStep ==
    ASSUME IInv, NEW c \in Thread, NEW d \in Dev, LaunchOn(c, d)
    PROVE  IInv'
  <1> USE MainIsNoWorker
  <1>1. /\ pc \in [Thread -> MainPc \cup WorkerPc] /\ Types
        /\ place \in [Task -> Place] /\ job \in [Worker -> Task \cup {NoTask}] /\ free \subseteq Worker
    BY DEF IInv, Threads, Types
  <1>2. /\ visit' = visit \ {d} /\ running' = running + Cardinality(free \ free')
        /\ UNCHANGED <<dev, turns, worked, active, stopped, halted>>
    BY DEF LaunchOn
  <1>3. PICK B \in Batch(d) : \E f \in Injection(B, free) :
          LET taken == {f[t] : t \in B}
          IN  /\ place' = [t \in Task |-> IF t \in B THEN "given" ELSE place[t]]
              /\ job' = [w \in Worker |-> IF w \in taken THEN CHOOSE t \in B : f[t] = w ELSE job[w]]
              /\ pc' = [x \in Thread |-> IF x \in taken /\ pc[x] = "waiting" THEN "woken" ELSE pc[x]]
              /\ free' = free \ taken
    BY DEF LaunchOn
  <1>f. PICK f \in Injection(B, free) :
          LET taken == {f[t] : t \in B}
          IN  /\ place' = [t \in Task |-> IF t \in B THEN "given" ELSE place[t]]
              /\ job' = [w \in Worker |-> IF w \in taken THEN CHOOSE t \in B : f[t] = w ELSE job[w]]
              /\ pc' = [x \in Thread |-> IF x \in taken /\ pc[x] = "waiting" THEN "woken" ELSE pc[x]]
              /\ free' = free \ taken
    BY <1>3
  <1> DEFINE taken == {f[t] : t \in B}
  <1>4. /\ place' = [t \in Task |-> IF t \in B THEN "given" ELSE place[t]]
        /\ job' = [w \in Worker |-> IF w \in taken THEN CHOOSE t \in B : f[t] = w ELSE job[w]]
        /\ pc' = [x \in Thread |-> IF x \in taken /\ pc[x] = "waiting" THEN "woken" ELSE pc[x]]
        /\ free' = free \ taken
    BY <1>f
  <1>5. \A t \in B : t \in Task /\ place[t] = "queued" /\ dev[t] = d
    BY BatchBounds
  <1>6. f \in [B -> free] /\ \A t, u \in B : f[t] = f[u] => t = u
    BY DEF Injection, IsInjective
  <1>7. taken \subseteq free
    BY <1>6
  <1>8. \A w \in taken : job'[w] \in B /\ f[job'[w]] = w
    <2> SUFFICES ASSUME NEW w \in taken PROVE job'[w] \in B /\ f[job'[w]] = w
      OBVIOUS
    <2>1. \E t \in B : f[t] = w
      OBVIOUS
    <2>2. job'[w] = CHOOSE t \in B : f[t] = w
      BY <1>1, <1>4, <1>7
    <2> QED BY <2>1, <2>2
  <1> HIDE DEF taken
  <1>9. \A w \in Worker \ taken : job'[w] = job[w] /\ pc'[w] = pc[w]
    BY <1>4 DEF Thread
  <1>10. \A w \in taken : /\ w \in Worker /\ job[w] = NoTask
                          /\ pc[w] \notin {"body", "stopping", "remove", "start", "append"}
                          /\ pc'[w] = pc[w] \/ pc'[w] = "woken"
    <2>1. \A w \in taken : w \in Worker /\ w \in Thread
      BY <1>1, <1>7 DEF Thread
    <2>2. \A w \in taken : pc'[w] = pc[w] \/ pc'[w] = "woken"
      BY <1>4, <2>1
    <2> QED BY <1>7, <2>1, <2>2 DEF IInv, Threads
  <1>11. Types'
    <2>1. place' \in [Task -> Place]
      BY <1>1, <1>4 DEF Place
    <2>2. job' \in [Worker -> Task \cup {NoTask}]
      <3>1. \A w \in Worker : job'[w] \in Task \cup {NoTask}
        BY <1>1, <1>5, <1>8, <1>9
      <3>2. job' = [w \in Worker |-> job'[w]]
        BY <1>4
      <3> QED BY <3>1, <3>2
    <2>3. free' \subseteq Worker
      BY <1>1, <1>4
    <2> QED BY <1>1, <1>2, <2>1, <2>2, <2>3 DEF Types
  <1>12. Threads'
    <2>1. pc' \in [Thread -> MainPc \cup WorkerPc]
      BY <1>1, <1>4 DEF WorkerPc
    <2>2. pc'[Main] = pc[Main]
      BY <1>1, <1>4, <1>7 DEF Thread
    <2>3. ASSUME NEW w \in Worker
          PROVE  /\ pc'[w] \in WorkerPc
                 /\ w \in free' => job'[w] = NoTask
                 /\ pc'[w] \in {"body", "stopping", "remove"} => job'[w] # NoTask
                 /\ pc'[w] \in {"start", "append"} => job'[w] = NoTask /\ w \notin free'
                 /\ pc'[w] = "woken" => job'[w] # NoTask \/ w \in halted'
      <3>1. CASE w \in taken
        <4>1. job'[w] # NoTask
          BY <3>1, <1>5, <1>8, SchedulerAssumption
        <4>2. w \notin free'
          BY <3>1, <1>4
        <4>3. pc[w] \in WorkerPc
          BY DEF IInv, Threads
        <4> QED BY <3>1, <4>1, <4>2, <4>3, <1>10 DEF WorkerPc
      <3>2. CASE w \notin taken
        BY <3>2, <1>2, <1>4, <1>9 DEF IInv, Threads
      <3> QED BY <3>1, <3>2
    <2> QED BY <2>1, <2>2, <2>3 DEF IInv, Threads
  <1>13. MainOut' = MainOut
    BY <1>1, <1>4, <1>7 DEF MainOut, Thread
  <1>14. Busy' = Busy \cup taken /\ Busy \cap taken = {}
    <2>1. \A w \in taken : job'[w] # NoTask /\ job[w] = NoTask /\ w \in Worker
      BY <1>5, <1>8, <1>10, SchedulerAssumption
    <2> QED BY <2>1, <1>9 DEF Busy
  <1>15. Jobs'
    <2>1. ASSUME NEW w \in Worker, job'[w] # NoTask
          PROVE  place'[job'[w]] = IF pc'[w] \in {"stopping", "remove"} THEN "done" ELSE "given"
      <3>1. CASE w \in taken
        BY <3>1, <1>4, <1>5, <1>8, <1>10
      <3>2. CASE w \notin taken
        <4>1. w \in Busy /\ job'[w] = job[w] /\ pc'[w] = pc[w] /\ job[w] \in Task
          BY <3>2, <2>1, <1>1, <1>9 DEF Busy
        <4>2. place[job[w]] = IF pc[w] \in {"stopping", "remove"} THEN "done" ELSE "given"
          BY <4>1 DEF IInv, Jobs
        <4>3. job[w] \notin B
          BY <4>2, <1>5
        <4> QED BY <4>1, <4>2, <4>3, <1>4
      <3> QED BY <3>1, <3>2
    <2>2. ASSUME NEW v \in Worker, NEW w \in Worker, job'[v] # NoTask, job'[v] = job'[w]
          PROVE  v = w
      <3>1. \A x \in Worker \ taken : job'[x] # NoTask => x \in Busy /\ job'[x] = job[x] /\ job'[x] \notin B
        <4> SUFFICES ASSUME NEW x \in Worker \ taken, job'[x] # NoTask
                     PROVE  x \in Busy /\ job'[x] = job[x] /\ job'[x] \notin B
          OBVIOUS
        <4>1. x \in Busy /\ job'[x] = job[x]
          BY <1>9 DEF Busy
        <4>2. place[job[x]] # "queued"
          BY <4>1 DEF IInv, Jobs
        <4> QED BY <4>1, <4>2, <1>5
      <3>2. CASE v \in taken \/ w \in taken
        BY <3>1, <3>2, <2>2, <1>8
      <3>3. CASE v \notin taken /\ w \notin taken
        BY <3>1, <3>3, <2>2 DEF IInv, Jobs
      <3> QED BY <3>2, <3>3
    <2> QED BY <2>1, <2>2 DEF Jobs, Busy
  <1>16. \A t \in Task : /\ (place'[t] = "done") = (place[t] = "done")
                         /\ (place'[t] = "unspawned") = (place[t] = "unspawned")
                         /\ place'[t] = "given" => place[t] = "given" \/ t \in B
    BY <1>4, <1>5
  <1>17. SpawnersDone'
    <2>1. \A p : Children(p)' = Children(p) /\ Children(p) \subseteq Task
      BY DEF Children
    <2> QED BY <2>1, <1>13, <1>16 DEF IInv, SpawnersDone
  <1>18. CountsExact'
    <2>1. Live' = Live
      BY <1>16 DEF Live
    <2>2. free \ free' = taken
      BY <1>4, <1>7
    <2>3. IsFiniteSet(taken) /\ Cardinality(taken) \in Nat
      BY <1>1, <1>7, FS_Subset, FS_CardinalityType, SchedulerAssumption
    <2>4. Cardinality(Busy') = Cardinality(Busy) + Cardinality(taken)
      <3>1. Cardinality(Busy \cap taken) = 0
        BY <1>14, FS_EmptySet
      <3>2. Cardinality(Busy \cup taken) = Cardinality(Busy) + Cardinality(taken) - Cardinality(Busy \cap taken)
        BY <2>3, Finite, FS_Union
      <3> QED BY <3>1, <3>2, <2>3, <1>14, Finite
    <2>5. running' = 1 + Cardinality(Busy')
      <3>1. running = 1 + Cardinality(Busy) /\ running' = running + Cardinality(taken)
        BY <2>2, <1>2 DEF IInv, CountsExact
      <3> QED BY <3>1, <2>3, <2>4, Finite
    <2> QED BY <2>1, <2>5, <1>2, <1>13 DEF IInv, CountsExact
  <1>19. Colocated'
    <2> SUFFICES ASSUME NEW e \in Gpu PROVE Cardinality(GivenOn(e)') <= Colocatable + 1
      BY DEF Colocated
    <2>1. Cardinality(GivenOn(e)) <= Colocatable + 1
      BY DEF IInv, Colocated
    <2>2. CASE e # d \/ B = {}
      <3>1. GivenOn(e)' = GivenOn(e)
        BY <2>2, <1>2, <1>4, <1>5 DEF GivenOn, At
      <3> QED BY <2>1, <3>1
    <2>3. CASE e = d /\ B # {}
      <3>1. Cardinality(GivenOn(d)) < Colocatable + 1 /\ Cardinality(B) = 1
        BY <2>3, BatchBounds
      <3>2. IsFiniteSet(B)
        <4>1. B \subseteq Task
          BY <1>5
        <4> QED BY <4>1, FS_Subset, SchedulerAssumption
      <3>3. PICK x : B = {x}
        BY <3>1, <3>2, FS_Singleton
      <3>4. GivenOn(d)' = GivenOn(d) \cup {x}
        BY <3>3, <1>2, <1>4, <1>5 DEF GivenOn, At
      <3>5. IsFiniteSet(GivenOn(d)) /\ Cardinality(GivenOn(d)) \in Nat
        BY Finite, FS_CardinalityType
      <3>6. Cardinality(GivenOn(d) \cup {x}) \in {Cardinality(GivenOn(d)), Cardinality(GivenOn(d)) + 1}
        BY <3>5, FS_AddElement
      <3> QED BY <2>3, <3>1, <3>4, <3>5, <3>6, SchedulerAssumption
    <2> QED BY <2>2, <2>3
  <1> QED BY <1>11, <1>12, <1>15, <1>17, <1>18, <1>19 DEF IInv

-----------------------------------------------------------------------------

LEMMA CallbacksStep == ASSUME IInv, NEW c \in Thread, Callbacks(c) PROVE IInv'
  BY CallbackGoes, MappingPhase, SchedulingPhase, LaunchingPhase, LaunchOnStep DEF Callbacks

LEMMA ThreadStepStep == ASSUME IInv, NEW c \in Thread, ThreadStep(c) PROVE IInv'
  BY CallbacksStep, SpawnStep, StopSteps DEF ThreadStep

LEMMA NextIInv == IInv /\ [Next]_vars => IInv'
  <1> SUFFICES ASSUME IInv, [Next]_vars PROVE IInv'
    OBVIOUS
  <1>1. Main \in Thread /\ Worker \subseteq Thread
    BY DEF Thread
  <1>2. CASE MainStep
    BY <1>1, <1>2, OwnSteps, MainExitsStep, MainReturnsStep, ThreadStepStep DEF MainStep
  <1>3. CASE \E w \in Worker : WorkerStep(w)
    BY <1>1, <1>3, OwnSteps, AppendFreeStep, FinishStep, RemoveTaskStep, ThreadStepStep DEF WorkerStep
  <1>4. CASE UNCHANGED vars
    <2>1. UNCHANGED <<pc, job, place, dev, turns, visit, free, worked, running, active, stopped, halted>>
      BY <1>4 DEF vars
    <2>2. Types' /\ Threads'
      BY <2>1 DEF IInv, Types, Threads
    <2>3. MainOut' = MainOut
      BY <2>1 DEF MainOut
    <2> QED BY <2>1, <2>2, <2>3, CountsKept
  <1> QED BY <1>2, <1>3, <1>4 DEF Next

LEMMA Invariant == Spec => []IInv
  BY InitIInv, NextIInv, PTL DEF Spec

\* Every variable keeps its type. The two counts stay in their ranges: no
\* more tasks are active than the program has, and no more are running,
\* although a launch adds the workers it takes in one step.
THEOREM TypeCorrect == Spec => []TypeOK
  <1>1. IInv => TypeOK
    <2> SUFFICES ASSUME IInv PROVE TypeOK
      OBVIOUS
    <2>1. pc \in [Thread -> Callback \cup
                    {"init", "program", "exit", "returned", "stopping", "start", "loop", "get",
                     "waiting", "woken", "body", "remove", "append", "ended", "crashed"}]
      BY DEF IInv, Threads, MainPc, WorkerPc
    <2>2. running \in 1 .. Cardinality(Task) + 1
      <3> DEFINE f == [w \in Busy |-> job[w]]
      <3>1. f \in Injection(Busy, Task)
        <4>1. \A w \in Busy : job[w] \in Task
          BY DEF IInv, Types, Busy
        <4> QED BY <4>1 DEF IInv, Jobs, Injection, IsInjective
      <3> HIDE DEF f
      <3>2. Cardinality(Busy) <= Cardinality(Task) /\ Cardinality(Task) \in Nat
        BY <3>1, FS_Injection, FS_CardinalityType, SchedulerAssumption
      <3> QED BY <3>2, Finite DEF IInv, CountsExact
    <2>3. active \in 0 .. Cardinality(Task) + 1
      <3>1. Live \subseteq Task
        BY DEF Live
      <3>2. Cardinality(Live) <= Cardinality(Task) /\ Cardinality(Task) \in Nat
        BY <3>1, FS_Subset, FS_CardinalityType, SchedulerAssumption
      <3> QED BY <3>2, Finite DEF IInv, CountsExact
    <2> QED BY <2>1, <2>2, <2>3 DEF IInv, Types, Place, TypeOK
  <1> QED BY <1>1, Invariant, PTL

\* A launch never finds a worker of the free list with a task, and a worker
\* that is woken has a task or has been stopped.
THEOREM PoolIsConsistent == Spec => []PoolConsistent
  <1>1. IInv => PoolConsistent
    <2> SUFFICES ASSUME IInv PROVE PoolConsistent
      OBVIOUS
    <2>1. \A w \in free : w \in Worker /\ job[w] = NoTask /\ pc[w] \notin {"body", "stopping", "remove"}
      BY DEF IInv, Types, Threads
    <2>2. \A w \in Worker : pc[w] # "crashed"
      BY DEF IInv, Threads, WorkerPc, Callback, Mapping, Scheduling, Launching
    <2> QED BY <2>1, <2>2 DEF PoolConsistent
  <1> QED BY <1>1, Invariant, PTL

\* The count of running tasks is one more than the workers that have one,
\* whatever launches and ends run between each other.
THEOREM RunningIsCounted == Spec => []RunningCounted
  <1>1. IInv => RunningCounted
    BY DEF IInv, CountsExact, RunningCounted, Busy
  <1> QED BY <1>1, Invariant, PTL

\* The scheduler stops only after the program has left its `with` block and
\* every task has run: a task that is not spawned yet has an ancestor that
\* still holds the active count up.
THEOREM SchedulerStopsLast == Spec => []StopsAfterAll
  <1>1. IInv => StopsAfterAll
    <2> SUFFICES ASSUME IInv, stopped
                 PROVE  MainOut /\ \A t \in Task : place[t] = "done"
      BY DEF StopsAfterAll, MainOut
    <2>1. MainOut /\ Live = {}
      BY BusyIsActive
    <2> DEFINE Unspawned == {t \in Task : place[t] = "unspawned"}
    <2>2. Unspawned = {}
      <3> SUFFICES ASSUME Unspawned # {} PROVE FALSE
        OBVIOUS
      <3>1. PICK t \in Unspawned : Parent[t] \notin Unspawned
        BY SchedulerAssumption
      <3>2. t \in Children(Parent[t])
        BY DEF Children
      <3>3. Parent[t] # Main
        BY <2>1, <3>2 DEF IInv, SpawnersDone
      <3>4. Parent[t] \in Task
        BY <3>3, SchedulerAssumption
      <3>5. place[Parent[t]] = "done"
        BY <2>1, <3>1, <3>4 DEF Live
      <3> QED BY <3>2, <3>4, <3>5 DEF IInv, SpawnersDone
    <2> QED BY <2>1, <2>2 DEF Live
  <1> QED BY <1>1, Invariant, PTL

\* No GPU is given more than one task beyond _num_colocatable_tasks.
THEOREM BoundIsKept == Spec => []Colocated
  BY Invariant, PTL DEF IInv
=============================================================================
