---------------------- MODULE TaskDependencies_proofs ----------------------
(***************************************************************************)
(* What holds of the task bookkeeping for every program and every number   *)
(* of workers: types, the dependency counter, and the start of bodies      *)
(* after their dependencies.                                               *)
(***************************************************************************)
EXTENDS TaskDependencies, FiniteSetTheorems, TLAPS

\* Sets of tasks have a size.
LEMMA TaskSetSize ==
  ASSUME NEW S \in SUBSET Task
  PROVE  IsFiniteSet(S) /\ Cardinality(S) \in Nat
<1>1. IsFiniteSet(Task) BY ProgramAssumption DEF ProgramAssumption
<1>2. IsFiniteSet(S) BY <1>1, FS_Subset
<1> QED BY <1>2, FS_CardinalityType

-----------------------------------------------------------------------------
(* Types.                                                                  *)

PC == {"idle", "body", "spawning", "notifying", "updating", "exited", "raised"}

LEMMA InitTypeOK == Init => TypeOK
<1> SUFFICES ASSUME Init PROVE TypeOK
  OBVIOUS
<1>1. /\ state \in [Task -> State] /\ step \in [Task -> Nat]
      /\ outcome \in [Task -> {"Completed", "Exception"}]
  BY DEF Init, State
<1>2. pc \in [Ctx -> PC]
  BY DEF Init, PC
<1>3. /\ deps \in [Task -> SUBSET Task] /\ unreg \in [Task -> SUBSET Task]
      /\ numBlocking \in [Task -> Int]
  BY DEF Init
<1>4. dependents \in [Task -> [Task -> Nat]]
  BY DEF Init
<1>5. /\ assigned \in [Task -> BOOLEAN]
      /\ newQ \subseteq Task /\ fill \subseteq Task /\ mapQ \subseteq Task /\ checking \subseteq Task
  BY DEF Init
<1>6. ready \in [Task -> Nat] /\ launched \in [Task -> Nat]
  BY DEF Init
<1>7. Workers \in Nat
  BY ProgramAssumption DEF ProgramAssumption
<1>8. free \in Nat /\ active \in Int
  BY <1>7 DEF Init
<1>9. stopped \in BOOLEAN
  BY DEF Init
<1> QED BY <1>1, <1>2, <1>3, <1>4, <1>5, <1>6, <1>8, <1>9 DEF TypeOK, PC

LEMMA NextTypeOK == TypeOK /\ [Next]_vars => TypeOK'
<1> SUFFICES ASSUME TypeOK, [Next]_vars PROVE TypeOK'
  OBVIOUS
<1> USE DEF taskVars, depVars, mapVars, schedVars
<1>a. state \in [Task -> State] /\ step \in [Task -> Nat] BY DEF TypeOK
<1>b. pc \in [Ctx -> PC] BY DEF TypeOK, PC
<1>c. outcome \in [Task -> {"Completed", "Exception"}] BY DEF TypeOK
<1>d. deps \in [Task -> SUBSET Task] /\ unreg \in [Task -> SUBSET Task] BY DEF TypeOK
<1>e. dependents \in [Task -> [Task -> Nat]] BY DEF TypeOK
<1>f. numBlocking \in [Task -> Int] BY DEF TypeOK
<1>g. /\ assigned \in [Task -> BOOLEAN]
      /\ newQ \subseteq Task /\ fill \subseteq Task /\ mapQ \subseteq Task /\ checking \subseteq Task
  BY DEF TypeOK
<1>h. ready \in [Task -> Nat] /\ launched \in [Task -> Nat] /\ free \in Nat BY DEF TypeOK
<1>i. active \in Int /\ stopped \in BOOLEAN BY DEF TypeOK
<1>1. ASSUME NEW t \in Task, NEW c \in Ctx, BeginSpawn(c, t) PROVE TypeOK'
  <2>1. Deps[t] \in SUBSET Task BY ProgramAssumption DEF ProgramAssumption
  <2>2. Cardinality(Deps[t]) \in Nat BY <2>1, TaskSetSize
  <2>3. pc' \in [Ctx -> PC] BY <1>1, <1>b DEF BeginSpawn, PC
  <2>4. state' \in [Task -> State] BY <1>1, <1>a DEF BeginSpawn, State
  <2>5. deps' \in [Task -> SUBSET Task] /\ unreg' \in [Task -> SUBSET Task]
    BY <1>1, <2>1, <1>d DEF BeginSpawn, BeginDependencies
  <2>6. numBlocking' \in [Task -> Int] BY <1>1, <2>2, <1>f DEF BeginSpawn, BeginDependencies
  <2>7. UNCHANGED <<step, outcome, dependents, mapVars, schedVars>>
    BY <1>1 DEF BeginSpawn, BeginDependencies
  <2> QED BY <2>3, <2>4, <2>5, <2>6, <2>7 DEF TypeOK, PC
<1>2. ASSUME NEW t \in Task, NEW c \in Ctx, SpawnRejected(c, t) PROVE TypeOK'
  <2>1. pc' \in [Ctx -> PC] BY <1>2, <1>b DEF SpawnRejected, PC
  <2>2. outcome' \in [Task -> {"Completed", "Exception"}] BY <1>2, <1>c DEF SpawnRejected
  <2>3. active' \in Int BY <1>2, <1>i DEF SpawnRejected, DecrActive
  <2>4. stopped' \in BOOLEAN BY <1>2, <1>i DEF SpawnRejected, DecrActive
  <2>5. UNCHANGED <<state, step, depVars, mapVars, ready, launched, free>>
    BY <1>2 DEF SpawnRejected
  <2> QED BY <2>1, <2>2, <2>3, <2>4, <2>5 DEF TypeOK, PC
<1>3. ASSUME NEW t \in Task, NEW d \in Task, Register(t, d) PROVE TypeOK'
  <2>1. unreg' \in [Task -> SUBSET Task] BY <1>3, <1>d DEF Register
  <2>2. dependents' \in [Task -> [Task -> Nat]] BY <1>3, <1>e DEF Register
  <2>3. numBlocking' \in [Task -> Int] BY <1>3, <1>f DEF Register
  <2>4. UNCHANGED <<taskVars, deps, mapVars, schedVars>> BY <1>3 DEF Register
  <2> QED BY <2>1, <2>2, <2>3, <2>4 DEF TypeOK
<1>4. ASSUME NEW t \in Task, NEW d \in Task, Notify(d, t) PROVE TypeOK'
  <2>1. dependents' \in [Task -> [Task -> Nat]] BY <1>4, <1>e DEF Notify
  <2>2. numBlocking' \in [Task -> Int] BY <1>4, <1>f DEF Notify
  <2>3. ready' \in [Task -> Nat] BY <1>4, <1>h DEF Notify, Enqueue
  <2>4. UNCHANGED <<taskVars, deps, unreg, mapVars, launched, free, active, stopped>>
    BY <1>4 DEF Notify
  <2> QED BY <2>1, <2>2, <2>3, <2>4 DEF TypeOK
<1>5. ASSUME NEW t \in Task, NEW r \in {"Completed", "Exception"}, BodyEnds(t, r) PROVE TypeOK'
  BY <1>5 DEF BodyEnds, TypeOK, Ctx
<1>6. ASSUME NEW t \in Task, EndInit(t) PROVE TypeOK'
  BY <1>6 DEF EndInit, TypeOK, State
<1>7. ASSUME NEW t \in Task, Publish(t) PROVE TypeOK'
  <2>1. state' \in [Task -> State] BY <1>7, <1>a DEF Publish, State
  <2>2. pc' \in [Ctx -> PC] BY <1>7, <1>b DEF Publish, PC
  <2>3. newQ' \subseteq Task /\ active' \in Int BY <1>7, <1>g, <1>i DEF Publish
  <2>4. UNCHANGED <<step, outcome, depVars, assigned, fill, mapQ, checking,
                    ready, launched, free, stopped>>
    BY <1>7 DEF Publish
  <2> QED BY <2>1, <2>2, <2>3, <2>4 DEF TypeOK, PC
<1>8. ASSUME NEW t \in Task, FillExamine(t) PROVE TypeOK'
  BY <1>8 DEF FillExamine, TypeOK
<1>9. ASSUME NEW t \in Task, AssignFails(t) \/ SetAssigned(t) PROVE TypeOK'
  BY <1>9 DEF AssignFails, SetAssigned, TypeOK
<1>10. ASSUME NEW t \in Task, EnqueueUnblocked(t) PROVE TypeOK'
  <2>1. ready' \in [Task -> Nat] BY <1>10, <1>h DEF EnqueueUnblocked, Enqueue
  <2>2. checking' \subseteq Task BY <1>10 DEF EnqueueUnblocked
  <2>3. UNCHANGED <<taskVars, depVars, assigned, newQ, fill, mapQ,
                    launched, free, active, stopped>>
    BY <1>10 DEF EnqueueUnblocked
  <2> QED BY <2>1, <2>2, <2>3 DEF TypeOK
<1>11. ASSUME NEW t \in Task, Launch(t) PROVE TypeOK'
  <2>1. ready' \in [Task -> Nat] BY <1>11, <1>h DEF Launch
  <2>2. launched' \in [Task -> Nat] /\ free' \in Nat BY <1>11, <1>h DEF Launch
  <2>3. UNCHANGED <<taskVars, depVars, mapVars, active, stopped>> BY <1>11 DEF Launch
  <2> QED BY <2>1, <2>2, <2>3 DEF TypeOK
<1>12. ASSUME NEW t \in Task, StartRun(t) PROVE TypeOK'
  <2>1. launched' \in [Task -> Nat] BY <1>12, <1>h DEF StartRun
  <2>2. pc' \in [Ctx -> PC] BY <1>12, <1>b DEF StartRun, PC
  <2>3. outcome' \in [Task -> {"Completed", "Exception"}] BY <1>12, <1>c DEF StartRun
  <2>4. UNCHANGED <<state, step, depVars, mapVars, ready, free, active, stopped>>
    BY <1>12 DEF StartRun
  <2> QED BY <2>1, <2>2, <2>3, <2>4 DEF TypeOK, PC
<1>13. ASSUME NEW t \in Task, Await(t) PROVE TypeOK'
  <2> DEFINE S == {d \in Awaits[t][step[t] + 1] : HasTask(d)}
  <2>1. step[t] \in Nat /\ step[t] < Len(Awaits[t]) BY <1>13, <1>a DEF Await
  <2>2. Awaits[t] \in Seq(SUBSET Task) BY ProgramAssumption DEF ProgramAssumption
  <2>3. Awaits[t][step[t] + 1] \in SUBSET Task BY <2>1, <2>2
  <2>4. S \in SUBSET Task BY <2>3
  <2>5. Cardinality(S) \in Nat BY <2>4, TaskSetSize
  <2>6. BeginDependencies(t, S) BY <1>13 DEF Await
  <2> HIDE DEF S
  <2>7. deps' \in [Task -> SUBSET Task] /\ unreg' \in [Task -> SUBSET Task]
    BY <2>4, <2>6, <1>d DEF BeginDependencies
  <2>8. numBlocking' \in [Task -> Int] BY <2>5, <2>6, <1>f DEF BeginDependencies
  <2>9. pc' \in [Ctx -> PC] BY <1>13, <1>b DEF Await, PC
  <2>10. step' \in [Task -> Nat] BY <1>13, <1>a DEF Await
  <2>11. UNCHANGED <<state, outcome, dependents, mapVars, schedVars>>
    BY <1>13, <2>6 DEF Await, BeginDependencies
  <2> QED BY <2>7, <2>8, <2>9, <2>10, <2>11 DEF TypeOK, PC
<1>14. ASSUME NEW t \in Task, Suspend(t) PROVE TypeOK'
  <2>1. ready' \in [Task -> Nat] /\ free' \in Nat BY <1>14, <1>h DEF Suspend, Enqueue
  <2>2. pc' \in [Ctx -> PC] BY <1>14, <1>b DEF Suspend, PC
  <2>3. UNCHANGED <<state, step, outcome, depVars, mapVars, launched, active, stopped>>
    BY <1>14 DEF Suspend
  <2> QED BY <2>1, <2>2, <2>3 DEF TypeOK, PC
<1>15. ASSUME NEW t \in Task, Finish(t) PROVE TypeOK'
  <2>1. state' \in [Task -> State] BY <1>15, <1>a, <1>c DEF Finish, State
  <2>2. pc' \in [Ctx -> PC] BY <1>15, <1>b DEF Finish, PC
  <2>3. active' \in Int /\ stopped' \in BOOLEAN /\ free' \in Nat
    BY <1>15, <1>h, <1>i DEF Finish, DecrActive
  <2>4. UNCHANGED <<step, outcome, depVars, mapVars, ready, launched>>
    BY <1>15 DEF Finish
  <2> QED BY <2>1, <2>2, <2>3, <2>4 DEF TypeOK, PC
<1>16. ASSUME MainExit PROVE TypeOK'
  <2>1. pc' \in [Ctx -> PC] BY <1>16, <1>b DEF MainExit, PC, Ctx
  <2>2. active' \in Int /\ stopped' \in BOOLEAN BY <1>16, <1>i DEF MainExit, DecrActive
  <2>3. UNCHANGED <<state, step, outcome, depVars, mapVars, ready, launched, free>>
    BY <1>16 DEF MainExit
  <2> QED BY <2>1, <2>2, <2>3 DEF TypeOK, PC
<1>17. ASSUME FillBegin PROVE TypeOK'
  BY <1>17 DEF FillBegin, TypeOK
<1>18. ASSUME UNCHANGED vars PROVE TypeOK'
  BY <1>18 DEF vars, TypeOK
<1> QED
  BY <1>1, <1>2, <1>3, <1>4, <1>5, <1>6, <1>7, <1>8, <1>9, <1>10, <1>11, <1>12,
     <1>13, <1>14, <1>15, <1>16, <1>17, <1>18
  DEF Next, Stopped

\* Every variable of the model keeps its type, for every program.
THEOREM TypeCorrect == Spec => []TypeOK
BY InitTypeOK, NextTypeOK, PTL DEF Spec

-----------------------------------------------------------------------------
(* The inductive invariant.  Once a body has begun, its task's counters may *)
(* mean anything: a barrier reuses them.  What matters is a task whose body *)
(* has not begun.  Its lists and its counter agree, a dependency that no    *)
(* longer counts has ended, and only a task without pending dependencies is *)
(* queued, so that beginning the body finds all of them ended.              *)

New(t) == state[t] \in {"Unspawned", "Registering", "Registered"}

\* the entries for t on the dependents lists
ListsAgree(t) ==
    /\ unreg[t] \subseteq Deps[t]
    /\ state[t] # "Registering" => unreg[t] = {}
    /\ \A d \in Task : \/ dependents[d][t] = 0
                       \/ dependents[d][t] = 1 /\ d \in Deps[t] \ unreg[t]
    /\ state[t] = "Unspawned" => \A d \in Task : dependents[d][t] = 0

\* the counter, and the dependencies it no longer counts
CounterAgrees(t) ==
    state[t] # "Unspawned" =>
        /\ numBlocking[t] = Cardinality(Pending(t))
        /\ \A d \in Deps[t] \ Pending(t) : BodyDone(d)

QueuedUnblocked(t) ==
    ready[t] + launched[t] > 0 => state[t] = "Running" /\ numBlocking[t] = 0

TaskInv(t) ==
    /\ New(t) => ~Started(t)
    /\ pc[t] = "updating" => step[t] > 0
    /\ ~Started(t) => ListsAgree(t) /\ CounterAgrees(t) /\ QueuedUnblocked(t)
    /\ Started(t) => \A d \in Deps[t] : BodyDone(d)

\* A spawner waits in the constructor of the one task it is spawning.
SpawnerWaits == \A t \in Task : state[t] \in {"Registering", "Registered"} =>
    /\ pc[Parent[t]] = "spawning"
    /\ \A u \in Task : state[u] \in {"Registering", "Registered"} /\ Parent[u] = Parent[t]
                       => u = t

MapperKnows == \A t \in newQ \cup fill \cup mapQ \cup checking : HasTask(t)

FinishedListsNobody == \A d, t \in Task : Terminal(d) => dependents[d][t] = 0

IInv == /\ TypeOK
        /\ \A t \in Task : TaskInv(t)
        /\ SpawnerWaits
        /\ MapperKnows
        /\ FinishedListsNobody

LEMMA InitInv == Init => IInv
<1> SUFFICES ASSUME Init PROVE IInv
  OBVIOUS
<1>1. TypeOK BY InitTypeOK
<1>2. ASSUME NEW t \in Task PROVE TaskInv(t)
  <2>1. ~Started(t) /\ state[t] = "Unspawned" /\ pc[t] = "idle"
    BY ProgramAssumption DEF ProgramAssumption, Init, Started, Terminal, Ctx
  <2>2. ListsAgree(t) BY DEF Init, ListsAgree
  <2>3. QueuedUnblocked(t) BY DEF Init, QueuedUnblocked
  <2> QED BY <2>1, <2>2, <2>3 DEF TaskInv, CounterAgrees
<1>3. SpawnerWaits BY DEF Init, SpawnerWaits
<1>4. MapperKnows BY DEF Init, MapperKnows
<1>5. FinishedListsNobody BY DEF Init, FinishedListsNobody
<1> QED BY <1>1, <1>2, <1>3, <1>4, <1>5 DEF IInv

-----------------------------------------------------------------------------
(* Steps that leave a task alone.                                          *)

DoneStays == \A d \in Task : BodyDone(d) => BodyDone(d)'

\* Nothing but the end of dependencies matters to a task whose body has begun.
LEMMA KeepStarted ==
  ASSUME NEW t \in Task, TaskInv(t), DoneStays,
         Started(t), Started(t)', ~New(t)', pc'[t] = "updating" => step'[t] > 0,
         Deps[t] \in SUBSET Task
  PROVE  TaskInv(t)'
BY DEF TaskInv, DoneStays

\* A task that has not begun keeps its invariant while its own state, counter
\* and entries stay.
LEMMA KeepNew ==
  ASSUME NEW t \in Task, TaskInv(t), DoneStays,
         ~Started(t), ~Started(t)', state'[t] = state[t],
         unreg'[t] = unreg[t], numBlocking'[t] = numBlocking[t],
         \A d \in Task : dependents'[d][t] = dependents[d][t],
         ready'[t] = ready[t], launched'[t] = launched[t],
         Deps[t] \in SUBSET Task
  PROVE  TaskInv(t)'
<1>1. Pending(t)' = Pending(t) BY DEF Pending
<1>2. ListsAgree(t)' BY DEF TaskInv, ListsAgree
<1>3. CounterAgrees(t)' BY <1>1 DEF TaskInv, CounterAgrees, DoneStays
<1>4. QueuedUnblocked(t)' BY DEF TaskInv, QueuedUnblocked
<1>5. (pc[t] = "idle")' BY DEF Started
<1> QED BY <1>2, <1>3, <1>4, <1>5 DEF TaskInv

\* What must be shown of a step that disturbs no task that has not begun.
Untouched(t) ==
    /\ Started(t)' <=> Started(t)
    /\ state'[t] = state[t]
    /\ pc'[t] = "updating" => step'[t] > 0
    /\ ~Started(t) => /\ unreg'[t] = unreg[t]
                      /\ numBlocking'[t] = numBlocking[t]
                      /\ \A d \in Task : dependents'[d][t] = dependents[d][t]
                      /\ ready'[t] = ready[t]
                      /\ launched'[t] = launched[t]

LEMMA KeepUntouched ==
  ASSUME NEW t \in Task, TaskInv(t), DoneStays, Untouched(t)
  PROVE  TaskInv(t)'
<1>1. Deps[t] \in SUBSET Task BY ProgramAssumption DEF ProgramAssumption
<1>2. CASE Started(t)
  <2>1. ~New(t)' BY <1>2 DEF TaskInv, Untouched, New
  <2> QED BY <1>1, <1>2, <2>1, KeepStarted DEF Untouched
<1>3. CASE ~Started(t)
  BY <1>1, <1>3, KeepNew DEF Untouched
<1> QED BY <1>2, <1>3

\* Ends of bodies are never undone.
LEMMA NextDoneStays == IInv /\ [Next]_vars => DoneStays
<1> SUFFICES ASSUME IInv, [Next]_vars, NEW e \in Task, BodyDone(e) PROVE BodyDone(e)'
  BY DEF DoneStays
<1>a. state \in [Task -> State] /\ pc \in [Ctx -> PC] /\ e \in Ctx
  BY DEF IInv, TypeOK, PC, Ctx
<1>b. outcome \in [Task -> {"Completed", "Exception"}] BY DEF IInv, TypeOK
<1> USE <1>a DEF BodyDone, Terminal
<1>1. ASSUME NEW t \in Task, NEW c \in Ctx, BeginSpawn(c, t) PROVE BodyDone(e)'
  BY <1>1 DEF BeginSpawn
<1>2. ASSUME NEW t \in Task, NEW c \in Ctx, SpawnRejected(c, t) PROVE BodyDone(e)'
  BY <1>2 DEF SpawnRejected
<1>3. ASSUME NEW t \in Task, EndInit(t) PROVE BodyDone(e)'
  BY <1>3 DEF EndInit
<1>4. ASSUME NEW t \in Task, Publish(t) PROVE BodyDone(e)'
  BY <1>4 DEF Publish, IInv, SpawnerWaits
<1>5. ASSUME NEW t \in Task, StartRun(t) PROVE BodyDone(e)'
  BY <1>5 DEF StartRun, MutexFree
<1>6. ASSUME NEW t \in Task, NEW r \in {"Completed", "Exception"}, BodyEnds(t, r) PROVE BodyDone(e)'
  BY <1>6 DEF BodyEnds
<1>7. ASSUME NEW t \in Task, Await(t) PROVE BodyDone(e)'
  BY <1>7 DEF Await
<1>8. ASSUME NEW t \in Task, Suspend(t) PROVE BodyDone(e)'
  BY <1>8 DEF Suspend
<1>9. ASSUME NEW t \in Task, Finish(t) PROVE BodyDone(e)'
  BY <1>9, <1>b DEF Finish
<1>10. ASSUME MainExit PROVE BodyDone(e)'
  BY <1>10, ProgramAssumption DEF MainExit, ProgramAssumption
<1>11. ASSUME UNCHANGED taskVars PROVE BodyDone(e)'
  BY <1>11 DEF taskVars
<1> QED
  BY <1>1, <1>2, <1>3, <1>4, <1>5, <1>6, <1>7, <1>8, <1>9, <1>10, <1>11
  DEF Next, Stopped, vars, Register, Notify, FillExamine, AssignFails, SetAssigned,
      EnqueueUnblocked, Launch, FillBegin

-----------------------------------------------------------------------------
(* Every step keeps the invariant of every task.                           *)

\* Facts about a task u that the steps below rely on.
LEMMA TaskFacts ==
  ASSUME IInv, NEW u \in Task
  PROVE  /\ TaskInv(u)
         /\ u \in Ctx /\ u # Main
         /\ state[u] \in State /\ pc[u] \in PC /\ step[u] \in Nat
         /\ ready[u] \in Nat /\ launched[u] \in Nat /\ numBlocking[u] \in Int
         /\ \A d \in Task : dependents[d][u] \in Nat
         /\ Deps[u] \in SUBSET Task
         /\ Parent[u] \in Ctx
BY ProgramAssumption DEF IInv, TypeOK, PC, Ctx, ProgramAssumption

LEMMA BeginSpawnInv ==
  ASSUME IInv, DoneStays, NEW t \in Task, NEW c \in Ctx, BeginSpawn(c, t), NEW u \in Task
  PROVE  TaskInv(u)'
<1> USE TaskFacts
<1>a. state \in [Task -> State] /\ pc \in [Ctx -> PC] /\ unreg \in [Task -> SUBSET Task]
      /\ numBlocking \in [Task -> Int]
  BY DEF IInv, TypeOK, PC
<1>1. pc[c] = "body" /\ state[t] = "Unspawned" /\ c # t
  BY DEF BeginSpawn, TaskInv, New, Started
<1>2. CASE u = t
  <2>1. ~Started(t) /\ ListsAgree(t) /\ QueuedUnblocked(t) BY <1>1 DEF TaskInv, New
  <2>2. ~Started(t)'
    BY <1>1, <1>a, <2>1 DEF BeginSpawn, Started, Terminal
  <2>3. unreg'[t] = Deps[t] /\ numBlocking'[t] = Cardinality(Deps[t]) /\ state'[t] = "Registering"
    BY <1>a DEF BeginSpawn, BeginDependencies
  <2>4. dependents' = dependents /\ ready' = ready /\ launched' = launched
    BY DEF BeginSpawn, BeginDependencies, schedVars
  <2>5. Pending(t)' = Deps[t] BY <2>3 DEF Pending
  <2>6. ListsAgree(t)' BY <1>1, <2>1, <2>3, <2>4 DEF ListsAgree
  <2>7. CounterAgrees(t)' BY <2>3, <2>5 DEF CounterAgrees
  <2>8. QueuedUnblocked(t)' BY <1>1, <2>1, <2>3, <2>4 DEF QueuedUnblocked
  <2>9. pc'[t] # "updating" BY <2>2 DEF Started
  <2> QED BY <1>2, <2>2, <2>6, <2>7, <2>8, <2>9 DEF TaskInv
<1>3. CASE u # t
  <2>1. Untouched(u)
    BY <1>1, <1>3, <1>a DEF BeginSpawn, BeginDependencies, Untouched, Started, Terminal, TaskInv, schedVars
  <2> QED BY <2>1, KeepUntouched
<1> QED BY <1>2, <1>3

LEMMA RegisterInv ==
  ASSUME IInv, DoneStays, NEW t \in Task, NEW d \in Task, Register(t, d), NEW u \in Task
  PROVE  TaskInv(u)'
<1> USE TaskFacts
<1>a. unreg \in [Task -> SUBSET Task] /\ numBlocking \in [Task -> Int]
      /\ dependents \in [Task -> [Task -> Nat]]
  BY DEF IInv, TypeOK
<1>b. UNCHANGED <<state, pc, step, ready, launched>>
  BY DEF Register, taskVars, schedVars
<1>1. CASE u = t /\ ~Started(t)
  <2>1. ListsAgree(t) /\ CounterAgrees(t) /\ QueuedUnblocked(t) BY <1>1 DEF TaskInv
  <2>2. d \in unreg[t] /\ d \in Deps[t] /\ dependents[d][t] = 0
    BY <2>1 DEF ListsAgree, Register
  <2>3. state[t] = "Registering" BY <2>1, <2>2 DEF ListsAgree
  <2>4. unreg'[t] = unreg[t] \ {d} BY <1>a DEF Register
  <2>5. ready[t] + launched[t] = 0 BY <2>1, <2>3 DEF QueuedUnblocked
  <2>6. QueuedUnblocked(t)' BY <1>b, <2>5 DEF QueuedUnblocked
  <2>7. CASE Terminal(d)
    <3>1. dependents' = dependents /\ numBlocking'[t] = numBlocking[t] - 1
      BY <1>a, <2>7 DEF Register
    <3>2. Pending(t)' = Pending(t) \ {d} /\ d \in Pending(t)
      BY <2>2, <2>4, <3>1 DEF Pending
    <3>3. IsFiniteSet(Pending(t)) /\ Cardinality(Pending(t)) \in Nat
      BY TaskSetSize DEF Pending
    <3>4. Cardinality(Pending(t)') = Cardinality(Pending(t)) - 1
      BY <3>2, <3>3, FS_RemoveElement
    <3>5. BodyDone(d)' BY <1>b, <2>7 DEF BodyDone, Terminal
    <3>6. ListsAgree(t)' BY <1>b, <2>1, <2>2, <2>4, <2>3, <3>1 DEF ListsAgree
    <3>7. CounterAgrees(t)'
      BY <1>b, <2>1, <2>3, <3>1, <3>2, <3>4, <3>5 DEF CounterAgrees, DoneStays
    <3> QED BY <1>1, <1>b, <2>6, <3>6, <3>7 DEF TaskInv, Started, Terminal
  <2>8. CASE ~Terminal(d)
    <3>1. numBlocking' = numBlocking /\ dependents'[d][t] = 1
          /\ \A e \in Task \ {d} : dependents'[e][t] = dependents[e][t]
      BY <1>a, <2>2, <2>8 DEF Register
    <3>2. Pending(t)' = Pending(t) BY <2>2, <2>4, <3>1 DEF Pending
    <3>3. ListsAgree(t)' BY <1>b, <2>1, <2>2, <2>3, <2>4, <3>1 DEF ListsAgree
    <3>4. CounterAgrees(t)' BY <1>b, <2>1, <3>1, <3>2 DEF CounterAgrees, DoneStays
    <3> QED BY <1>1, <1>b, <2>6, <3>3, <3>4 DEF TaskInv, Started, Terminal
  <2> QED BY <2>7, <2>8
<1>2. CASE u # t \/ Started(t)
  <2>1. u # t => /\ unreg'[u] = unreg[u] /\ numBlocking'[u] = numBlocking[u]
                 /\ \A e \in Task : dependents'[e][u] = dependents[e][u]
    BY <1>a DEF Register
  <2>2. Untouched(u)
    BY <1>2, <1>b, <2>1 DEF Untouched, Started, Terminal, TaskInv
  <2> QED BY <2>2, KeepUntouched
<1> QED BY <1>1, <1>2

LEMMA NotifyInv ==
  ASSUME IInv, DoneStays, NEW t \in Task, NEW d \in Task, Notify(d, t), NEW u \in Task
  PROVE  TaskInv(u)'
<1> USE TaskFacts
<1>a. numBlocking \in [Task -> Int] /\ dependents \in [Task -> [Task -> Nat]]
      /\ ready \in [Task -> Nat]
  BY DEF IInv, TypeOK
<1>b. UNCHANGED <<state, pc, step, unreg, launched>>
  BY DEF Notify, taskVars
<1>1. CASE u = t /\ ~Started(t)
  <2>1. ListsAgree(t) /\ CounterAgrees(t) /\ QueuedUnblocked(t) BY <1>1 DEF TaskInv
  <2>2. dependents[d][t] = 1 /\ d \in Deps[t] \ unreg[t] /\ state[t] # "Unspawned"
    BY <2>1 DEF ListsAgree, Notify
  <2>3. /\ dependents'[d][t] = 0
        /\ \A e \in Task \ {d} : dependents'[e][t] = dependents[e][t]
        /\ numBlocking'[t] = numBlocking[t] - 1
    BY <1>a, <2>2 DEF Notify
  <2>4. Pending(t)' = Pending(t) \ {d} /\ d \in Pending(t)
    BY <1>b, <2>2, <2>3 DEF Pending
  <2>5. IsFiniteSet(Pending(t)) /\ Cardinality(Pending(t)) \in Nat
    BY TaskSetSize DEF Pending
  <2>6. Cardinality(Pending(t)') = Cardinality(Pending(t)) - 1
    BY <2>4, <2>5, FS_RemoveElement
  <2>7. BodyDone(d)' BY <1>b DEF Notify, BodyDone
  <2>8. ListsAgree(t)' BY <1>b, <2>1, <2>2, <2>3 DEF ListsAgree
  <2>9. CounterAgrees(t)'
    BY <1>b, <2>1, <2>2, <2>3, <2>4, <2>6, <2>7 DEF CounterAgrees, DoneStays
  <2>10. numBlocking[t] # 0
    BY <2>1, <2>2, <2>4, <2>5, FS_EmptySet DEF CounterAgrees
  <2>11. ready[t] + launched[t] = 0 BY <2>1, <2>10 DEF QueuedUnblocked
  <2>12. QueuedUnblocked(t)'
    BY <1>a, <1>b, <2>3, <2>11 DEF QueuedUnblocked, Notify, Enqueue
  <2> QED BY <1>1, <1>b, <2>8, <2>9, <2>12 DEF TaskInv, Started, Terminal
<1>2. CASE u # t \/ Started(t)
  <2>1. u # t => /\ numBlocking'[u] = numBlocking[u] /\ ready'[u] = ready[u]
                 /\ \A e \in Task : dependents'[e][u] = dependents[e][u]
    BY <1>a DEF Notify, Enqueue
  <2>2. Untouched(u)
    BY <1>2, <1>b, <2>1 DEF Untouched, Started, Terminal, TaskInv
  <2> QED BY <2>2, KeepUntouched
<1> QED BY <1>1, <1>2

\* The constructor ends, and the task is handed to the mapper.
LEMMA ConstructedInv ==
  ASSUME IInv, DoneStays, NEW t \in Task, EndInit(t) \/ Publish(t), NEW u \in Task
  PROVE  TaskInv(u)'
<1> USE TaskFacts
<1>a. state \in [Task -> State] /\ pc \in [Ctx -> PC]
  BY DEF IInv, TypeOK, PC
<1>b. UNCHANGED <<step, depVars, ready, launched>>
  BY DEF EndInit, Publish, schedVars
<1>c. state[t] \in {"Registering", "Registered"} /\ pc[Parent[t]] = "spawning"
  BY DEF EndInit, Publish, IInv, SpawnerWaits
<1>1. CASE u = t
  <2>1. /\ ~Started(t) /\ ListsAgree(t) /\ CounterAgrees(t) /\ QueuedUnblocked(t)
        /\ pc[t] = "idle" /\ Parent[t] # t
    BY <1>c DEF TaskInv, New, Started
  <2>2. pc'[t] = "idle" /\ state'[t] \in {"Registered", "Running"}
    BY <1>a, <2>1 DEF EndInit, Publish
  <2>3. ~Started(t)' BY <1>b, <2>1, <2>2 DEF Started, Terminal
  <2>4. unreg[t] = {} BY <2>1 DEF ListsAgree, EndInit, Publish
  <2>5. ListsAgree(t)' BY <1>b, <2>1, <2>2, <2>4 DEF ListsAgree, depVars
  <2>6. Pending(t)' = Pending(t) BY <1>b DEF Pending, depVars
  <2>7. CounterAgrees(t)' BY <1>b, <1>c, <2>1, <2>6 DEF CounterAgrees, DoneStays, depVars
  <2>8. QueuedUnblocked(t)' BY <1>b, <1>c, <2>1 DEF QueuedUnblocked
  <2> QED BY <1>1, <2>2, <2>3, <2>5, <2>7, <2>8 DEF TaskInv
<1>2. CASE u # t
  <2>1. Untouched(u)
    BY <1>2, <1>a, <1>b, <1>c DEF EndInit, Publish, Untouched, Started, Terminal, TaskInv, depVars
  <2> QED BY <2>1, KeepUntouched
<1> QED BY <1>1, <1>2

LEMMA StartRunInv ==
  ASSUME IInv, DoneStays, NEW t \in Task, StartRun(t), NEW u \in Task
  PROVE  TaskInv(u)'
<1> USE TaskFacts
<1>a. pc \in [Ctx -> PC] /\ launched \in [Task -> Nat]
  BY DEF IInv, TypeOK, PC
<1>b. UNCHANGED <<state, step, depVars, ready>>
  BY DEF StartRun, depVars
<1>1. CASE u = t
  <2>1. ~Started(t) => \A d \in Deps[t] : BodyDone(d)
    <3> SUFFICES ASSUME ~Started(t) PROVE \A d \in Deps[t] : BodyDone(d)
      OBVIOUS
    <3>1. state[t] = "Running" /\ numBlocking[t] = 0 /\ CounterAgrees(t)
      BY DEF TaskInv, QueuedUnblocked, StartRun
    <3>2. IsFiniteSet(Pending(t)) BY TaskSetSize DEF Pending
    <3>3. Pending(t) = {} BY <3>1, <3>2, FS_EmptySet DEF CounterAgrees
    <3> QED BY <3>1, <3>3 DEF CounterAgrees
  <2>2. \A d \in Deps[t] : BodyDone(d) BY <2>1 DEF TaskInv
  <2>3. pc'[t] \in {"body", "notifying"} BY <1>a DEF StartRun
  <2>4. Started(t)' BY <2>3 DEF Started
  <2>5. ~New(t)
    <3>1. launched[t] > 0 BY DEF StartRun
    <3> QED BY <3>1 DEF TaskInv, New, QueuedUnblocked
  <2>6. ~New(t)' BY <1>b, <2>5 DEF New
  <2> QED BY <1>1, <2>2, <2>3, <2>4, <2>6 DEF TaskInv, DoneStays
<1>2. CASE u # t
  <2>1. Untouched(u)
    BY <1>2, <1>a, <1>b DEF StartRun, Untouched, Started, Terminal, TaskInv, depVars
  <2> QED BY <2>1, KeepUntouched
<1> QED BY <1>1, <1>2

LEMMA QueueInv ==
  ASSUME IInv, DoneStays, NEW t \in Task, Launch(t) \/ EnqueueUnblocked(t), NEW u \in Task
  PROVE  TaskInv(u)'
<1> USE TaskFacts
<1>a. ready \in [Task -> Nat] /\ launched \in [Task -> Nat]
  BY DEF IInv, TypeOK
<1>b. UNCHANGED <<state, pc, step, depVars>>
  BY DEF Launch, EnqueueUnblocked, taskVars, depVars
<1>1. CASE u = t /\ ~Started(t)
  <2>1. ListsAgree(t) /\ CounterAgrees(t) /\ QueuedUnblocked(t) BY <1>1 DEF TaskInv
  <2>2. ListsAgree(t)' BY <1>b, <2>1 DEF ListsAgree, depVars
  <2>3. Pending(t)' = Pending(t) BY <1>b DEF Pending, depVars
  <2>4. CounterAgrees(t)' BY <1>b, <2>1, <2>3 DEF CounterAgrees, DoneStays, depVars
  <2>5. QueuedUnblocked(t)'
    <3>1. CASE Launch(t) BY <1>b, <2>1, <3>1 DEF QueuedUnblocked, Launch, depVars
    <3>2. CASE EnqueueUnblocked(t)
      <4>1. state[t] = "Running"
        BY <1>1, <3>2 DEF IInv, MapperKnows, HasTask, EnqueueUnblocked, Started
      <4>2. launched'[t] = launched[t] /\ (numBlocking[t] # 0 => ready'[t] = ready[t])
        BY <3>2 DEF EnqueueUnblocked
      <4> QED BY <1>b, <2>1, <4>1, <4>2 DEF QueuedUnblocked, depVars
    <3> QED BY <3>1, <3>2
  <2> QED BY <1>1, <1>b, <2>2, <2>4, <2>5 DEF TaskInv, Started, Terminal
<1>2. CASE u # t \/ Started(t)
  <2>1. u # t => ready'[u] = ready[u] /\ launched'[u] = launched[u]
    BY <1>a DEF Launch, EnqueueUnblocked, Enqueue
  <2>2. Untouched(u)
    BY <1>2, <1>b, <2>1 DEF Untouched, Started, Terminal, TaskInv, depVars
  <2> QED BY <2>2, KeepUntouched
<1> QED BY <1>1, <1>2

\* Steps of bodies that have begun, of Main and of the mapper's queues.
LEMMA BegunInv ==
  ASSUME IInv, DoneStays, NEW t \in Task, NEW u \in Task,
         \/ \E c \in Ctx : SpawnRejected(c, t)
         \/ \E r \in {"Completed", "Exception"} : BodyEnds(t, r)
         \/ Await(t) \/ Suspend(t) \/ Finish(t)
  PROVE  TaskInv(u)'
<1> USE TaskFacts
<1>a. /\ state \in [Task -> State] /\ pc \in [Ctx -> PC] /\ step \in [Task -> Nat]
      /\ ready \in [Task -> Nat]
      /\ unreg \in [Task -> SUBSET Task] /\ numBlocking \in [Task -> Int]
  BY DEF IInv, TypeOK, PC
<1>1. CASE \E c \in Ctx : SpawnRejected(c, t)
  <2>1. Untouched(u)
    BY <1>1, <1>a DEF SpawnRejected, Untouched, Started, Terminal, TaskInv, depVars
  <2> QED BY <2>1, KeepUntouched
<1>2. CASE \E r \in {"Completed", "Exception"} : BodyEnds(t, r)
  <2>1. Untouched(u)
    BY <1>2, <1>a DEF BodyEnds, Untouched, Started, Terminal, TaskInv, depVars, schedVars
  <2> QED BY <2>1, KeepUntouched
<1>3. CASE Await(t)
  <2>1. dependents' = dependents
        /\ (u # t => unreg'[u] = unreg[u] /\ numBlocking'[u] = numBlocking[u])
    BY <1>3, <1>a DEF Await, BeginDependencies
  <2>2. Untouched(u)
    BY <1>3, <1>a, <2>1 DEF Await, Untouched, Started, Terminal, TaskInv, schedVars
  <2> QED BY <2>2, KeepUntouched
<1>4. CASE Suspend(t)
  <2>1. Untouched(u)
    BY <1>4, <1>a DEF Suspend, Enqueue, Untouched, Started, Terminal, TaskInv, depVars
  <2> QED BY <2>1, KeepUntouched
<1>5. CASE Finish(t)
  <2>1. Started(t) /\ pc[t] = "notifying" /\ ~New(t)
    BY <1>5 DEF Finish, Started, TaskInv
  <2>2. outcome[t] \in {"Completed", "Exception"} BY DEF IInv, TypeOK
  <2>3. CASE u = t
    <3>1. state'[t] = outcome[t] /\ pc'[t] = "idle" BY <1>5, <1>a DEF Finish
    <3> QED BY <2>1, <2>2, <2>3, <3>1, KeepStarted DEF Started, Terminal, New
  <2>4. CASE u # t
    <3>1. Untouched(u)
      BY <2>4, <1>5, <1>a DEF Finish, Untouched, Started, Terminal, TaskInv, depVars
    <3> QED BY <3>1, KeepUntouched
  <2> QED BY <2>3, <2>4
<1> QED BY <1>1, <1>2, <1>3, <1>4, <1>5

LEMMA NextTaskInv ==
  ASSUME IInv, [Next]_vars, NEW u \in Task
  PROVE  TaskInv(u)'
<1>1. DoneStays BY NextDoneStays
<1>2. ASSUME UNCHANGED <<state, step, depVars, ready, launched>>,
             \A t \in Task : pc'[t] = pc[t]
      PROVE  TaskInv(u)'
  <2>1. Untouched(u)
    BY <1>2, TaskFacts DEF Untouched, Started, Terminal, TaskInv, depVars
  <2> QED BY <1>1, <2>1, TaskFacts, KeepUntouched
<1>3. ASSUME MainExit PROVE TaskInv(u)'
  <2>1. \A t \in Task : pc'[t] = pc[t]
    BY <1>3, ProgramAssumption DEF MainExit, ProgramAssumption, IInv, TypeOK, Ctx
  <2> QED BY <1>2, <1>3, <2>1 DEF MainExit
<1>4. ASSUME NEW t \in Task, FillExamine(t) \/ AssignFails(t) \/ SetAssigned(t) \/ FillBegin
      PROVE  TaskInv(u)'
  BY <1>2, <1>4 DEF FillExamine, AssignFails, SetAssigned, FillBegin, taskVars, schedVars
<1>5. ASSUME UNCHANGED vars PROVE TaskInv(u)'
  BY <1>2, <1>5 DEF vars, taskVars, schedVars
<1> QED
  BY <1>1, <1>3, <1>4, <1>5, BeginSpawnInv, RegisterInv, NotifyInv, ConstructedInv,
     StartRunInv, QueueInv, BegunInv
  DEF Next, Stopped

-----------------------------------------------------------------------------
(* The other parts of the invariant.                                       *)

LEMMA NextSpawnerWaits == IInv /\ [Next]_vars => SpawnerWaits'
<1> SUFFICES ASSUME IInv, [Next]_vars PROVE SpawnerWaits'
  OBVIOUS
<1>a. /\ state \in [Task -> State] /\ pc \in [Ctx -> PC]
      /\ outcome \in [Task -> {"Completed", "Exception"}] /\ Task \subseteq Ctx
      /\ Parent \in [Task -> Ctx]
  BY ProgramAssumption DEF IInv, TypeOK, PC, Ctx, ProgramAssumption
<1>b. SpawnerWaits BY DEF IInv
<1> USE <1>a, <1>b DEF SpawnerWaits
<1>1. ASSUME NEW t \in Task, NEW c \in Ctx, BeginSpawn(c, t) PROVE SpawnerWaits'
  BY <1>1 DEF BeginSpawn
<1>2. ASSUME NEW t \in Task, NEW c \in Ctx, SpawnRejected(c, t) PROVE SpawnerWaits'
  BY <1>2 DEF SpawnRejected
<1>3. ASSUME NEW t \in Task, EndInit(t) PROVE SpawnerWaits'
  BY <1>3 DEF EndInit
<1>4. ASSUME NEW t \in Task, Publish(t) PROVE SpawnerWaits'
  BY <1>4 DEF Publish
<1>5. ASSUME NEW t \in Task, StartRun(t) PROVE SpawnerWaits'
  BY <1>5 DEF StartRun, MutexFree
<1>6. ASSUME NEW t \in Task, NEW r \in {"Completed", "Exception"}, BodyEnds(t, r) PROVE SpawnerWaits'
  BY <1>6 DEF BodyEnds
<1>7. ASSUME NEW t \in Task, Await(t) PROVE SpawnerWaits'
  BY <1>7 DEF Await
<1>8. ASSUME NEW t \in Task, Suspend(t) PROVE SpawnerWaits'
  BY <1>8 DEF Suspend
<1>9. ASSUME NEW t \in Task, Finish(t) PROVE SpawnerWaits'
  BY <1>9 DEF Finish
<1>10. ASSUME MainExit PROVE SpawnerWaits'
  BY <1>10 DEF MainExit
<1>11. ASSUME UNCHANGED taskVars PROVE SpawnerWaits'
  BY <1>11 DEF taskVars
<1> QED
  BY <1>1, <1>2, <1>3, <1>4, <1>5, <1>6, <1>7, <1>8, <1>9, <1>10, <1>11
  DEF Next, Stopped, vars, Register, Notify, FillExamine, AssignFails, SetAssigned,
      EnqueueUnblocked, Launch, FillBegin

\* Once an id has a task, and once a task is terminal, it stays so.
LEMMA NextTaskStays ==
  ASSUME IInv, [Next]_vars, NEW e \in Task
  PROVE  (HasTask(e) => HasTask(e)') /\ (Terminal(e) => Terminal(e)')
<1>a. state \in [Task -> State] /\ outcome[e] \in {"Completed", "Exception"}
  BY DEF IInv, TypeOK
<1> USE <1>a DEF HasTask, Terminal
<1>1. ASSUME NEW t \in Task, NEW c \in Ctx, BeginSpawn(c, t) PROVE HasTask(e) => UNCHANGED state[e]
  BY <1>1 DEF BeginSpawn
<1>2. ASSUME NEW t \in Task, EndInit(t) PROVE HasTask(e) => UNCHANGED state[e]
  BY <1>2 DEF EndInit
<1>3. ASSUME NEW t \in Task, Publish(t) PROVE HasTask(e) => UNCHANGED state[e]
  BY <1>3 DEF Publish
<1>4. ASSUME NEW t \in Task, Finish(t) PROVE Terminal(e)' \/ UNCHANGED state[e]
  BY <1>4 DEF Finish
<1>5. ASSUME UNCHANGED state PROVE UNCHANGED state[e]
  BY <1>5
<1> QED
  BY <1>1, <1>2, <1>3, <1>4, <1>5
  DEF Next, Stopped, vars, taskVars, SpawnRejected, Register, Notify, BodyEnds, FillExamine,
      AssignFails, SetAssigned, EnqueueUnblocked, Launch, StartRun, Await, Suspend,
      MainExit, FillBegin

LEMMA NextMapperKnows == IInv /\ [Next]_vars => MapperKnows'
<1> SUFFICES ASSUME IInv, [Next]_vars,
                    NEW e \in newQ' \cup fill' \cup mapQ' \cup checking'
             PROVE  HasTask(e)'
  BY DEF MapperKnows
<1>a. /\ newQ \subseteq Task /\ fill \subseteq Task /\ mapQ \subseteq Task /\ checking \subseteq Task
      /\ state \in [Task -> State]
  BY DEF IInv, TypeOK
<1>1. ASSUME e \in newQ \cup fill \cup mapQ \cup checking PROVE HasTask(e)'
  BY <1>1, <1>a, NextTaskStays DEF IInv, MapperKnows
<1>2. ASSUME NEW t \in Task, Publish(t) PROVE HasTask(e)'
  <2>1. CASE e = t BY <1>2, <1>a, <2>1 DEF Publish, HasTask
  <2>2. CASE e # t BY <1>2, <1>1, <2>2 DEF Publish
  <2> QED BY <2>1, <2>2
<1>3. ASSUME NEW t \in Task, FillExamine(t) \/ AssignFails(t) \/ SetAssigned(t) \/ EnqueueUnblocked(t)
      PROVE  HasTask(e)'
  BY <1>1, <1>3 DEF FillExamine, AssignFails, SetAssigned, EnqueueUnblocked
<1>4. ASSUME FillBegin PROVE HasTask(e)'
  BY <1>1, <1>4 DEF FillBegin
<1>5. ASSUME UNCHANGED <<newQ, fill, mapQ, checking>> PROVE HasTask(e)'
  BY <1>1, <1>5
<1> QED
  BY <1>2, <1>3, <1>4, <1>5
  DEF Next, Stopped, vars, mapVars, BeginSpawn, SpawnRejected, Register, Notify, BodyEnds,
      EndInit, Launch, StartRun, Await, Suspend, Finish, MainExit

LEMMA NextFinishedListsNobody == IInv /\ [Next]_vars => FinishedListsNobody'
<1> SUFFICES ASSUME IInv, [Next]_vars, NEW e \in Task, NEW u \in Task, Terminal(e)'
             PROVE  dependents'[e][u] = 0
  BY DEF FinishedListsNobody
<1>a. /\ state \in [Task -> State] /\ dependents \in [Task -> [Task -> Nat]]
      /\ (Terminal(e) => dependents[e][u] = 0)
  BY DEF IInv, TypeOK, FinishedListsNobody
<1> USE <1>a DEF Terminal
<1>1. ASSUME NEW t \in Task, NEW d \in Task, Register(t, d) PROVE dependents'[e][u] = 0
  BY <1>1 DEF Register, taskVars
<1>2. ASSUME NEW t \in Task, NEW d \in Task, Notify(d, t) PROVE dependents'[e][u] = 0
  BY <1>2 DEF Notify, taskVars
<1>3. ASSUME NEW t \in Task, Finish(t) PROVE dependents'[e][u] = 0
  BY <1>3 DEF Finish, depVars
<1>4. ASSUME NEW t \in Task, NEW c \in Ctx, BeginSpawn(c, t) PROVE dependents'[e][u] = 0
  BY <1>4 DEF BeginSpawn, BeginDependencies
<1>5. ASSUME NEW t \in Task, EndInit(t) \/ Publish(t) PROVE dependents'[e][u] = 0
  BY <1>5 DEF EndInit, Publish, depVars
<1>6. ASSUME UNCHANGED <<state, dependents>> PROVE dependents'[e][u] = 0
  BY <1>6
<1> QED
  BY <1>1, <1>2, <1>3, <1>4, <1>5, <1>6
  DEF Next, Stopped, vars, taskVars, depVars, SpawnRejected, BodyEnds, FillExamine,
      AssignFails, SetAssigned, EnqueueUnblocked, Launch, StartRun, Await, BeginDependencies,
      Suspend, MainExit, FillBegin

LEMMA NextInv == IInv /\ [Next]_vars => IInv'
<1> SUFFICES ASSUME IInv, [Next]_vars PROVE IInv'
  OBVIOUS
<1>1. TypeOK' BY NextTypeOK DEF IInv
<1>2. \A t \in Task : TaskInv(t)' BY NextTaskInv
<1> QED
  BY <1>1, <1>2, NextSpawnerWaits, NextMapperKnows, NextFinishedListsNobody DEF IInv

THEOREM Invariant == Spec => []IInv
BY InitInv, NextInv, PTL DEF Spec

-----------------------------------------------------------------------------
(* The safety properties.                                                  *)

\* A body begins only after the bodies of all its dependencies have ended.
THEOREM BodiesStartAfterDependencies == Spec => []StartsAfterDeps
<1>1. IInv => StartsAfterDeps BY DEF IInv, TaskInv, StartsAfterDeps
<1> QED BY <1>1, Invariant, PTL

\* The counter of a task that has not begun is the number of dependencies
\* that are still to notify it.
THEOREM CounterIsExact == Spec => []CountsPending
<1>1. IInv => CountsPending BY DEF IInv, TaskInv, CounterAgrees, CountsPending
<1> QED BY <1>1, Invariant, PTL

\* The list of dependents of a finished task is empty and stays so.
THEOREM NobodyWaitsForFinished == Spec => []NoDependentOfFinished
<1>1. IInv => NoDependentOfFinished BY DEF IInv, FinishedListsNobody, NoDependentOfFinished
<1> QED BY <1>1, Invariant, PTL

-----------------------------------------------------------------------------
(* No task is lost before its first start.  Until its body begins a spawned *)
(* task is with the mapper, or the mapper has assigned it and it is queued  *)
(* unless its counter is not zero; then the counter is exact and somebody   *)
(* who is not finished lists it.  The task the mapper is checking has been  *)
(* assigned, which is what makes a notification in between enqueue it.      *)

Mapper == newQ \cup fill \cup mapQ \cup checking

Carried(t) == state[t] = "Running" /\ ~Started(t) =>
    \/ t \in Mapper
    \/ assigned[t] /\ (numBlocking[t] # 0 \/ ready[t] + launched[t] > 0)

CheckingAssigned == \A t, u \in checking : t = u /\ assigned[t]

LEMMA NextStartedStays ==
  ASSUME IInv, [Next]_vars, NEW e \in Task, Started(e)
  PROVE  Started(e)'
<1>a. /\ state \in [Task -> State] /\ pc \in [Ctx -> PC] /\ step \in [Task -> Nat] /\ e \in Ctx
      /\ outcome \in [Task -> {"Completed", "Exception"}] /\ TaskInv(e)
  BY DEF IInv, TypeOK, PC, Ctx
<1>b. Terminal(e) => Terminal(e)' BY NextTaskStays
<1> USE <1>a, <1>b DEF Started
<1>1. ASSUME NEW t \in Task, NEW c \in Ctx, BeginSpawn(c, t) \/ SpawnRejected(c, t) PROVE Started(e)'
  BY <1>1 DEF BeginSpawn, SpawnRejected
<1>2. ASSUME NEW t \in Task, Publish(t) PROVE Started(e)'
  BY <1>2 DEF Publish
<1>3. ASSUME NEW t \in Task, StartRun(t) PROVE Started(e)'
  BY <1>3 DEF StartRun
<1>4. ASSUME NEW t \in Task, NEW r \in {"Completed", "Exception"}, BodyEnds(t, r) PROVE Started(e)'
  BY <1>4 DEF BodyEnds
<1>5. ASSUME NEW t \in Task, Await(t) PROVE Started(e)'
  BY <1>5 DEF Await
<1>6. ASSUME NEW t \in Task, Suspend(t) PROVE Started(e)'
  BY <1>6 DEF Suspend, TaskInv
<1>7. ASSUME NEW t \in Task, Finish(t) PROVE Started(e)'
  BY <1>7 DEF Finish, Terminal
<1>8. ASSUME MainExit PROVE Started(e)'
  BY <1>8, ProgramAssumption DEF MainExit, ProgramAssumption
<1>9. ASSUME UNCHANGED <<pc, step>> PROVE Started(e)'
  BY <1>9
<1> QED
  BY <1>1, <1>2, <1>3, <1>4, <1>5, <1>6, <1>7, <1>8, <1>9
  DEF Next, Stopped, vars, taskVars, Register, Notify, EndInit, FillExamine, AssignFails,
      SetAssigned, EnqueueUnblocked, Launch, FillBegin

LEMMA NextCheckingAssigned == IInv /\ CheckingAssigned /\ [Next]_vars => CheckingAssigned'
<1> SUFFICES ASSUME IInv, CheckingAssigned, [Next]_vars PROVE CheckingAssigned'
  OBVIOUS
<1>a. assigned \in [Task -> BOOLEAN] BY DEF IInv, TypeOK
<1> USE <1>a DEF CheckingAssigned
<1>1. ASSUME NEW t \in Task, SetAssigned(t) PROVE CheckingAssigned'
  BY <1>1 DEF SetAssigned
<1>2. ASSUME NEW t \in Task, EnqueueUnblocked(t) PROVE CheckingAssigned'
  BY <1>2 DEF EnqueueUnblocked
<1>3. ASSUME UNCHANGED <<checking, assigned>> PROVE CheckingAssigned'
  BY <1>3
<1> QED
  BY <1>1, <1>2, <1>3
  DEF Next, Stopped, vars, mapVars, BeginSpawn, SpawnRejected, Register, Notify, BodyEnds,
      EndInit, Publish, FillExamine, AssignFails, Launch, StartRun, Await, Suspend, Finish,
      MainExit, FillBegin

LEMMA NextCarried ==
  ASSUME IInv, CheckingAssigned, [Next]_vars, NEW u \in Task, Carried(u)
  PROVE  Carried(u)'
<1> SUFFICES ASSUME state'[u] = "Running", ~Started(u)'
             PROVE  \/ u \in Mapper'
                    \/ assigned'[u] /\ (numBlocking'[u] # 0 \/ ready'[u] + launched'[u] > 0)
  BY DEF Carried
<1>a. /\ state \in [Task -> State] /\ assigned \in [Task -> BOOLEAN] /\ numBlocking \in [Task -> Int]
      /\ ready \in [Task -> Nat] /\ launched \in [Task -> Nat] /\ pc \in [Ctx -> PC]
      /\ unreg \in [Task -> SUBSET Task] /\ u \in Ctx
  BY DEF IInv, TypeOK, PC, Ctx
<1>b. ~Started(u) BY NextStartedStays
<1>c. ListsAgree(u) BY <1>b DEF IInv, TaskInv
<1>d. pc[u] = "idle" BY <1>b DEF Started
<1>1. ASSUME NEW t \in Task, Publish(t) PROVE u \in Mapper' \/ Carried(u)'
  <2>1. CASE u = t BY <1>1, <2>1 DEF Publish, Mapper
  <2>2. CASE u # t
    <3>1. state[u] = "Running" BY <1>a, <1>1, <2>2 DEF Publish
    <3> QED BY <1>1, <1>b, <3>1 DEF Publish, Mapper, Carried, depVars
  <2> QED BY <2>1, <2>2
<1>2. ASSUME ~(\E t \in Task : Publish(t)) PROVE state[u] = "Running"
  <2>1. outcome[u] \in {"Completed", "Exception"} BY DEF IInv, TypeOK
  <2>2. ASSUME NEW t \in Task, NEW c \in Ctx, BeginSpawn(c, t) PROVE state[u] = "Running"
    BY <1>a, <2>2 DEF BeginSpawn
  <2>3. ASSUME NEW t \in Task, EndInit(t) PROVE state[u] = "Running"
    BY <1>a, <2>3 DEF EndInit
  <2>4. ASSUME NEW t \in Task, Finish(t) PROVE state[u] = "Running"
    BY <1>a, <2>1, <2>4 DEF Finish
  <2>5. ASSUME UNCHANGED state PROVE state[u] = "Running"
    BY <2>5
  <2> QED
    BY <1>2, <2>2, <2>3, <2>4, <2>5
    DEF Next, Stopped, vars, taskVars, SpawnRejected, Register, Notify, BodyEnds, FillExamine,
        AssignFails, SetAssigned, EnqueueUnblocked, Launch, StartRun, Await, Suspend,
        MainExit, FillBegin
<1>3. ASSUME state[u] = "Running", UNCHANGED assigned, Mapper' = Mapper,
             UNCHANGED <<numBlocking[u], ready[u], launched[u]>>
      PROVE  u \in Mapper' \/ Carried(u)'
  BY <1>3, <1>b DEF Carried
<1>4. ASSUME state[u] = "Running",
             \E t \in Task : FillExamine(t) \/ AssignFails(t) \/ SetAssigned(t) \/ FillBegin
      PROVE  u \in Mapper' \/ Carried(u)'
  BY <1>4, <1>a, <1>b DEF FillExamine, AssignFails, SetAssigned, FillBegin, Mapper, Carried,
                         taskVars, depVars, schedVars
<1>5. ASSUME state[u] = "Running", NEW t \in Task, EnqueueUnblocked(t)
      PROVE  u \in Mapper' \/ Carried(u)'
  <2>1. CASE u = t
    <3>1. assigned'[u] BY <1>5, <2>1 DEF EnqueueUnblocked, CheckingAssigned
    <3>2. numBlocking'[u] # 0 \/ ready'[u] + launched'[u] > 0
      BY <1>5, <1>a, <2>1 DEF EnqueueUnblocked, Enqueue, depVars
    <3> QED BY <3>1, <3>2 DEF Carried
  <2>2. CASE u # t
    <3>1. u \notin checking BY <1>5, <2>2 DEF EnqueueUnblocked, CheckingAssigned
    <3>2. ready'[u] = ready[u] BY <1>5, <1>a, <2>2 DEF EnqueueUnblocked, Enqueue
    <3> QED BY <1>5, <1>b, <3>1, <3>2 DEF EnqueueUnblocked, Mapper, Carried, depVars
  <2> QED BY <2>1, <2>2
<1>6. ASSUME state[u] = "Running", NEW t \in Task, NEW d \in Task, Notify(d, t)
      PROVE  u \in Mapper' \/ Carried(u)'
  <2>1. Mapper' = Mapper /\ assigned' = assigned /\ launched' = launched
    BY <1>6 DEF Notify, Mapper, mapVars
  <2>2. CASE u = t
    <3>1. numBlocking'[u] = numBlocking[u] - 1 BY <1>6, <1>a, <2>2 DEF Notify
    <3>2. ready'[u] >= ready[u] /\ (numBlocking[u] = 1 /\ assigned[u] => ready'[u] > 0)
      BY <1>6, <1>a, <2>2 DEF Notify, Enqueue
    <3>3. ASSUME u \notin Mapper
          PROVE  assigned'[u] /\ (numBlocking'[u] # 0 \/ ready'[u] + launched'[u] > 0)
      <4>1. assigned[u] /\ (numBlocking[u] # 0 \/ ready[u] + launched[u] > 0)
        BY <1>6, <1>b, <3>3 DEF Carried
      <4>2. ready[u] \in Nat /\ ready'[u] \in Int /\ launched[u] \in Nat /\ numBlocking[u] \in Int
        BY <1>6, <1>a DEF Notify, Enqueue
      <4>3. launched'[u] = launched[u] /\ assigned'[u] BY <2>1, <4>1
      <4>4. numBlocking'[u] # 0 \/ ready'[u] + launched'[u] > 0
        BY <3>1, <3>2, <4>1, <4>2, <4>3
      <4> QED BY <4>3, <4>4
    <3> QED BY <1>6, <1>b, <2>1, <3>3 DEF Carried
  <2>3. CASE u # t
    <3>1. numBlocking'[u] = numBlocking[u] /\ ready'[u] = ready[u]
      BY <1>6, <1>a, <2>3 DEF Notify, Enqueue
    <3> QED BY <1>6, <1>3, <2>1, <3>1
  <2> QED BY <2>2, <2>3
<1>7. ASSUME state[u] = "Running", NEW t \in Task, Launch(t)
      PROVE  u \in Mapper' \/ Carried(u)'
  <2>1. Mapper' = Mapper /\ assigned' = assigned /\ numBlocking' = numBlocking
    BY <1>7 DEF Launch, Mapper, mapVars, depVars
  <2>2. ready'[u] + launched'[u] = ready[u] + launched[u]
    BY <1>7, <1>a DEF Launch
  <2> QED BY <1>7, <1>b, <2>1, <2>2 DEF Carried
<1>8. ASSUME state[u] = "Running", NEW t \in Task, NEW d \in Task, Register(t, d)
      PROVE  u \in Mapper' \/ Carried(u)'
  <2>1. u # t BY <1>8, <1>c DEF Register, ListsAgree
  <2>2. numBlocking'[u] = numBlocking[u] BY <1>8, <1>a, <2>1 DEF Register
  <2>3. UNCHANGED <<mapVars, ready, launched>> BY <1>8 DEF Register, schedVars
  <2> QED BY <1>8, <1>3, <2>2, <2>3 DEF Mapper, mapVars
<1>9. ASSUME state[u] = "Running", NEW t \in Task,
             (\E c \in Ctx : BeginSpawn(c, t) \/ SpawnRejected(c, t))
             \/ (\E r \in {"Completed", "Exception"} : BodyEnds(t, r))
             \/ EndInit(t) \/ StartRun(t) \/ Await(t) \/ Suspend(t) \/ Finish(t)
      PROVE  u \in Mapper' \/ Carried(u)'
  <2>1. UNCHANGED mapVars
    BY <1>9 DEF BeginSpawn, SpawnRejected, BodyEnds, EndInit, StartRun, Await, Suspend, Finish
  <2>2. UNCHANGED <<numBlocking[u], ready[u], launched[u]>>
    <3>1. CASE \E c \in Ctx : BeginSpawn(c, t) \/ SpawnRejected(c, t)
      BY <1>9, <1>a, <3>1 DEF BeginSpawn, SpawnRejected, BeginDependencies, depVars, schedVars
    <3>2. CASE \E r \in {"Completed", "Exception"} : BodyEnds(t, r)
      BY <3>2 DEF BodyEnds, depVars, schedVars
    <3>3. CASE EndInit(t) \/ Finish(t)
      BY <3>3 DEF EndInit, Finish, depVars, schedVars
    <3>4. CASE StartRun(t)
      <4>1. u # t BY <1>a, <3>4 DEF StartRun, Started
      <4> QED BY <1>a, <3>4, <4>1 DEF StartRun, depVars
    <3>5. CASE Await(t)
      BY <1>a, <1>d, <3>5 DEF Await, BeginDependencies, schedVars
    <3>6. CASE Suspend(t)
      BY <1>a, <1>d, <3>6 DEF Suspend, Enqueue, depVars
    <3> QED BY <1>9, <3>1, <3>2, <3>3, <3>4, <3>5, <3>6
  <2> QED BY <1>9, <1>3, <2>1, <2>2 DEF Mapper, mapVars
<1>10. ASSUME state[u] = "Running", MainExit \/ UNCHANGED vars
       PROVE  u \in Mapper' \/ Carried(u)'
  <2>1. UNCHANGED <<mapVars, numBlocking, ready, launched>>
    BY <1>10 DEF MainExit, vars, depVars, schedVars
  <2> QED BY <1>10, <1>3, <2>1 DEF Mapper, mapVars
<1>11. u \in Mapper' \/ Carried(u)'
  BY <1>1, <1>2, <1>4, <1>5, <1>6, <1>7, <1>8, <1>9, <1>10 DEF Next, Stopped
<1> QED BY <1>11 DEF Carried

\* A spawned task whose body has not begun is with the mapper, queued, with a
\* worker, or on the list of a dependency that is not finished.
THEOREM NoTaskLostBeforeStart == Spec => []NoNewTaskForgotten
<1> DEFINE CInv == IInv /\ CheckingAssigned /\ \A t \in Task : Carried(t)
<1>1. Init => CInv
  BY InitInv DEF Init, CheckingAssigned, Carried
<1>2. CInv /\ [Next]_vars => CInv'
  BY NextInv, NextCheckingAssigned, NextCarried
<1>3. CInv => NoNewTaskForgotten
  <2> SUFFICES ASSUME CInv, NEW t \in Task, state[t] = "Running", ~Started(t), t \notin Mapper,
                      ~(ready[t] + launched[t] > 0)
               PROVE  \E d \in Deps[t] : dependents[d][t] > 0 /\ ~Terminal(d)
    BY DEF NoNewTaskForgotten, Mapper
  <2>1. numBlocking[t] # 0 BY DEF Carried
  <2>2. ListsAgree(t) /\ CounterAgrees(t) BY DEF IInv, TaskInv
  <2>3. Cardinality(Pending(t)) # 0 BY <2>1, <2>2 DEF CounterAgrees
  <2>4. Pending(t) # {} BY <2>3, FS_EmptySet
  <2>5. PICK d \in Deps[t] : dependents[d][t] > 0
    BY <2>2, <2>4 DEF Pending, ListsAgree
  <2>6. d \in Task BY ProgramAssumption DEF ProgramAssumption
  <2>7. ~Terminal(d) BY <2>5, <2>6 DEF IInv, FinishedListsNobody
  <2> QED BY <2>5, <2>7
<1> QED BY <1>1, <1>2, <1>3, PTL DEF Spec

-----------------------------------------------------------------------------
(* What a task program keeps as long as no task is notified for the last    *)
(* time while the mapper has set it as assigned and has not yet looked at   *)
(* its counter (task_runtime.py 2039 to 2043).  That interleaving is the    *)
(* one that breaks the properties below (run early_stop); here it is        *)
(* proved to be the only one: for every program and every number of         *)
(* workers, a behaviour without it has each task in one place, stops last,  *)
(* forgets nobody, keeps its terminal states, and implements TaskGraph.     *)


\* The last notification of the task the mapper is checking.
LastNotified == \E t \in checking, d \in Task : numBlocking[t] = 1 /\ Notify(d, t)

-----------------------------------------------------------------------------
(* The inductive invariant.                                                *)

\* dependencies, of the spawn or of the barrier t is at, that count against t
Left(t) == {d \in deps[t] : d \in unreg[t] \/ dependents[d][t] > 0}

\* The counter is exact for all of a task's life, not only before its start:
\* a body reaches a barrier with nothing left of the one before.
Counted(t) ==
    /\ unreg[t] \subseteq deps[t]
    /\ unreg[t] # {} => state[t] = "Registering" \/ pc[t] = "updating"
    /\ \A d \in Task : \/ dependents[d][t] = 0
                       \/ dependents[d][t] = 1 /\ d \in deps[t] \ unreg[t]
    /\ numBlocking[t] = Cardinality(Left(t))
    /\ \A d \in deps[t] \ Left(t) : BodyDone(d)

Entries(t) == ready[t] + launched[t]

Unassigned == newQ \cup fill \cup mapQ

\* A task is with the mapper, or queued, or with a worker, or executing; and
\* one that is nowhere is blocked.
Placed(t) ==
    /\ ~HasTask(t) => pc[t] = "idle" /\ Entries(t) = 0 /\ ~assigned[t]
    /\ Terminal(t) => pc[t] = "idle" /\ Entries(t) = 0 /\ numBlocking[t] = 0 /\ t \notin Mapper
    /\ t \in Mapper => pc[t] = "idle" /\ Entries(t) = 0
    /\ t \in Unassigned => ~assigned[t]
    /\ state[t] = "Running" =>
         /\ t \in Mapper \/ assigned[t]
         /\ Entries(t) <= 1
         /\ pc[t] # "idle" => Entries(t) = 0
         /\ Entries(t) > 0 \/ pc[t] \notin {"idle", "updating"} => numBlocking[t] = 0
         /\ t \notin Mapper /\ pc[t] = "idle" /\ numBlocking[t] = 0 => Entries(t) > 0

QueuesDisjoint ==
    /\ newQ \cap fill = {} /\ newQ \cap mapQ = {} /\ newQ \cap checking = {}
    /\ fill \cap mapQ = {} /\ fill \cap checking = {} /\ mapQ \cap checking = {}

MainEnded == pc[Main] \in {"exited", "raised"}

RunningTasks == {t \in Task : state[t] = "Running"}

\* The count of active tasks, and what it means when it has been 0.
ActiveExact ==
    /\ active = Cardinality(RunningTasks) + (IF MainEnded THEN 0 ELSE 1)
    /\ stopped => MainEnded /\ RunningTasks = {}

SInv == /\ IInv
        /\ CheckingAssigned
        /\ \A t \in Task : Counted(t) /\ Placed(t)
        /\ QueuesDisjoint
        /\ ActiveExact

\* What the steps below rely on.
LEMMA SFacts ==
  ASSUME SInv, NEW u \in Task
  PROVE  /\ Counted(u) /\ Placed(u) /\ TaskInv(u)
         /\ u \in Ctx /\ u # Main
         /\ state[u] \in State /\ pc[u] \in PC
         /\ ready[u] \in Nat /\ launched[u] \in Nat /\ numBlocking[u] \in Int
         /\ assigned[u] \in BOOLEAN
         /\ \A d \in Task : dependents[d][u] \in Nat
         /\ deps[u] \in SUBSET Task /\ unreg[u] \in SUBSET Task
         /\ IsFiniteSet(Left(u)) /\ Cardinality(Left(u)) \in Nat
<1>1. deps[u] \in SUBSET Task BY DEF SInv, IInv, TypeOK
<1>2. IsFiniteSet(Left(u)) /\ Cardinality(Left(u)) \in Nat BY <1>1, TaskSetSize DEF Left
<1> QED BY <1>1, <1>2, TaskFacts DEF SInv, IInv, TypeOK, PC

\* The functions the steps update.
LEMMA STypes ==
  ASSUME SInv
  PROVE  /\ state \in [Task -> State] /\ pc \in [Ctx -> PC]
         /\ deps \in [Task -> SUBSET Task] /\ unreg \in [Task -> SUBSET Task]
         /\ dependents \in [Task -> [Task -> Nat]] /\ numBlocking \in [Task -> Int]
         /\ assigned \in [Task -> BOOLEAN]
         /\ ready \in [Task -> Nat] /\ launched \in [Task -> Nat]
         /\ newQ \subseteq Task /\ fill \subseteq Task /\ mapQ \subseteq Task
         /\ checking \subseteq Task
BY DEF SInv, IInv, TypeOK, PC

LEMMA InitSInv == Init => SInv
<1> SUFFICES ASSUME Init PROVE SInv
  OBVIOUS
<1>1. IInv BY InitInv
<1>2. CheckingAssigned BY DEF Init, CheckingAssigned
<1>3. ASSUME NEW t \in Task PROVE Counted(t)
  <2>1. deps[t] = {} /\ unreg[t] = {} /\ numBlocking[t] = 0 /\ \A d \in Task : dependents[d][t] = 0
    BY DEF Init
  <2>2. Left(t) = {} BY <2>1 DEF Left
  <2> QED BY <2>1, <2>2, FS_EmptySet DEF Counted
<1>4. ASSUME NEW t \in Task PROVE Placed(t)
  <2>1. pc[t] = "idle" BY ProgramAssumption DEF Init, ProgramAssumption, Ctx
  <2>2. state[t] = "Unspawned" /\ ready[t] = 0 /\ launched[t] = 0 /\ ~assigned[t]
        /\ newQ = {} /\ fill = {} /\ mapQ = {} /\ checking = {}
    BY DEF Init
  <2> QED BY <2>1, <2>2 DEF Placed, HasTask, Terminal, Entries, Mapper, Unassigned
<1>5. QueuesDisjoint BY DEF Init, QueuesDisjoint
<1>6. ActiveExact
  <2>1. RunningTasks = {} BY DEF Init, RunningTasks
  <2>2. ~MainEnded BY DEF Init, MainEnded, Ctx
  <2>3. active = 1 /\ ~stopped BY DEF Init
  <2> QED BY <2>1, <2>2, <2>3, FS_EmptySet DEF ActiveExact
<1> QED BY <1>1, <1>2, <1>3, <1>4, <1>5, <1>6 DEF SInv

-----------------------------------------------------------------------------
(* Steps that leave a task's count or its place alone.                     *)

SameCount(u) ==
    /\ deps'[u] = deps[u] /\ unreg'[u] = unreg[u] /\ numBlocking'[u] = numBlocking[u]
    /\ \A d \in Task : dependents'[d][u] = dependents[d][u]

SamePlace(u) ==
    /\ state'[u] = state[u] /\ pc'[u] = pc[u] /\ assigned'[u] = assigned[u]
    /\ ready'[u] = ready[u] /\ launched'[u] = launched[u]
    /\ (u \in Mapper)' <=> u \in Mapper
    /\ (u \in Unassigned)' <=> u \in Unassigned

LEMMA KeepCounted ==
  ASSUME NEW u \in Task, Counted(u), DoneStays, SameCount(u), deps[u] \in SUBSET Task,
         unreg[u] # {} => state'[u] = "Registering" \/ pc'[u] = "updating"
  PROVE  Counted(u)'
<1>1. Left(u)' = Left(u) BY DEF Left, SameCount
<1> QED BY <1>1 DEF Counted, SameCount, DoneStays

LEMMA KeepPlaced ==
  ASSUME NEW u \in Task, Placed(u), SamePlace(u), numBlocking'[u] = numBlocking[u]
  PROVE  Placed(u)'
BY DEF Placed, SamePlace, HasTask, Terminal, Entries

\* A counter at zero means that nobody will notify the task.
LEMMA NothingLeft ==
  ASSUME SInv, NEW u \in Task, numBlocking[u] = 0
  PROVE  /\ Left(u) = {} /\ unreg[u] = {}
         /\ \A d \in Task : dependents[d][u] = 0
<1>1. Left(u) = {} BY SFacts, FS_EmptySet DEF Counted
<1>2. ASSUME NEW d \in Task, dependents[d][u] = 1, d \in deps[u] PROVE FALSE
  BY <1>1, <1>2 DEF Left
<1>3. \A d \in Task : dependents[d][u] = 0 BY <1>2, SFacts DEF Counted
<1>4. unreg[u] = {} BY <1>1, SFacts DEF Counted, Left
<1> QED BY <1>1, <1>3, <1>4

-----------------------------------------------------------------------------
(* Each action keeps every task counted and placed.                        *)

\* A spawner or a running body changes where it is and nothing else.
LEMMA MovesOn ==
  ASSUME SInv, DoneStays, NEW u \in Task, pc[u] = "body", pc'[u] \in {"spawning", "notifying"},
         SameCount(u), UNCHANGED <<state[u], assigned, ready, launched, newQ, fill, mapQ, checking>>
  PROVE  Counted(u)' /\ Placed(u)'
<1> USE SFacts
<1>1. state[u] = "Running" BY DEF Placed, HasTask
<1>2. unreg[u] = {} BY <1>1, NothingLeft DEF Placed
<1>3. Counted(u)' BY <1>2, KeepCounted
<1>4. numBlocking'[u] = numBlocking[u] BY DEF SameCount
<1>5. Placed(u)' BY <1>1, <1>4 DEF Placed, HasTask, Terminal, Entries, Mapper, Unassigned
<1> QED BY <1>3, <1>5

LEMMA BeginSpawnStep ==
  ASSUME SInv, DoneStays, NEW t \in Task, NEW c \in Ctx, BeginSpawn(c, t), NEW u \in Task
  PROVE  Counted(u)' /\ Placed(u)'
<1> USE SFacts
<1>a. state \in [Task -> State] /\ pc \in [Ctx -> PC] /\ numBlocking \in [Task -> Int]
      /\ deps \in [Task -> SUBSET Task] /\ unreg \in [Task -> SUBSET Task]
  BY STypes
<1>b. UNCHANGED <<dependents, assigned, ready, launched, newQ, fill, mapQ, checking>>
  BY DEF BeginSpawn, BeginDependencies, mapVars, schedVars
<1>c. pc[c] = "body" /\ state[t] = "Unspawned" /\ pc[t] = "idle" /\ c # t
  BY DEF BeginSpawn, Placed, HasTask, Terminal
<1>1. CASE u = t
  <2>1. /\ deps'[t] = Deps[t] /\ unreg'[t] = Deps[t] /\ numBlocking'[t] = Cardinality(Deps[t])
        /\ state'[t] = "Registering" /\ pc'[t] = "idle"
    BY <1>a, <1>c DEF BeginSpawn, BeginDependencies
  <2>2. \A d \in Task : dependents'[d][t] = 0
    BY <1>b, <1>c DEF TaskInv, New, ListsAgree
  <2>3. Left(t)' = Deps[t] BY <2>1 DEF Left
  <2>4. Counted(t)' BY <2>1, <2>2, <2>3 DEF Counted
  <2>5. t \notin Mapper BY <1>c DEF SInv, IInv, MapperKnows, Mapper, HasTask, Terminal
  <2>6. Placed(t)'
    BY <1>b, <1>c, <2>1, <2>5 DEF Placed, HasTask, Terminal, Entries, Mapper, Unassigned
  <2> QED BY <1>1, <2>4, <2>6
<1>2. CASE u # t
  <2>1. SameCount(u) /\ state'[u] = state[u]
    BY <1>2, <1>a, <1>b DEF BeginSpawn, BeginDependencies, SameCount
  <2>2. CASE u = c
    <3>1. pc[u] = "body" /\ pc'[u] = "spawning" BY <2>2, <1>a, <1>c DEF BeginSpawn
    <3> QED BY <1>b, <2>1, <3>1, MovesOn
  <2>3. CASE u # c
    <3>1. SamePlace(u)
      BY <2>1, <2>3, <1>a, <1>b DEF BeginSpawn, SamePlace, Mapper, Unassigned
    <3>2. unreg[u] # {} => state'[u] = "Registering" \/ pc'[u] = "updating"
      BY <3>1 DEF SamePlace, Counted
    <3> QED BY <2>1, <3>1, <3>2, KeepCounted, KeepPlaced DEF SameCount
  <2> QED BY <2>2, <2>3
<1> QED BY <1>1, <1>2

\* Nothing the invariant says of u changes.
LEMMA KeepBoth ==
  ASSUME SInv, DoneStays, NEW u \in Task, SameCount(u), SamePlace(u)
  PROVE  Counted(u)' /\ Placed(u)'
<1>1. unreg[u] # {} => state'[u] = "Registering" \/ pc'[u] = "updating"
  BY SFacts DEF SamePlace, Counted
<1>2. numBlocking'[u] = numBlocking[u] BY DEF SameCount
<1> QED BY <1>1, <1>2, SFacts, KeepCounted, KeepPlaced

LEMMA BodyStep ==
  ASSUME SInv, DoneStays, NEW t \in Task, NEW u \in Task,
         \/ \E c \in Ctx : SpawnRejected(c, t)
         \/ \E r \in {"Completed", "Exception"} : BodyEnds(t, r)
  PROVE  Counted(u)' /\ Placed(u)'
<1> USE SFacts
<1>a. pc \in [Ctx -> PC] BY STypes
<1>b. UNCHANGED <<state, depVars, assigned, ready, launched, newQ, fill, mapQ, checking>>
  BY DEF SpawnRejected, BodyEnds, mapVars, schedVars
<1>c. SameCount(u) BY <1>b DEF SameCount, depVars
<1>1. pc'[u] = pc[u] \/ (pc[u] = "body" /\ pc'[u] \in {"spawning", "notifying"})
  BY <1>a DEF SpawnRejected, BodyEnds
<1>2. pc'[u] = pc[u] => SamePlace(u) BY <1>b DEF SamePlace, Mapper, Unassigned
<1> QED BY <1>1, <1>2, <1>b, <1>c, KeepBoth, MovesOn

LEMMA RegisterStep ==
  ASSUME SInv, DoneStays, NEW t \in Task, NEW d \in Task, Register(t, d), NEW u \in Task
  PROVE  Counted(u)' /\ Placed(u)'
<1> USE SFacts
<1>a. /\ unreg \in [Task -> SUBSET Task] /\ numBlocking \in [Task -> Int]
      /\ dependents \in [Task -> [Task -> Nat]]
  BY STypes
<1>b. UNCHANGED <<state, pc, deps, assigned, ready, launched, newQ, fill, mapQ, checking>>
  BY DEF Register, taskVars, mapVars, schedVars
<1>1. CASE u = t
  <2>1. /\ d \in unreg[t] /\ d \in deps[t] /\ dependents[d][t] = 0
        /\ state[t] = "Registering" \/ pc[t] = "updating"
    BY DEF Counted, Register
  <2>2. unreg'[t] = unreg[t] \ {d} BY <1>a DEF Register
  <2>3. d \in Left(t) BY <2>1 DEF Left
  <2>4. Counted(t)'
    <3>1. CASE Terminal(d)
      <4>1. dependents' = dependents /\ numBlocking'[t] = numBlocking[t] - 1
        BY <1>a, <3>1 DEF Register
      <4>2. Left(t)' = Left(t) \ {d} BY <1>b, <2>1, <2>2, <4>1 DEF Left
      <4>3. Cardinality(Left(t)') = Cardinality(Left(t)) - 1
        BY <2>3, <4>2, FS_RemoveElement
      <4>4. BodyDone(d)' BY <1>b, <3>1 DEF BodyDone, Terminal
      <4>5. \A e \in deps'[t] \ Left(t)' : BodyDone(e)'
        BY <1>b, <4>2, <4>4 DEF Counted, DoneStays
      <4> QED BY <1>b, <2>1, <2>2, <4>1, <4>3, <4>5 DEF Counted
    <3>2. CASE ~Terminal(d)
      <4>1. numBlocking' = numBlocking /\ dependents'[d][t] = 1
            /\ \A e \in Task \ {d} : dependents'[e][t] = dependents[e][t]
        BY <1>a, <2>1, <3>2 DEF Register
      <4>2. Left(t)' = Left(t)
        <5>1. \A e \in Task : e \in unreg'[t] \/ dependents'[e][t] > 0
                             <=> e \in unreg[t] \/ dependents[e][t] > 0
          BY <2>1, <2>2, <4>1
        <5> QED BY <1>b, <5>1, deps[t] \in SUBSET Task DEF Left
      <4>3. \A e \in deps'[t] \ Left(t)' : BodyDone(e)'
        BY <1>b, <4>2 DEF Counted, DoneStays
      <4> QED BY <1>b, <2>1, <2>2, <4>1, <4>2, <4>3 DEF Counted
    <3> QED BY <3>1, <3>2
  <2>5. Placed(t)'
    BY <1>b, <2>1 DEF Placed, HasTask, Terminal, Entries, Mapper, Unassigned
  <2> QED BY <1>1, <2>4, <2>5
<1>2. CASE u # t
  <2>1. SameCount(u) BY <1>2, <1>a, <1>b DEF Register, SameCount
  <2>2. SamePlace(u) BY <1>b DEF SamePlace, Mapper, Unassigned
  <2> QED BY <2>1, <2>2, KeepBoth
<1> QED BY <1>1, <1>2

\* A notification enqueues a task that is nowhere else, unless the mapper is
\* about to enqueue it too.
LEMMA NotifyStep ==
  ASSUME SInv, DoneStays, NEW t \in Task, NEW d \in Task, Notify(d, t), ~LastNotified,
         NEW u \in Task
  PROVE  Counted(u)' /\ Placed(u)'
<1> USE SFacts
<1>a. /\ numBlocking \in [Task -> Int] /\ dependents \in [Task -> [Task -> Nat]]
      /\ ready \in [Task -> Nat]
  BY STypes
<1>b. UNCHANGED <<state, pc, deps, unreg, assigned, launched, newQ, fill, mapQ, checking>>
  BY DEF Notify, taskVars, mapVars
<1>1. CASE u = t
  <2>1. pc[t] = "idle" /\ dependents[d][t] = 1 /\ d \in deps[t] \ unreg[t]
    BY DEF Notify, MutexFree, Counted
  <2>2. /\ dependents'[d][t] = 0
        /\ \A e \in Task \ {d} : dependents'[e][t] = dependents[e][t]
        /\ numBlocking'[t] = numBlocking[t] - 1
    BY <1>a, <2>1 DEF Notify
  <2>3. d \in Left(t) /\ Left(t)' = Left(t) \ {d}
    <3>1. \A e \in Task \ {d} : e \in unreg'[t] \/ dependents'[e][t] > 0
                               <=> e \in unreg[t] \/ dependents[e][t] > 0
      BY <1>b, <2>2
    <3>2. d \notin unreg'[t] /\ ~(dependents'[d][t] > 0) BY <1>b, <2>1, <2>2
    <3>3. Left(t)' = Left(t) \ {d}
      BY <1>b, <3>1, <3>2, deps[t] \in SUBSET Task DEF Left
    <3> QED BY <2>1, <3>3 DEF Left
  <2>4. Cardinality(Left(t)') = Cardinality(Left(t)) - 1
    BY <2>3, FS_RemoveElement
  <2>5. BodyDone(d)' BY <1>b DEF Notify, BodyDone
  <2>6. \A e \in deps'[t] \ Left(t)' : BodyDone(e)'
    BY <1>b, <2>3, <2>5 DEF Counted, DoneStays
  <2>7. Counted(t)' BY <1>b, <2>1, <2>2, <2>4, <2>6 DEF Counted
  <2>8. numBlocking[t] # 0 BY <2>1, NothingLeft
  <2>9. Entries(t) = 0 /\ ~Terminal(t)
    BY <2>8 DEF Placed, HasTask, Terminal, Entries
  <2>10. CASE state[t] = "Running" /\ numBlocking[t] = 1 /\ assigned[t]
    <3>1. t \notin Unassigned BY <2>10 DEF Placed
    <3>2. t \notin checking BY <2>10 DEF LastNotified
    <3>3. t \notin Mapper BY <3>1, <3>2 DEF Mapper, Unassigned
    <3>4. ready'[t] = ready[t] + 1 BY <1>a, <2>10 DEF Notify, Enqueue
    <3>5. Entries(t)' = 1 BY <1>b, <2>9, <3>4 DEF Entries
    <3>6. (t \notin Mapper)' /\ (t \notin Unassigned)'
      BY <1>b, <3>1, <3>3 DEF Mapper, Unassigned
    <3> QED BY <1>1, <1>b, <2>1, <2>2, <2>7, <2>10, <3>5, <3>6 DEF Placed, HasTask, Terminal
  <2>11. CASE ~(state[t] = "Running" /\ numBlocking[t] = 1 /\ assigned[t])
    <3>1. ready' = ready BY <2>11 DEF Notify
    <3>2. Entries(t)' = 0 BY <1>b, <2>9, <3>1 DEF Entries
    <3>3. state[t] = "Running" /\ numBlocking'[t] = 0 => t \in Mapper
      BY <2>2, <2>11 DEF Placed
    <3>4. (t \in Mapper)' = (t \in Mapper) /\ (t \in Unassigned)' = (t \in Unassigned)
      BY <1>b DEF Mapper, Unassigned
    <3>5. Placed(t)'
      BY <1>b, <2>1, <2>9, <3>2, <3>3, <3>4 DEF Placed, HasTask, Terminal
    <3> QED BY <1>1, <2>7, <3>5
  <2> QED BY <2>10, <2>11
<1>2. CASE u # t
  <2>1. SameCount(u) BY <1>2, <1>a, <1>b DEF Notify, SameCount
  <2>2. ready'[u] = ready[u] BY <1>2, <1>a DEF Notify, Enqueue
  <2>3. SamePlace(u) BY <1>b, <2>2 DEF SamePlace, Mapper, Unassigned
  <2> QED BY <2>1, <2>3, KeepBoth
<1> QED BY <1>1, <1>2

LEMMA ConstructedStep ==
  ASSUME SInv, DoneStays, NEW t \in Task, EndInit(t) \/ Publish(t), NEW u \in Task
  PROVE  Counted(u)' /\ Placed(u)'
<1> USE SFacts
<1>a. state \in [Task -> State] /\ pc \in [Ctx -> PC]
  BY STypes
<1>b. UNCHANGED <<deps, unreg, numBlocking, dependents, assigned, ready, launched,
                  fill, mapQ, checking>>
  BY DEF EndInit, Publish, depVars, mapVars, schedVars
<1>c. /\ state[t] \in {"Registering", "Registered"} /\ pc[Parent[t]] = "spawning"
      /\ pc[t] = "idle" /\ Entries(t) = 0 /\ ~assigned[t] /\ t \notin Mapper
  BY DEF EndInit, Publish, SInv, IInv, SpawnerWaits, Placed, HasTask, Terminal, MapperKnows, Mapper
<1>d. SameCount(u) BY <1>b DEF SameCount
<1>1. CASE u = t
  <2>1. pc'[t] = "idle" /\ state'[t] \in {"Registered", "Running"}
    BY <1>a, <1>c DEF EndInit, Publish
  <2>2. unreg[t] = {} BY <1>c DEF EndInit, Publish, Counted
  <2>3. Counted(t)' BY <1>1, <1>d, <2>2, KeepCounted
  <2>4. Entries(t)' = 0 /\ ~assigned'[t] BY <1>b, <1>c DEF Entries
  <2>5. state'[t] = "Running" => (t \in Mapper)'
    BY <1>a, <1>c DEF EndInit, Publish, Mapper
  <2>6. Placed(t)'
    BY <2>1, <2>4, <2>5 DEF Placed, HasTask, Terminal
  <2> QED BY <1>1, <2>3, <2>6
<1>2. CASE u # t
  <2>1. state'[u] = state[u] BY <1>2, <1>a DEF EndInit, Publish
  <2>2. (u \in Mapper)' <=> u \in Mapper
    BY <1>2, <1>b DEF EndInit, Publish, Mapper, mapVars
  <2>3. (u \in Unassigned)' <=> u \in Unassigned
    BY <1>2, <1>b DEF EndInit, Publish, Unassigned, mapVars
  <2>4. CASE pc'[u] = pc[u]
    BY <1>b, <1>d, <2>1, <2>2, <2>3, <2>4, KeepBoth DEF SamePlace
  <2>5. CASE pc'[u] # pc[u]
    <3>1. pc[u] = "spawning" /\ pc'[u] = "body"
      BY <1>a, <1>c, <2>5 DEF EndInit, Publish
    <3>2. state[u] = "Running" BY <3>1 DEF Placed, HasTask
    <3>3. numBlocking[u] = 0 BY <3>1, <3>2 DEF Placed
    <3>4. unreg[u] = {} BY <3>3, NothingLeft
    <3>5. Counted(u)' BY <1>d, <3>4, KeepCounted
    <3>6. Placed(u)'
      BY <1>b, <2>1, <2>2, <2>3, <3>1, <3>2 DEF Placed, HasTask, Terminal, Entries
    <3> QED BY <3>5, <3>6
  <2> QED BY <2>4, <2>5
<1> QED BY <1>1, <1>2

\* The mapper moves a task between its queues, and assigns it with the last move.
LEMMA MapperStep ==
  ASSUME SInv, DoneStays, NEW t \in Task,
         FillExamine(t) \/ AssignFails(t) \/ SetAssigned(t) \/ FillBegin, NEW u \in Task
  PROVE  Counted(u)' /\ Placed(u)'
<1> USE SFacts
<1>a. assigned \in [Task -> BOOLEAN] BY STypes
<1>b. UNCHANGED <<state, pc, depVars, ready, launched>>
  BY DEF FillExamine, AssignFails, SetAssigned, FillBegin, taskVars, schedVars
<1>c. SameCount(u) BY <1>b DEF SameCount, depVars
<1>d. (u \in Mapper)' <=> u \in Mapper
  BY DEF FillExamine, AssignFails, SetAssigned, FillBegin, Mapper
<1>1. CASE FillExamine(t) \/ AssignFails(t) \/ FillBegin
  <2>1. (u \in Unassigned)' <=> u \in Unassigned
    BY <1>1 DEF FillExamine, AssignFails, FillBegin, Unassigned
  <2>2. assigned' = assigned BY <1>1 DEF FillExamine, AssignFails, FillBegin
  <2> QED BY <1>b, <1>c, <1>d, <2>1, <2>2, KeepBoth DEF SamePlace
<1>2. CASE SetAssigned(t)
  <2>1. CASE u = t
    <3>1. t \in Unassigned /\ t \in Mapper BY <1>2 DEF SetAssigned, Unassigned, Mapper
    <3>2. assigned'[t] BY <1>2, <1>a DEF SetAssigned
    <3>3. (t \notin Unassigned)' BY <1>2 DEF SetAssigned, Unassigned, SInv, QueuesDisjoint
    <3>4. Entries(t)' = Entries(t) BY <1>b DEF Entries
    <3>5. HasTask(t) BY <1>2 DEF SetAssigned, SInv, IInv, MapperKnows
    <3>6. Placed(t)'
      BY <1>b, <1>d, <2>1, <3>1, <3>2, <3>3, <3>4, <3>5
      DEF Placed, HasTask, Terminal, depVars
    <3>7. Counted(t)' BY <1>b, <1>c, <2>1, KeepCounted DEF Counted
    <3> QED BY <2>1, <3>6, <3>7
  <2>2. CASE u # t
    <3>1. (u \in Unassigned)' <=> u \in Unassigned BY <1>2, <2>2 DEF SetAssigned, Unassigned
    <3>2. assigned'[u] = assigned[u] BY <1>2, <1>a, <2>2 DEF SetAssigned
    <3> QED BY <1>b, <1>c, <1>d, <3>1, <3>2, KeepBoth DEF SamePlace
  <2> QED BY <2>1, <2>2
<1> QED BY <1>1, <1>2

LEMMA EnqueueStep ==
  ASSUME SInv, DoneStays, NEW t \in Task, EnqueueUnblocked(t), NEW u \in Task
  PROVE  Counted(u)' /\ Placed(u)'
<1> USE SFacts
<1>a. ready \in [Task -> Nat] BY STypes
<1>b. UNCHANGED <<state, pc, depVars, assigned, newQ, fill, mapQ, launched>>
  BY DEF EnqueueUnblocked, taskVars
<1>c. SameCount(u) BY <1>b DEF SameCount, depVars
<1>d. (u \in Unassigned)' <=> u \in Unassigned BY <1>b DEF Unassigned
<1>1. CASE u = t
  <2>1. t \in Mapper /\ t \notin Unassigned /\ assigned[t] /\ HasTask(t)
    BY DEF EnqueueUnblocked, Mapper, Unassigned, SInv, QueuesDisjoint, CheckingAssigned,
           IInv, MapperKnows
  <2>2. (t \notin Mapper)' BY <1>b, <2>1 DEF EnqueueUnblocked, Mapper, Unassigned
  <2>3. state[t] = "Running" /\ pc[t] = "idle" /\ Entries(t) = 0
    BY <2>1 DEF Placed, HasTask
  <2>4. Entries(t)' = IF numBlocking[t] = 0 THEN 1 ELSE 0
    BY <1>a, <1>b, <2>3 DEF EnqueueUnblocked, Enqueue, Entries
  <2>5. Placed(t)'
    BY <1>1, <1>b, <1>d, <2>1, <2>2, <2>3, <2>4 DEF Placed, HasTask, Terminal, depVars
  <2>6. Counted(t)' BY <1>1, <1>b, <1>c, KeepCounted DEF Counted
  <2> QED BY <1>1, <2>5, <2>6
<1>2. CASE u # t
  <2>1. ready'[u] = ready[u] BY <1>2, <1>a DEF EnqueueUnblocked, Enqueue
  <2>2. (u \in Mapper)' <=> u \in Mapper
    BY <1>2, <1>b DEF EnqueueUnblocked, Mapper, SInv, CheckingAssigned
  <2> QED BY <1>b, <1>c, <1>d, <2>1, <2>2, KeepBoth DEF SamePlace
<1> QED BY <1>1, <1>2

LEMMA LaunchStep ==
  ASSUME SInv, DoneStays, NEW t \in Task, Launch(t), NEW u \in Task
  PROVE  Counted(u)' /\ Placed(u)'
<1> USE SFacts
<1>a. ready \in [Task -> Nat] /\ launched \in [Task -> Nat] BY STypes
<1>b. UNCHANGED <<state, pc, depVars, assigned, newQ, fill, mapQ, checking>>
  BY DEF Launch, taskVars, mapVars
<1>c. SameCount(u) BY <1>b DEF SameCount, depVars
<1>1. state[t] = "Running" BY DEF Launch, Placed, HasTask, Entries, Terminal
<1>2. Entries(u)' = Entries(u) BY <1>a, <1>1 DEF Launch, Entries
<1>3. (u \in Mapper)' <=> u \in Mapper BY <1>b DEF Mapper
<1>4. (u \in Unassigned)' <=> u \in Unassigned BY <1>b DEF Unassigned
<1>5. Placed(u)'
  BY <1>b, <1>2, <1>3, <1>4 DEF Placed, HasTask, Terminal, depVars
<1>6. Counted(u)' BY <1>b, <1>c, KeepCounted DEF Counted
<1> QED BY <1>5, <1>6

LEMMA StartRunStep ==
  ASSUME SInv, DoneStays, NEW t \in Task, StartRun(t), NEW u \in Task
  PROVE  Counted(u)' /\ Placed(u)'
<1> USE SFacts
<1>a. pc \in [Ctx -> PC] /\ launched \in [Task -> Nat] BY STypes
<1>b. UNCHANGED <<state, depVars, assigned, newQ, fill, mapQ, checking, ready>>
  BY DEF StartRun, mapVars
<1>c. SameCount(u) BY <1>b DEF SameCount, depVars
<1>d. (u \in Mapper)' <=> u \in Mapper BY <1>b DEF Mapper
<1>e. (u \in Unassigned)' <=> u \in Unassigned BY <1>b DEF Unassigned
<1>1. CASE u = t
  <2>1. state[t] = "Running" /\ pc[t] = "idle" /\ Entries(t) > 0
    BY DEF StartRun, MutexFree, Placed, HasTask, Entries, Terminal
  <2>2. Entries(t) = 1 /\ t \notin Mapper /\ numBlocking[t] = 0
    BY <2>1 DEF Placed, Entries
  <2>3. pc'[t] = "body" BY <1>a, <2>1 DEF StartRun
  <2>4. Entries(t)' = 0 BY <1>a, <1>b, <2>2 DEF StartRun, Entries
  <2>5. Placed(t)'
    BY <1>b, <1>d, <1>e, <1>1, <2>1, <2>2, <2>3, <2>4 DEF Placed, HasTask, Terminal, depVars
  <2>6. unreg[t] = {} BY <2>2, NothingLeft
  <2> QED BY <1>1, <1>c, <2>5, <2>6, KeepCounted
<1>2. CASE u # t
  <2>1. pc'[u] = pc[u] /\ launched'[u] = launched[u] BY <1>2, <1>a DEF StartRun
  <2> QED BY <1>b, <1>c, <1>d, <1>e, <2>1, KeepBoth DEF SamePlace
<1> QED BY <1>1, <1>2

LEMMA AwaitStep ==
  ASSUME SInv, DoneStays, NEW t \in Task, Await(t), NEW u \in Task
  PROVE  Counted(u)' /\ Placed(u)'
<1> USE SFacts
<1>a. /\ pc \in [Ctx -> PC] /\ numBlocking \in [Task -> Int]
      /\ deps \in [Task -> SUBSET Task] /\ unreg \in [Task -> SUBSET Task]
  BY STypes
<1>b. UNCHANGED <<state, dependents, assigned, ready, launched, newQ, fill, mapQ, checking>>
  BY DEF Await, BeginDependencies, mapVars, schedVars
<1>c. (u \in Mapper)' <=> u \in Mapper BY <1>b DEF Mapper
<1>d. (u \in Unassigned)' <=> u \in Unassigned BY <1>b DEF Unassigned
<1>1. CASE u = t
  <2>1. pc[t] = "body" /\ state[t] = "Running" BY DEF Await, Placed, HasTask
  <2>2. numBlocking[t] = 0 /\ Entries(t) = 0 /\ t \notin Mapper BY <2>1 DEF Placed
  <2>3. \A d \in Task : dependents'[d][t] = 0 BY <1>b, <2>2, NothingLeft
  <2>4. PICK S : BeginDependencies(t, S) BY DEF Await
  <2>5. deps'[t] = S /\ unreg'[t] = S /\ numBlocking'[t] = Cardinality(S)
    BY <1>a, <2>4 DEF BeginDependencies
  <2>6. pc'[t] = "updating" BY <1>a DEF Await
  <2>7. Left(t)' = S BY <2>5 DEF Left
  <2>8. Counted(t)' BY <2>3, <2>5, <2>6, <2>7 DEF Counted
  <2>9. Entries(t)' = 0 BY <1>b, <2>2 DEF Entries
  <2>10. Placed(t)'
    BY <1>1, <1>b, <1>c, <1>d, <2>1, <2>2, <2>6, <2>9 DEF Placed, HasTask, Terminal
  <2> QED BY <1>1, <2>8, <2>10
<1>2. CASE u # t
  <2>1. SameCount(u) BY <1>2, <1>a, <1>b DEF Await, BeginDependencies, SameCount
  <2>2. pc'[u] = pc[u] BY <1>2, <1>a DEF Await
  <2> QED BY <1>b, <1>c, <1>d, <2>1, <2>2, KeepBoth DEF SamePlace
<1> QED BY <1>1, <1>2

LEMMA SuspendStep ==
  ASSUME SInv, DoneStays, NEW t \in Task, Suspend(t), NEW u \in Task
  PROVE  Counted(u)' /\ Placed(u)'
<1> USE SFacts
<1>a. pc \in [Ctx -> PC] /\ ready \in [Task -> Nat] BY STypes
<1>b. UNCHANGED <<state, depVars, assigned, newQ, fill, mapQ, checking, launched>>
  BY DEF Suspend, mapVars
<1>c. SameCount(u) BY <1>b DEF SameCount, depVars
<1>d. (u \in Mapper)' <=> u \in Mapper BY <1>b DEF Mapper
<1>e. (u \in Unassigned)' <=> u \in Unassigned BY <1>b DEF Unassigned
<1>1. CASE u = t
  <2>1. pc[t] = "updating" /\ unreg[t] = {} /\ state[t] = "Running"
    BY DEF Suspend, Placed, HasTask
  <2>2. Entries(t) = 0 /\ t \notin Mapper /\ assigned[t] BY <2>1 DEF Placed
  <2>3. pc'[t] = "idle" BY <1>a DEF Suspend
  <2>4. Entries(t)' = IF numBlocking[t] = 0 THEN 1 ELSE 0
    BY <1>a, <1>b, <2>1, <2>2 DEF Suspend, Schedulable, Enqueue, Entries
  <2>5. Placed(t)'
    BY <1>1, <1>b, <1>d, <1>e, <2>1, <2>2, <2>3, <2>4 DEF Placed, HasTask, Terminal, depVars
  <2> QED BY <1>1, <1>c, <2>1, <2>5, KeepCounted
<1>2. CASE u # t
  <2>1. pc'[u] = pc[u] /\ ready'[u] = ready[u] BY <1>2, <1>a DEF Suspend, Enqueue
  <2> QED BY <1>b, <1>c, <1>d, <1>e, <2>1, KeepBoth DEF SamePlace
<1> QED BY <1>1, <1>2

LEMMA FinishStep ==
  ASSUME SInv, DoneStays, NEW t \in Task, Finish(t), NEW u \in Task
  PROVE  Counted(u)' /\ Placed(u)'
<1> USE SFacts
<1>a. pc \in [Ctx -> PC] /\ state \in [Task -> State] /\ outcome[t] \in {"Completed", "Exception"}
  BY STypes DEF SInv, IInv, TypeOK
<1>b. UNCHANGED <<depVars, assigned, newQ, fill, mapQ, checking, ready, launched>>
  BY DEF Finish, mapVars
<1>c. SameCount(u) BY <1>b DEF SameCount, depVars
<1>d. (u \in Mapper)' <=> u \in Mapper BY <1>b DEF Mapper
<1>e. (u \in Unassigned)' <=> u \in Unassigned BY <1>b DEF Unassigned
<1>1. CASE u = t
  <2>1. pc[t] = "notifying" /\ state[t] = "Running" BY DEF Finish, Placed, HasTask
  <2>2. Entries(t) = 0 /\ t \notin Mapper /\ numBlocking[t] = 0 BY <2>1 DEF Placed
  <2>3. pc'[t] = "idle" /\ state'[t] \in {"Completed", "Exception"} BY <1>a DEF Finish
  <2>4. Entries(t)' = 0 BY <1>b, <2>2 DEF Entries
  <2>5. Placed(t)'
    BY <1>1, <1>b, <1>d, <1>e, <2>2, <2>3, <2>4 DEF Placed, HasTask, Terminal, depVars, Mapper, Unassigned
  <2>6. unreg[t] = {} BY <2>2, NothingLeft
  <2> QED BY <1>1, <1>c, <2>5, <2>6, KeepCounted
<1>2. CASE u # t
  <2>1. pc'[u] = pc[u] /\ state'[u] = state[u] BY <1>2, <1>a DEF Finish
  <2> QED BY <1>b, <1>c, <1>d, <1>e, <2>1, KeepBoth DEF SamePlace
<1> QED BY <1>1, <1>2

LEMMA IdleStep ==
  ASSUME SInv, DoneStays, MainExit \/ UNCHANGED vars, NEW u \in Task
  PROVE  Counted(u)' /\ Placed(u)'
<1>1. UNCHANGED <<state, depVars, mapVars, ready, launched>>
  BY DEF MainExit, vars, taskVars, schedVars
<1>2. pc'[u] = pc[u] BY SFacts, STypes DEF MainExit, vars, taskVars
<1> QED
  BY <1>1, <1>2, KeepBoth DEF SameCount, SamePlace, depVars, mapVars, Mapper, Unassigned

LEMMA NextCountedPlaced ==
  ASSUME SInv, [Next]_vars, [~LastNotified]_vars, NEW u \in Task
  PROVE  Counted(u)' /\ Placed(u)'
<1>1. DoneStays BY NextDoneStays DEF SInv
<1>2. ASSUME NEW t \in Task, NEW d \in Task, Notify(d, t), ~LastNotified
      PROVE  Counted(u)' /\ Placed(u)'
  BY <1>1, <1>2, NotifyStep
<1>3. CASE UNCHANGED vars BY <1>1, <1>3, IdleStep
<1>4. CASE ~LastNotified /\ Next
  BY <1>1, <1>2, <1>4, BeginSpawnStep, BodyStep, RegisterStep, ConstructedStep, MapperStep,
     EnqueueStep, LaunchStep, StartRunStep, AwaitStep, SuspendStep, FinishStep, IdleStep
  DEF Next, Stopped
<1> QED BY <1>3, <1>4

-----------------------------------------------------------------------------
(* The other parts of the invariant.                                       *)

LEMMA NextQueuesDisjoint == SInv /\ [Next]_vars => QueuesDisjoint'
<1> SUFFICES ASSUME SInv, [Next]_vars PROVE QueuesDisjoint'
  OBVIOUS
<1>a. QueuesDisjoint BY DEF SInv
<1>1. ASSUME NEW t \in Task, Publish(t) PROVE QueuesDisjoint'
  <2>1. t \notin fill \cup mapQ \cup checking
    BY <1>1 DEF Publish, SInv, IInv, MapperKnows, HasTask, Terminal
  <2> QED BY <1>1, <1>a, <2>1 DEF Publish, QueuesDisjoint
<1>2. ASSUME FillBegin \/ \E t \in Task : FillExamine(t) \/ AssignFails(t) \/ SetAssigned(t)
      PROVE  QueuesDisjoint'
  BY <1>2, <1>a DEF FillExamine, AssignFails, SetAssigned, FillBegin, QueuesDisjoint
<1>3. ASSUME NEW t \in Task, EnqueueUnblocked(t) PROVE QueuesDisjoint'
  BY <1>3, <1>a DEF EnqueueUnblocked, QueuesDisjoint
<1>4. ASSUME UNCHANGED <<newQ, fill, mapQ, checking>> PROVE QueuesDisjoint'
  BY <1>4, <1>a DEF QueuesDisjoint
<1> QED
  BY <1>1, <1>2, <1>3, <1>4
  DEF Next, Stopped, vars, mapVars, BeginSpawn, SpawnRejected, Register, Notify, BodyEnds,
      EndInit, Launch, StartRun, Await, Suspend, Finish, MainExit

LEMMA NextActiveExact == SInv /\ [Next]_vars => ActiveExact'
<1> SUFFICES ASSUME SInv, [Next]_vars PROVE ActiveExact'
  OBVIOUS
<1>a. /\ state \in [Task -> State] /\ pc \in [Ctx -> PC] /\ Main \in Ctx /\ Main \notin Task
      /\ active \in Int /\ stopped \in BOOLEAN
  BY STypes, ProgramAssumption DEF SInv, IInv, TypeOK, Ctx, ProgramAssumption
<1>b. ActiveExact BY DEF SInv
<1>c. RunningTasks \in SUBSET Task /\ IsFiniteSet(RunningTasks) /\ Cardinality(RunningTasks) \in Nat
  BY TaskSetSize DEF RunningTasks
<1>d. ASSUME UNCHANGED <<active, stopped>>, RunningTasks' = RunningTasks,
             MainEnded' <=> MainEnded
      PROVE  ActiveExact'
  BY <1>b, <1>d DEF ActiveExact
<1>1. ASSUME NEW t \in Task, NEW c \in Ctx, BeginSpawn(c, t) PROVE ActiveExact'
  <2>1. RunningTasks' = RunningTasks BY <1>1, <1>a DEF BeginSpawn, RunningTasks
  <2>2. MainEnded' <=> MainEnded BY <1>1, <1>a DEF BeginSpawn, MainEnded
  <2> QED BY <1>1, <1>d, <2>1, <2>2 DEF BeginSpawn, schedVars
<1>2. ASSUME NEW t \in Task, NEW c \in Ctx, SpawnRejected(c, t) PROVE ActiveExact'
  <2>1. RunningTasks' = RunningTasks BY <1>2 DEF SpawnRejected, RunningTasks
  <2>2. CASE c = Main
    <3>1. ~MainEnded /\ MainEnded' /\ DecrActive
      BY <1>2, <1>a, <2>2 DEF SpawnRejected, MainEnded
    <3>2. active' = Cardinality(RunningTasks') BY <1>a, <1>b, <1>c, <2>1, <3>1 DEF ActiveExact, DecrActive
    <3>3. stopped' => RunningTasks' = {}
      BY <1>b, <1>c, <2>1, <3>1, <3>2, FS_EmptySet DEF ActiveExact, DecrActive
    <3> QED BY <1>c, <2>1, <3>1, <3>2, <3>3 DEF ActiveExact
  <2>3. CASE c # Main
    <3>1. MainEnded' <=> MainEnded BY <1>2, <1>a, <2>3 DEF SpawnRejected, MainEnded
    <3> QED BY <1>2, <1>d, <2>1, <2>3, <3>1 DEF SpawnRejected
  <2> QED BY <2>2, <2>3
<1>3. ASSUME NEW t \in Task, EndInit(t) PROVE ActiveExact'
  <2>1. RunningTasks' = RunningTasks BY <1>3, <1>a DEF EndInit, RunningTasks
  <2> QED BY <1>3, <1>d, <2>1 DEF EndInit, MainEnded, schedVars
<1>4. ASSUME NEW t \in Task, Publish(t) PROVE ActiveExact'
  <2>1. t \notin RunningTasks /\ RunningTasks' = RunningTasks \cup {t}
    BY <1>4, <1>a DEF Publish, RunningTasks
  <2>2. Cardinality(RunningTasks') = Cardinality(RunningTasks) + 1
    BY <1>c, <2>1, FS_AddElement
  <2>3. pc[Parent[t]] = "spawning" /\ Parent[t] \in Ctx
    BY <1>4, TaskFacts DEF Publish, SInv, IInv, SpawnerWaits
  <2>4. MainEnded' <=> MainEnded BY <1>4, <1>a, <2>3 DEF Publish, MainEnded
  <2>5. Parent[t] \in Task => Parent[t] \in RunningTasks
    BY <2>3, SFacts DEF Placed, HasTask, RunningTasks
  <2>6. ~stopped BY <1>b, <2>3, <2>5 DEF ActiveExact, MainEnded, Ctx
  <2>7. active' = active + 1 /\ ~stopped' BY <1>4, <2>6 DEF Publish
  <2> QED BY <1>a, <1>b, <1>c, <2>2, <2>4, <2>7 DEF ActiveExact
<1>5. ASSUME NEW t \in Task,
             \/ \E r \in {"Completed", "Exception"} : BodyEnds(t, r)
             \/ StartRun(t) \/ Await(t) \/ Suspend(t)
      PROVE  ActiveExact'
  <2>1. RunningTasks' = RunningTasks
    BY <1>5 DEF BodyEnds, StartRun, Await, Suspend, RunningTasks
  <2>2. MainEnded' <=> MainEnded
    BY <1>5, <1>a DEF BodyEnds, StartRun, Await, Suspend, MainEnded
  <2>3. UNCHANGED <<active, stopped>>
    BY <1>5 DEF BodyEnds, StartRun, Await, Suspend, schedVars
  <2> QED BY <1>d, <2>1, <2>2, <2>3
<1>6. ASSUME NEW t \in Task, Finish(t) PROVE ActiveExact'
  <2>1. state[t] = "Running" /\ outcome[t] \in {"Completed", "Exception"}
    BY <1>6, SFacts DEF Finish, Placed, HasTask, SInv, IInv, TypeOK
  <2>2. t \in RunningTasks /\ RunningTasks' = RunningTasks \ {t}
    BY <1>6, <1>a, <2>1 DEF Finish, RunningTasks
  <2>3. Cardinality(RunningTasks') = Cardinality(RunningTasks) - 1 /\ IsFiniteSet(RunningTasks')
    BY <1>c, <2>2, FS_RemoveElement, FS_Subset
  <2>4. MainEnded' <=> MainEnded BY <1>6, <1>a DEF Finish, MainEnded
  <2>5. DecrActive /\ ~stopped BY <1>6, <1>b, <2>2 DEF Finish, ActiveExact
  <2>6. active' = Cardinality(RunningTasks') + (IF MainEnded' THEN 0 ELSE 1)
    BY <1>a, <1>b, <1>c, <2>3, <2>4, <2>5 DEF ActiveExact, DecrActive
  <2>7. stopped' => active' = 0 BY <2>5 DEF DecrActive
  <2>8. Cardinality(RunningTasks') \in Nat BY <2>3, FS_CardinalityType
  <2>9. stopped' => MainEnded' /\ Cardinality(RunningTasks') = 0
    BY <2>6, <2>7, <2>8
  <2> QED BY <2>3, <2>6, <2>9, FS_EmptySet DEF ActiveExact
<1>7. ASSUME MainExit PROVE ActiveExact'
  <2>1. RunningTasks' = RunningTasks BY <1>7 DEF MainExit, RunningTasks
  <2>2. ~MainEnded /\ MainEnded' /\ DecrActive BY <1>7, <1>a DEF MainExit, MainEnded
  <2>3. active' = Cardinality(RunningTasks') BY <1>a, <1>b, <1>c, <2>1, <2>2 DEF ActiveExact, DecrActive
  <2>4. stopped' => RunningTasks' = {}
    BY <1>b, <1>c, <2>1, <2>2, <2>3, FS_EmptySet DEF ActiveExact, DecrActive
  <2> QED BY <1>c, <2>1, <2>2, <2>3, <2>4 DEF ActiveExact
<1>8. ASSUME UNCHANGED <<state, pc, active, stopped>> PROVE ActiveExact'
  BY <1>8, <1>d DEF RunningTasks, MainEnded
<1> QED
  BY <1>1, <1>2, <1>3, <1>4, <1>5, <1>6, <1>7, <1>8
  DEF Next, Stopped, vars, taskVars, schedVars, Register, Notify, FillExamine, AssignFails,
      SetAssigned, EnqueueUnblocked, Launch, FillBegin

LEMMA NextSInv == SInv /\ [Next]_vars /\ [~LastNotified]_vars => SInv'
<1> SUFFICES ASSUME SInv, [Next]_vars, [~LastNotified]_vars PROVE SInv'
  OBVIOUS
<1>1. IInv' /\ CheckingAssigned' BY NextInv, NextCheckingAssigned DEF SInv
<1>2. \A u \in Task : Counted(u)' /\ Placed(u)' BY NextCountedPlaced
<1> QED BY <1>1, <1>2, NextQueuesDisjoint, NextActiveExact DEF SInv

\* The invariant of every behaviour without the last notification of the
\* task that the mapper is checking.
THEOREM RaceFreeInvariant == Spec /\ [][~LastNotified]_vars => []SInv
BY InitSInv, NextSInv, PTL DEF Spec

-----------------------------------------------------------------------------
(* The properties.                                                         *)

\* A task is in the ready queues, with a worker or executing at most once.
THEOREM TasksQueuedOnce == Spec /\ [][~LastNotified]_vars => []QueuedOnce
<1>1. SInv => QueuedOnce
  <2> SUFFICES ASSUME SInv, NEW t \in Task
               PROVE  ready[t] + launched[t] + (IF pc[t] = "idle" THEN 0 ELSE 1) <= 1
    BY DEF QueuedOnce
  <2>1. Entries(t) \in Nat /\ Entries(t) <= 1 /\ (pc[t] # "idle" => Entries(t) = 0)
    BY SFacts DEF Placed, HasTask, Entries
  <2> QED BY <2>1 DEF Entries
<1> QED BY <1>1, RaceFreeInvariant, PTL

\* The scheduler stops only when every spawned task has finished.
THEOREM SchedulerStopsLast == Spec /\ [][~LastNotified]_vars => []StopsLast
<1>1. SInv => StopsLast BY DEF SInv, ActiveExact, StopsLast, RunningTasks, HasTask
<1> QED BY <1>1, RaceFreeInvariant, PTL

\* A spawned task that is not executing is with the mapper, queued, with a
\* worker, or on the list of a task that has not finished, at its barriers too.
THEOREM NoTaskIsForgotten == Spec /\ [][~LastNotified]_vars => []NoTaskForgotten
<1>1. SInv => NoTaskForgotten
  <2> SUFFICES ASSUME SInv, NEW t \in Task, state[t] = "Running", pc[t] = "idle", t \notin Mapper,
                      ~(ready[t] + launched[t] > 0)
               PROVE  \E d \in Task : dependents[d][t] > 0 /\ (pc[d] # "idle" \/ ~Terminal(d))
    BY DEF NoTaskForgotten, Mapper
  <2>1. numBlocking[t] # 0 BY SFacts DEF Placed, Entries
  <2>2. Left(t) # {} BY <2>1, SFacts, FS_EmptySet DEF Counted
  <2>3. unreg[t] = {} BY SFacts DEF Counted
  <2>4. PICK d \in deps[t] : dependents[d][t] > 0 BY <2>2, <2>3 DEF Left
  <2>5. d \in Task BY <2>4, SFacts
  <2>6. ~Terminal(d) BY <2>4, <2>5 DEF SInv, IInv, FinishedListsNobody
  <2> QED BY <2>4, <2>5, <2>6
<1> QED BY <1>1, RaceFreeInvariant, PTL

\* A terminal state is never replaced: no second run of a task can do so.
THEOREM TerminalStatesAreFinal == Spec /\ [][~LastNotified]_vars => TerminalIsFinal
<1>1. SInv /\ [Next]_vars => [\A t \in Task : Terminal(t) => state'[t] = state[t]]_vars
  <2> SUFFICES ASSUME SInv, Next, NEW e \in Task, Terminal(e) PROVE state'[e] = state[e]
    OBVIOUS
  <2>a. state \in [Task -> State] BY STypes
  <2>1. ASSUME NEW t \in Task, NEW c \in Ctx, BeginSpawn(c, t) PROVE state'[e] = state[e]
    BY <2>1, <2>a DEF BeginSpawn, Terminal
  <2>2. ASSUME NEW t \in Task, EndInit(t) \/ Publish(t) PROVE state'[e] = state[e]
    BY <2>2, <2>a DEF EndInit, Publish, Terminal
  <2>3. ASSUME NEW t \in Task, Finish(t) PROVE state'[e] = state[e]
    <3>1. t # e BY <2>3, SFacts DEF Finish, Placed
    <3> QED BY <2>3, <2>a, <3>1 DEF Finish
  <2>4. ASSUME UNCHANGED state PROVE state'[e] = state[e]
    BY <2>4
  <2> QED
    BY <2>1, <2>2, <2>3, <2>4
    DEF Next, Stopped, vars, taskVars, SpawnRejected, Register, Notify, BodyEnds, FillExamine,
        AssignFails, SetAssigned, EnqueueUnblocked, Launch, StartRun, Await, Suspend,
        MainExit, FillBegin
<1> QED BY <1>1, RaceFreeInvariant, PTL DEF Spec, TerminalIsFinal

-----------------------------------------------------------------------------
(* The runtime implements the task program of TaskGraph: each of its steps  *)
(* is a step of one task there, or none.                                    *)

BarrierOf(t) == IF step[t] > 0 THEN deps[t] ELSE {}

SameAbstract(u) == StatusOf(u)' = StatusOf(u) /\ BarrierOf(u)' = BarrierOf(u)

LEMMA AbstractMove ==
  ASSUME NEW t \in Task, NEW from, NEW to, StatusOf(t) = from, StatusOf(t)' = to,
         \A u \in Task \ {t} : StatusOf(u)' = StatusOf(u)
  PROVE  Graph!Move(t, from, to)
BY DEF Graph!Move

LEMMA AbstractStutter ==
  ASSUME \A u \in Task : SameAbstract(u)
  PROVE  UNCHANGED Graph!vars
BY DEF SameAbstract, BarrierOf, Graph!vars

\* Bodies that have ended belong to tasks that are finished there.
LEMMA DoneIsFinished ==
  ASSUME SInv, NEW d \in Task, BodyDone(d)
  PROVE  StatusOf(d) = "finished"
BY SFacts DEF StatusOf, BodyDone, HasTask, Placed

LEMMA BeginRefines ==
  ASSUME SInv, DoneStays, NEW t \in Task, StartRun(t)
  PROVE  Graph!Next
<1> USE SFacts
<1>a. pc \in [Ctx -> PC] BY STypes
<1>b. UNCHANGED <<state, step, deps>> BY DEF StartRun, depVars
<1>1. state[t] = "Running" /\ pc[t] = "idle" /\ numBlocking[t] = 0
  BY DEF StartRun, MutexFree, Placed, HasTask, Entries, Terminal
<1>2. pc'[t] = "body" BY <1>1, <1>a DEF StartRun
<1>3. StatusOf(t)' = "executing"
  BY <1>1, <1>2, <1>b DEF StatusOf, HasTask, BodyDone, Terminal
<1>4. \A u \in Task \ {t} : pc'[u] = pc[u] BY <1>a DEF StartRun
<1>5. \A u \in Task \ {t} : StatusOf(u)' = StatusOf(u)
  BY <1>4, <1>b DEF StatusOf, HasTask, BodyDone, Terminal
<1>6. \A u \in Task : BarrierOf(u)' = BarrierOf(u) BY <1>b DEF BarrierOf
<1>7. CASE step[t] = 0
  <2>1. StatusOf(t) = "spawned"
    BY <1>1, <1>7 DEF StatusOf, HasTask, BodyDone, Terminal
  <2>2. ~Started(t) BY <1>1, <1>7 DEF Started, Terminal
  <2>3. Cardinality(Pending(t)) = 0 /\ \A d \in Deps[t] \ Pending(t) : BodyDone(d)
    BY <1>1, <2>2 DEF TaskInv, CounterAgrees
  <2>4. Pending(t) = {}
    <3>1. IsFiniteSet(Pending(t)) BY TaskFacts, TaskSetSize DEF Pending, SInv
    <3> QED BY <2>3, <3>1, FS_EmptySet
  <2>5. \A d \in Deps[t] : d \in Task /\ BodyDone(d) BY <2>3, <2>4, TaskFacts DEF SInv
  <2>6. \A d \in Deps[t] : StatusOf(d) = "finished" BY <2>5, DoneIsFinished
  <2>7. Graph!Finished(Deps[t]) BY <2>5, <2>6 DEF Graph!Finished
  <2>8. Graph!Move(t, "spawned", "executing") BY <1>3, <1>5, <2>1, AbstractMove
  <2>9. Graph!Start(t) BY <1>6, <2>7, <2>8 DEF Graph!Start, BarrierOf
  <2> QED BY <2>9 DEF Graph!Next
<1>8. CASE step[t] # 0
  <2>1. step[t] > 0 BY <1>8, TaskFacts DEF SInv
  <2>2. StatusOf(t) = "suspended"
    BY <1>1, <2>1 DEF StatusOf, HasTask, BodyDone, Terminal
  <2>3. \A d \in deps[t] : d \in Task /\ BodyDone(d) BY <1>1, NothingLeft DEF Counted
  <2>4. \A d \in deps[t] : StatusOf(d) = "finished" BY <2>3, DoneIsFinished
  <2>5. Graph!Finished(deps[t]) BY <2>3, <2>4 DEF Graph!Finished
  <2>6. Graph!Move(t, "suspended", "executing") BY <1>3, <1>5, <2>2, AbstractMove
  <2>7. Graph!Resume(t) BY <1>6, <2>1, <2>5, <2>6 DEF Graph!Resume, BarrierOf
  <2> QED BY <2>7 DEF Graph!Next
<1> QED BY <1>7, <1>8

LEMMA AwaitRefines ==
  ASSUME SInv, NEW t \in Task, Await(t)
  PROVE  Graph!Next
<1> USE SFacts
<1>a. /\ pc \in [Ctx -> PC] /\ step \in [Task -> Nat] /\ deps \in [Task -> SUBSET Task]
      /\ deps'[t] \in SUBSET Task
  BY STypes, NextTypeOK DEF SInv, IInv, TypeOK, Next
<1>b. UNCHANGED state BY DEF Await
<1>1. pc[t] = "body" /\ state[t] = "Running" /\ pc'[t] = "updating" /\ step'[t] > 0
  BY <1>a DEF Await, Placed, HasTask
<1>2. StatusOf(t) = "executing" /\ StatusOf(t)' = "suspended"
  BY <1>1, <1>b DEF StatusOf, HasTask, BodyDone, Terminal
<1>3. \A u \in Task \ {t} : pc'[u] = pc[u] /\ step'[u] = step[u] /\ deps'[u] = deps[u]
  BY <1>a DEF Await, BeginDependencies
<1>4. \A u \in Task \ {t} : StatusOf(u)' = StatusOf(u) /\ BarrierOf(u)' = BarrierOf(u)
  BY <1>3, <1>b DEF StatusOf, BarrierOf, HasTask, BodyDone, Terminal
<1>5. BarrierOf(t)' = deps'[t] BY <1>1 DEF BarrierOf
<1>6. Graph!Move(t, "executing", "suspended") BY <1>2, <1>4, AbstractMove
<1>7. [u \in Task |-> BarrierOf(u)'] = [[u \in Task |-> BarrierOf(u)] EXCEPT ![t] = deps'[t]]
  BY <1>4, <1>5
<1>8. Graph!Suspend(t) BY <1>a, <1>6, <1>7 DEF Graph!Suspend, BarrierOf
<1> QED BY <1>8 DEF Graph!Next

\* The body ends, by itself or because a spawn is rejected.
LEMMA EndRefines ==
  ASSUME SInv, NEW c \in Task, pc[c] = "body", pc' = [pc EXCEPT ![c] = "notifying"],
         UNCHANGED <<state, step, deps>>
  PROVE  Graph!Next
<1> USE SFacts
<1>a. pc \in [Ctx -> PC] BY STypes
<1>1. state[c] = "Running" BY DEF Placed, HasTask
<1>2. StatusOf(c) = "executing" /\ StatusOf(c)' = "finished"
  BY <1>1, <1>a DEF StatusOf, HasTask, BodyDone, Terminal
<1>3. \A u \in Task \ {c} : StatusOf(u)' = StatusOf(u)
  BY <1>a DEF StatusOf, HasTask, BodyDone, Terminal
<1>4. \A u \in Task : BarrierOf(u)' = BarrierOf(u) BY DEF BarrierOf
<1>5. Graph!Move(c, "executing", "finished") BY <1>2, <1>3, AbstractMove
<1>6. Graph!Finish(c) BY <1>4, <1>5 DEF Graph!Finish, BarrierOf
<1> QED BY <1>6 DEF Graph!Next

LEMMA PublishRefines ==
  ASSUME SInv, NEW t \in Task, Publish(t)
  PROVE  Graph!Next
<1> USE SFacts
<1>a. pc \in [Ctx -> PC] /\ state \in [Task -> State] BY STypes
<1>b. UNCHANGED <<step, deps>> BY DEF Publish, depVars
<1>1. state[t] = "Registered" /\ pc[Parent[t]] = "spawning" /\ pc[t] = "idle" /\ step[t] = 0
  BY TaskFacts DEF Publish, SInv, IInv, SpawnerWaits, Placed, HasTask, Terminal, TaskInv, New, Started
<1>2. StatusOf(t) = "unspawned" BY <1>1 DEF StatusOf, HasTask, Terminal
<1>3. pc'[t] = "idle" /\ state'[t] = "Running" BY <1>1, <1>a DEF Publish
<1>4. StatusOf(t)' = "spawned"
  BY <1>1, <1>3, <1>b DEF StatusOf, HasTask, BodyDone, Terminal
<1>5. ASSUME NEW u \in Task \ {t} PROVE StatusOf(u)' = StatusOf(u)
  <2>1. state'[u] = state[u] BY <1>a DEF Publish
  <2>2. CASE pc'[u] = pc[u]
    BY <2>1, <2>2, <1>b DEF StatusOf, HasTask, BodyDone, Terminal
  <2>3. CASE pc'[u] # pc[u]
    <3>1. pc[u] = "spawning" /\ pc'[u] = "body" BY <1>a, <1>1, <2>3 DEF Publish
    <3> QED BY <2>1, <3>1 DEF StatusOf, HasTask, BodyDone, Terminal
  <2> QED BY <2>2, <2>3
<1>6. \A u \in Task : BarrierOf(u)' = BarrierOf(u) BY <1>b DEF BarrierOf
<1>7. Graph!Move(t, "unspawned", "spawned") BY <1>2, <1>4, <1>5, AbstractMove
<1>8. Graph!Spawn(t) BY <1>6, <1>7 DEF Graph!Spawn, BarrierOf
<1> QED BY <1>8 DEF Graph!Next

LEMMA NextRefines ==
  ASSUME SInv, [Next]_vars
  PROVE  [Graph!Next]_(Graph!vars)
<1> USE SFacts
<1>a. /\ pc \in [Ctx -> PC] /\ state \in [Task -> State] /\ step \in [Task -> Nat]
      /\ deps \in [Task -> SUBSET Task] /\ Main \notin Task
  BY STypes, ProgramAssumption DEF SInv, IInv, TypeOK, ProgramAssumption
<1>b. DoneStays BY NextDoneStays DEF SInv
<1>1. ASSUME NEW t \in Task, NEW c \in Ctx, BeginSpawn(c, t) PROVE \A u \in Task : SameAbstract(u)
  <2> SUFFICES ASSUME NEW u \in Task PROVE SameAbstract(u)
    OBVIOUS
  <2>1. pc[c] = "body" /\ state[t] = "Unspawned" /\ step[t] = 0
    <3>1. state[t] = "Unspawned" BY <1>1 DEF BeginSpawn
    <3>2. ~Started(t) BY <3>1 DEF TaskInv, New
    <3> QED BY <1>1, <1>a, <3>1, <3>2 DEF BeginSpawn, Started
  <2>2. BarrierOf(u)' = BarrierOf(u)
    BY <1>1, <1>a, <2>1 DEF BeginSpawn, BeginDependencies, BarrierOf
  <2>3. HasTask(u)' = HasTask(u) /\ Terminal(u)' = Terminal(u)
    BY <1>1, <1>a, <2>1 DEF BeginSpawn, HasTask, Terminal
  <2>4. pc'[u] = pc[u] \/ (pc[u] = "body" /\ pc'[u] = "spawning")
    BY <1>1, <1>a, <2>1 DEF BeginSpawn
  <2>5. step' = step BY <1>1 DEF BeginSpawn
  <2> QED BY <2>2, <2>3, <2>4, <2>5 DEF SameAbstract, StatusOf, BodyDone
<1>2. ASSUME NEW t \in Task, EndInit(t) PROVE \A u \in Task : SameAbstract(u)
  <2>1. UNCHANGED <<pc, step, deps>> BY <1>2 DEF EndInit, depVars
  <2>2. \A u \in Task : HasTask(u)' = HasTask(u) /\ Terminal(u)' = Terminal(u)
    BY <1>2, <1>a DEF EndInit, HasTask, Terminal
  <2> QED BY <2>1, <2>2 DEF SameAbstract, StatusOf, BarrierOf, BodyDone
<1>3. ASSUME NEW t \in Task, Suspend(t) PROVE \A u \in Task : SameAbstract(u)
  <2> SUFFICES ASSUME NEW u \in Task PROVE SameAbstract(u)
    OBVIOUS
  <2>1. UNCHANGED <<state, step, deps>> BY <1>3 DEF Suspend, depVars
  <2>2. pc'[u] = pc[u] \/ (pc[u] = "updating" /\ pc'[u] = "idle")
    BY <1>3, <1>a DEF Suspend
  <2> QED BY <2>1, <2>2 DEF SameAbstract, StatusOf, BarrierOf, HasTask, BodyDone, Terminal
<1>4. ASSUME NEW t \in Task, Finish(t) PROVE \A u \in Task : SameAbstract(u)
  <2> SUFFICES ASSUME NEW u \in Task PROVE SameAbstract(u)
    OBVIOUS
  <2>1. UNCHANGED <<step, deps>> BY <1>4 DEF Finish, depVars
  <2>2. CASE u = t
    <3>1. pc[t] = "notifying" /\ state[t] = "Running" BY <1>4 DEF Finish, Placed, HasTask
    <3>2. state'[t] \in {"Completed", "Exception"}
      BY <1>4, <1>a DEF Finish, SInv, IInv, TypeOK
    <3> QED BY <2>1, <2>2, <3>1, <3>2 DEF SameAbstract, StatusOf, BarrierOf, HasTask, BodyDone, Terminal
  <2>3. CASE u # t
    <3>1. state'[u] = state[u] /\ pc'[u] = pc[u] BY <1>4, <1>a, <2>3 DEF Finish
    <3> QED BY <2>1, <3>1 DEF SameAbstract, StatusOf, BarrierOf, HasTask, BodyDone, Terminal
  <2> QED BY <2>2, <2>3
<1>5. ASSUME NEW t \in Task, NEW c \in Ctx, SpawnRejected(c, t)
      PROVE  Graph!Next \/ \A u \in Task : SameAbstract(u)
  <2>1. UNCHANGED <<state, step, deps>> /\ pc[c] = "body" BY <1>5 DEF SpawnRejected, depVars
  <2>2. CASE c = Main
    <3>1. \A u \in Task : pc'[u] = pc[u] BY <1>5, <1>a, <2>2 DEF SpawnRejected
    <3> QED BY <2>1, <3>1 DEF SameAbstract, StatusOf, BarrierOf, HasTask, BodyDone, Terminal
  <2>3. CASE c # Main
    <3>1. c \in Task BY <2>3 DEF Ctx
    <3> QED BY <1>5, <2>1, <2>3, <3>1, EndRefines DEF SpawnRejected
  <2> QED BY <2>2, <2>3
<1>6. ASSUME NEW t \in Task, NEW r \in {"Completed", "Exception"}, BodyEnds(t, r) PROVE Graph!Next
  BY <1>6, EndRefines DEF BodyEnds, depVars
<1>7. ASSUME UNCHANGED <<state, step, deps>>, \A u \in Task : pc'[u] = pc[u]
      PROVE  \A u \in Task : SameAbstract(u)
  BY <1>7 DEF SameAbstract, StatusOf, BarrierOf, HasTask, BodyDone, Terminal
<1>8. ASSUME MainExit PROVE \A u \in Task : SameAbstract(u)
  <2>1. \A u \in Task : pc'[u] = pc[u] BY <1>8, <1>a DEF MainExit
  <2> QED BY <1>7, <1>8, <2>1 DEF MainExit, depVars
<1>9. ASSUME UNCHANGED <<state, step, deps, pc>> PROVE \A u \in Task : SameAbstract(u)
  BY <1>7, <1>9
<1>10. Graph!Next \/ \A u \in Task : SameAbstract(u)
  BY <1>b, <1>1, <1>2, <1>3, <1>4, <1>5, <1>6, <1>8, <1>9, BeginRefines, AwaitRefines, PublishRefines
  DEF Next, Stopped, vars, taskVars, depVars, Register, Notify, FillExamine, AssignFails,
      SetAssigned, EnqueueUnblocked, Launch, FillBegin
<1> QED BY <1>10, AbstractStutter

\* Bodies start after their dependencies and go on after their barriers, and
\* a body ends once.
THEOREM RuntimeImplementsTaskGraph == Spec /\ [][~LastNotified]_vars => ImplementsTaskGraph
<1>1. Init => Graph!Init
  <2> SUFFICES ASSUME Init PROVE Graph!Init
    OBVIOUS
  <2>1. \A t \in Task : StatusOf(t) = "unspawned" /\ BarrierOf(t) = {}
    BY DEF Init, StatusOf, BarrierOf, HasTask, Terminal
  <2> QED BY <2>1 DEF Graph!Init, BarrierOf
<1>2. SInv /\ [Next]_vars => [Graph!Next]_(Graph!vars)
  BY NextRefines
<1> QED BY <1>1, <1>2, RaceFreeInvariant, PTL DEF Spec, ImplementsTaskGraph, Graph!Spec

-----------------------------------------------------------------------------
(* Programs whose tasks wait at barriers only.  The mapper checks a task    *)
(* whose body has not begun, and nothing blocks it.                         *)

MapperNew == \A t \in Mapper : step[t] = 0

LEMMA NextMapperNew == SInv /\ MapperNew /\ [Next]_vars => MapperNew'
<1> SUFFICES ASSUME SInv, MapperNew, [Next]_vars, NEW e \in Mapper' PROVE step'[e] = 0
  BY DEF MapperNew
<1>1. ASSUME NEW t \in Task, Publish(t) PROVE step'[e] = 0
  <2>1. step[t] = 0 BY <1>1, SFacts DEF Publish, TaskInv, New, Started, IInv, SInv, TypeOK
  <2>2. e = t \/ e \in Mapper BY <1>1 DEF Publish, Mapper
  <2> QED BY <1>1, <2>1, <2>2 DEF Publish, MapperNew
<1>2. ASSUME NEW t \in Task, Await(t) PROVE step'[e] = 0
  <2>1. e \in Mapper BY <1>2 DEF Await, Mapper, mapVars
  <2>2. e # t BY <1>2, <2>1, SFacts DEF Await, Placed
  <2>3. e \in Task BY <2>1, STypes DEF Mapper
  <2> QED BY <1>2, <2>1, <2>2, <2>3 DEF Await, MapperNew, SInv, IInv, TypeOK
<1>3. ASSUME UNCHANGED step, Mapper' \subseteq Mapper PROVE step'[e] = 0
  BY <1>3 DEF MapperNew
<1>4. ASSUME FillBegin \/ \E t \in Task : \/ FillExamine(t) \/ AssignFails(t)
                                          \/ SetAssigned(t) \/ EnqueueUnblocked(t)
      PROVE  UNCHANGED step /\ Mapper' \subseteq Mapper
  BY <1>4 DEF FillBegin, FillExamine, AssignFails, SetAssigned, EnqueueUnblocked, Mapper, taskVars
<1>5. ASSUME UNCHANGED <<step, newQ, fill, mapQ, checking>>
      PROVE  UNCHANGED step /\ Mapper' \subseteq Mapper
  BY <1>5 DEF Mapper
<1> QED
  BY <1>1, <1>2, <1>3, <1>4, <1>5
  DEF Next, Stopped, vars, taskVars, mapVars, BeginSpawn, SpawnRejected, Register, Notify,
      BodyEnds, EndInit, Launch, StartRun, Suspend, Finish, MainExit

LEMMA NeverLastNotified ==
  ASSUME BarriersOnly, SInv, MapperNew
  PROVE  ~LastNotified
<1> SUFFICES ASSUME NEW t \in checking, numBlocking[t] = 1 PROVE FALSE
  BY DEF LastNotified
<1>1. t \in Task /\ t \in Mapper BY STypes DEF Mapper
<1>2. ~Started(t) BY <1>1, SFacts DEF MapperNew, Placed, Started
<1>3. state[t] # "Unspawned" BY <1>1 DEF SInv, IInv, MapperKnows, Mapper, HasTask, Terminal
<1>4. numBlocking[t] = Cardinality(Pending(t))
  BY <1>1, <1>2, <1>3, SFacts DEF TaskInv, CounterAgrees
<1>5. Pending(t) = {} BY <1>1 DEF BarriersOnly, Pending
<1> QED BY <1>4, <1>5, FS_EmptySet

LEMMA BarriersRaceFree ==
  ASSUME BarriersOnly
  PROVE  Spec => [][~LastNotified]_vars
<1>1. Init => SInv /\ MapperNew
  <2>1. Init => MapperNew BY DEF Init, MapperNew, Mapper
  <2> QED BY <2>1, InitSInv
<1>2. SInv /\ MapperNew /\ [Next]_vars => SInv' /\ MapperNew' /\ [~LastNotified]_vars
  BY NeverLastNotified, NextSInv, NextMapperNew
<1> QED BY <1>1, <1>2, PTL DEF Spec

\* A program that spawns without dependencies and waits at barriers has none
\* of the races, and so has all of the properties.
THEOREM BarriersAreSafe ==
  ASSUME BarriersOnly
  PROVE  Spec => []QueuedOnce /\ []StopsLast /\ []NoTaskForgotten /\ TerminalIsFinal
               /\ ImplementsTaskGraph
BY BarriersRaceFree, TasksQueuedOnce, SchedulerStopsLast, NoTaskIsForgotten,
   TerminalStatesAreFinal, RuntimeImplementsTaskGraph, PTL

-----------------------------------------------------------------------------
(* Who waits for whose mutex: in a structured program, no set of threads.   *)

\* What a task registers with: the dependencies of its spawn, and then those
\* of the barrier it is at; ids without a task are not among them.
DepsKnown == \A t \in Task :
    /\ step[t] = 0 => deps[t] \subseteq Deps[t]
    /\ step[t] > 0 => step[t] \in 1..Len(Awaits[t]) /\ deps[t] \subseteq Awaits[t][step[t]]
    /\ \A d \in deps[t] : HasTask(d)

MInv == SInv /\ MapperNew /\ DepsKnown

LEMMA NextDepsKnown == SInv /\ DepsKnown /\ [Next]_vars => DepsKnown'
<1> SUFFICES ASSUME SInv, DepsKnown, [Next]_vars PROVE DepsKnown'
  OBVIOUS
<1>a. step \in [Task -> Nat] /\ deps \in [Task -> SUBSET Task]
  BY DEF SInv, IInv, TypeOK
<1>b. \A d \in Task : HasTask(d) => HasTask(d)'
  BY NextTaskStays DEF SInv
<1>1. ASSUME NEW t \in Task, NEW c \in Ctx, BeginSpawn(c, t) PROVE DepsKnown'
  <2>1. step[t] = 0 BY <1>1, <1>a, SFacts DEF BeginSpawn, TaskInv, New, Started
  <2>2. /\ step' = step /\ deps' = [deps EXCEPT ![t] = Deps[t]]
        /\ \A d \in Deps[t] : HasTask(d)
    BY <1>1 DEF BeginSpawn, BeginDependencies
  <2>3. Deps[t] \in SUBSET Task BY TaskFacts DEF SInv
  <2> QED BY <1>a, <1>b, <2>1, <2>2, <2>3 DEF DepsKnown
<1>2. ASSUME NEW t \in Task, Await(t) PROVE DepsKnown'
  <2>1. /\ step' = [step EXCEPT ![t] = @ + 1] /\ step[t] < Len(Awaits[t])
        /\ deps' = [deps EXCEPT ![t] = {d \in Awaits[t][step[t] + 1] : HasTask(d)}]
    BY <1>2 DEF Await, BeginDependencies
  <2>2. Awaits[t] \in Seq(SUBSET Task) BY ProgramAssumption DEF ProgramAssumption
  <2>3. Len(Awaits[t]) \in Nat /\ step[t] + 1 \in 1..Len(Awaits[t])
    BY <1>a, <2>1, <2>2
  <2>4. Awaits[t][step[t] + 1] \in SUBSET Task BY <2>2, <2>3
  <2>5. /\ step'[t] = step[t] + 1 /\ deps'[t] \subseteq Awaits[t][step[t] + 1]
        /\ \A d \in deps'[t] : d \in Task /\ HasTask(d)
    BY <1>a, <2>1, <2>4
  <2>6. \A u \in Task \ {t} : step'[u] = step[u] /\ deps'[u] = deps[u]
    BY <1>a, <2>1
  <2> QED BY <1>a, <1>b, <2>3, <2>5, <2>6 DEF DepsKnown
<1>3. ASSUME UNCHANGED <<step, deps>> PROVE DepsKnown'
  BY <1>a, <1>b, <1>3 DEF DepsKnown
<1> QED
  BY <1>1, <1>2, <1>3
  DEF Next, Stopped, vars, taskVars, depVars, SpawnRejected, Register, Notify, BodyEnds, EndInit,
      Publish, FillExamine, AssignFails, SetAssigned, EnqueueUnblocked, Launch, StartRun,
      Suspend, Finish, MainExit, FillBegin

\* Without the race, the invariant and the two facts about what the mapper and
\* the registrations hold.
THEOREM RaceFreeMInv == Spec /\ [][~LastNotified]_vars => []MInv
<1>1. Init => MInv
  <2> SUFFICES ASSUME Init PROVE MInv
    OBVIOUS
  <2>1. MapperNew BY DEF Init, MapperNew, Mapper
  <2>2. DepsKnown BY DEF Init, DepsKnown
  <2> QED BY <2>1, <2>2, InitSInv DEF MInv
<1>2. MInv /\ [Next]_vars /\ [~LastNotified]_vars => MInv'
  BY NextSInv, NextMapperNew, NextDepsKnown DEF MInv
<1> QED BY <1>1, <1>2, PTL DEF Spec

\* t is being registered with dependencies, by its spawner or at a barrier
Joining(t) == state[t] = "Registering" \/ pc[t] = "updating"

\* A dependency that t has registered with, or has still to, is owned by the
\* thread that registers t.
LEMMA JoiningOwned ==
  ASSUME MInv, NEW Owner, Owned(Owner), NEW t \in Task, Joining(t), NEW d \in deps[t]
  PROVE  Owner[d] = Holder(t)
<1> USE SFacts DEF MInv
<1>1. CASE state[t] = "Registering"
  <2>1. step[t] = 0 BY <1>1, TaskFacts DEF SInv, TaskInv, New, Started
  <2> QED BY <1>1, <2>1 DEF DepsKnown, Holder, Owned
<1>2. CASE state[t] # "Registering"
  <2>1. step[t] > 0 BY <1>2 DEF Joining, TaskInv
  <2>2. step[t] \in 1..Len(Awaits[t]) /\ d \in Awaits[t][step[t]] BY <2>1 DEF DepsKnown
  <2>3. Owner[d] = t BY <2>2 DEF Owned
  <2>4. state[t] = "Running" BY <1>2 DEF Joining, Placed, HasTask, Terminal
  <2> QED BY <2>3, <2>4 DEF Holder
<1> QED BY <1>1, <1>2

\* A thread registers one task at a time, and publishes none meanwhile.
LEMMA OneJoining ==
  ASSUME MInv, NEW t \in Task, Joining(t)
  PROVE  /\ ~Publishing(Holder(t))
         /\ pc[Holder(t)] # "notifying"
         /\ \A u \in Task : Joining(u) /\ Holder(u) = Holder(t) => u = t
<1> USE SFacts DEF MInv
<1>1. \A u \in Task : pc[u] = "updating" => state[u] = "Running"
  BY DEF Placed, HasTask, Terminal
<1>2. \A u \in Task : state[u] \in {"Registering", "Registered"} => pc[Parent[u]] = "spawning"
  BY DEF SInv, IInv, SpawnerWaits
<1>3. CASE state[t] = "Registering"
  <2>1. Holder(t) = Parent[t] /\ pc[Parent[t]] = "spawning" BY <1>2, <1>3 DEF Holder
  <2>2. \A u \in Task : state[u] \in {"Registering", "Registered"} /\ Parent[u] = Parent[t] => u = t
    BY <1>3 DEF SInv, IInv, SpawnerWaits
  <2>3. ASSUME NEW u \in Task, Joining(u), Holder(u) = Holder(t) PROVE u = t
    BY <1>1, <2>1, <2>2, <2>3 DEF Joining, Holder
  <2>4. ~Publishing(Parent[t]) BY <1>3, <2>2 DEF Publishing
  <2> QED BY <2>1, <2>3, <2>4
<1>4. CASE state[t] # "Registering"
  <2>1. Holder(t) = t /\ pc[t] = "updating" BY <1>1, <1>4 DEF Holder, Joining
  <2>2. ASSUME NEW u \in Task, Joining(u), Holder(u) = t PROVE u = t
    BY <1>1, <1>2, <2>1, <2>2 DEF Joining, Holder
  <2> QED BY <2>1, <2>2 DEF Publishing
<1> QED BY <1>3, <1>4

\* A task on a list is blocked: if its mutex is held, it is being registered.
LEMMA ListedHeld ==
  ASSUME MInv, NEW d \in Task, NEW t \in Task, dependents[d][t] > 0, Held(t)
  PROVE  Joining(t) /\ d \in deps[t] \ unreg[t]
<1> USE SFacts DEF MInv
<1>1. d \in deps[t] \ unreg[t] BY DEF Counted
<1>2. ASSUME state[t] # "Registering", pc[t] # "updating" PROVE FALSE
  <2>1. pc[t] # "idle" BY <1>2 DEF Held, MutexFree
  <2>2. state[t] = "Running" BY <2>1 DEF Placed, HasTask
  <2>3. numBlocking[t] = 0 BY <1>2, <2>1, <2>2 DEF Placed
  <2> QED BY <2>3, NothingLeft
<1> QED BY <1>1, <1>2 DEF Joining

\* What keeps a thread of S waiting for a thread of S.
Registers(c, S) == \E u \in Task : \E d \in unreg[u] : c = Holder(u) /\ Held(d) /\ Holder(d) \in S
Notifies(c, S) ==
    /\ c \in Task /\ pc[c] = "notifying"
    /\ \E t \in Task : dependents[c][t] > 0 /\ Held(t) /\ Holder(t) \in S
Publishes(c, S) ==
    /\ Publishing(c)
    /\ \E u \in fill : \E d \in deps[u] : Held(d) /\ Holder(d) \in S

Waiting(S) == \A c \in S : Registers(c, S) \/ Notifies(c, S) \/ Publishes(c, S)

LEMMA CycleWaits ==
  ASSUME \A S \in (SUBSET Ctx) \ {{}} : ~Waiting(S)
  PROVE  NoMutexCycle
<1> SUFFICES ASSUME NEW S \in (SUBSET Ctx) \ {{}},
                    \A c \in S : \/ \E t \in Wants(c) : Holder(t) \in S
                                 \/ Publishing(c) /\ \E t \in MapperWants : Holder(t) \in S
             PROVE  Waiting(S)
  BY DEF NoMutexCycle
<1> SUFFICES ASSUME NEW c \in S PROVE Registers(c, S) \/ Notifies(c, S) \/ Publishes(c, S)
  BY DEF Waiting
<1>1. ASSUME NEW t \in Wants(c), Holder(t) \in S PROVE Registers(c, S) \/ Notifies(c, S)
  BY <1>1 DEF Wants, Registers, Notifies
<1>2. ASSUME Publishing(c), NEW t \in MapperWants, Holder(t) \in S PROVE Publishes(c, S)
  BY <1>2 DEF MapperWants, Publishes
<1> QED BY <1>1, <1>2

\* What is waited for in a structured program does not wait for the mapper.
LEMMA WaitedSpawnsNot ==
  ASSUME MInv, BarriersOnly \/ LeavesAwaited, NEW S, NEW c \in Task, NEW u \in Task, c \in deps[u]
  PROVE  ~Publishes(c, S)
<1> USE DEF MInv
<1>1. CASE BarriersOnly
  <2> SUFFICES ASSUME NEW w \in fill PROVE deps[w] = {}
    BY DEF Publishes
  <2>1. w \in Task /\ w \in Mapper BY STypes DEF Mapper
  <2> QED BY <1>1, <2>1 DEF MapperNew, DepsKnown, BarriersOnly
<1>2. CASE LeavesAwaited
  <2>1. step[u] \in Nat BY SFacts, TaskFacts DEF SInv
  <2>2. c \in Deps[u] \/ \E i \in 1..Len(Awaits[u]) : c \in Awaits[u][i]
    BY <2>1 DEF DepsKnown
  <2>3. \A w \in Task : Parent[w] # c BY <1>2, <2>2 DEF LeavesAwaited
  <2> QED BY <2>3 DEF Publishes, Publishing
<1> QED BY <1>1, <1>2

LEMMA NobodyWaits ==
  ASSUME MInv, NEW Owner, Owned(Owner), BarriersOnly \/ LeavesAwaited,
         NEW S \in (SUBSET Ctx) \ {{}}, Waiting(S)
  PROVE  FALSE
<1> USE SFacts DEF MInv
<1> DEFINE D == {d \in Task : d \in S /\ \E u \in Task : d \in unreg[u] /\ Holder(u) \in S}
<1>1. ASSUME NEW u \in Task, NEW d \in unreg[u]
      PROVE  /\ d \in Task /\ d \in deps[u] /\ Holder(d) = d
             /\ Joining(u) /\ Owner[d] = Holder(u)
  <2>1. d \in Task /\ d \in deps[u] /\ Joining(u) BY DEF Counted, Joining
  <2>2. HasTask(d) BY <2>1 DEF DepsKnown
  <2>3. Holder(d) = d BY <2>2 DEF HasTask, Terminal, Holder
  <2> QED BY <2>1, <2>3, JoiningOwned
<1>2. ASSUME NEW c \in S, Registers(c, S) PROVE \E d \in D : Owner[d] = c
  BY <1>1, <1>2 DEF Registers
<1>3. ASSUME NEW d \in D PROVE Registers(d, S)
  <2>1. PICK u \in Task : d \in unreg[u] /\ Holder(u) \in S OBVIOUS
  <2>2. d \in deps[u] /\ Joining(u) /\ Owner[d] = Holder(u) BY <1>1, <2>1
  <2>3. ~Publishes(d, S) BY <2>2, WaitedSpawnsNot
  <2>4. ASSUME Notifies(d, S) PROVE FALSE
    <3>1. PICK t \in Task : dependents[d][t] > 0 /\ Held(t) BY <2>4 DEF Notifies
    <3>2. Joining(t) /\ d \in deps[t] \ unreg[t] BY <3>1, ListedHeld
    <3>3. Owner[d] = Holder(t) BY <3>2, JoiningOwned
    <3>4. t = u BY <2>2, <3>2, <3>3, OneJoining
    <3> QED BY <2>1, <3>2, <3>4
  <2> QED BY <2>3, <2>4 DEF Waiting
<1>4. D = {}
  <2> SUFFICES ASSUME D # {} PROVE FALSE
    OBVIOUS
  <2>1. D \in (SUBSET Task) \ {{}} OBVIOUS
  <2>2. PICK d \in D : \A e \in D : Owner[e] # d BY <2>1 DEF Owned
  <2>3. \E e \in D : Owner[e] = d BY <1>2, <1>3
  <2> QED BY <2>2, <2>3
<1>5. \A c \in S : ~Registers(c, S) BY <1>2, <1>4
<1>6. ASSUME NEW c \in S, Notifies(c, S) PROVE FALSE
  <2>1. PICK t \in Task : dependents[c][t] > 0 /\ Held(t) /\ Holder(t) \in S BY <1>6 DEF Notifies
  <2>2. Joining(t) BY <1>6, <2>1, ListedHeld DEF Notifies
  <2>3. ~Publishing(Holder(t)) /\ pc[Holder(t)] # "notifying" BY <2>2, OneJoining
  <2> QED BY <1>5, <2>1, <2>3 DEF Waiting, Notifies, Publishes
<1>7. ASSUME NEW c \in S PROVE Publishes(c, S) BY <1>5, <1>6 DEF Waiting
<1>8. PICK c \in S : TRUE OBVIOUS
<1>9. PICK u \in fill : \E d \in deps[u] : Held(d) /\ Holder(d) \in S BY <1>7, <1>8 DEF Publishes
<1>10. PICK d \in deps[u] : Holder(d) \in S BY <1>9
<1>11. u \in Task /\ d \in Task BY <1>10, STypes
<1>12. HasTask(d) BY <1>11, <1>10 DEF DepsKnown
<1>13. Holder(d) = d BY <1>12 DEF HasTask, Terminal, Holder
<1>14. ~Publishes(d, S) BY <1>10, <1>11, WaitedSpawnsNot
<1> QED BY <1>7, <1>10, <1>13, <1>14

\* In a structured program no threads wait for the mutexes of one another.
THEOREM NoThreadsWaitInACycle ==
  ASSUME Structured
  PROVE  Spec /\ [][~LastNotified]_vars => []NoMutexCycle
<1>1. PICK Owner \in [Task -> Ctx] : Owned(Owner) BY DEF Structured
<1>2. MInv => NoMutexCycle
  BY <1>1, CycleWaits, NobodyWaits DEF Structured
<1> QED BY <1>2, RaceFreeMInv, PTL

\* If moreover no task is spawned with dependencies, the mapper never waits,
\* and no assumption about the behaviour is left: whatever awaited tasks
\* spawn, no threads wait for one another.
THEOREM NestedBarriersNeverCycle ==
  ASSUME Structured, BarriersOnly
  PROVE  Spec => []NoMutexCycle
BY BarriersRaceFree, NoThreadsWaitInACycle, PTL
=============================================================================
