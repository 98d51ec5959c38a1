------------------------------ MODULE Streams ------------------------------
(***************************************************************************)
(* Task.run with the environment components of parla/environments.py and   *)
(* parla/cuda.py: each run of a body on a GPU has a stream and an event of *)
(* its own, dependents are notified with the event once it is recorded and *)
(* may go ahead on the host, and the run ends when the event has occurred. *)
(* A task holds its mutex during its run and while it registers; counters  *)
(* and queues (module TaskDependencies) are a set here.                    *)
(***************************************************************************)
EXTENDS Naturals, Sequences, FiniteSets

CONSTANTS Task, Gpu,    \* tasks, those that run on a GPU
          Deps, Awaits, \* what a task is spawned with; what its body awaits
          MayRaise,     \* tasks whose body may raise
          Workers,      \* number of worker threads
          Kernels       \* bound: kernels that a run of a body launches

ASSUME StreamsAssumption ==
    /\ IsFiniteSet(Task) /\ Gpu \subseteq Task /\ MayRaise \subseteq Task
    /\ Deps \in [Task -> SUBSET Task] /\ Awaits \in [Task -> SUBSET Task]
    /\ Workers \in Nat \ {0} /\ Kernels \in Nat

VARIABLES pc,       \* where the spawner or the thread of a task is
          left,     \* dependencies a task has still to register with
          blockers, \* tasks that will notify a task
          events,   \* _dependency_events
          runs,     \* runs of the body begun so far
          launched, \* kernels the current run has launched
          stream,   \* for each run, the operations its stream has still to do
          event,    \* for each run: created, recorded or occurred
          active    \* runs with a kernel that executes

registration == <<left, blockers>>
device == <<stream, event, active>>
vars == <<pc, registration, events, runs, launched, device>>

Run == Task \X (1 .. 2)
Current(t) == <<t, runs[t]>>
InRun == {"entered", "body", "returned", "early", "sync", "late", "awaiting"}
MutexFree(t) == pc[t] \notin InRun \cup {"registering"}
Suspends(t) == runs[t] = 1 /\ Awaits[t] # {}

Init ==
    /\ pc = [t \in Task |-> "new"]
    /\ left = Deps
    /\ blockers = [t \in Task |-> {}]
    /\ events = [t \in Task |-> {}]
    /\ runs = [t \in Task |-> 0]
    /\ launched = [t \in Task |-> 0]
    /\ stream = [r \in Run |-> <<>>]
    /\ event = [r \in Run |-> "created"]
    /\ active = {}

Goto(t, from, to) == pc[t] = from /\ pc' = [pc EXCEPT ![t] = to]
Enqueue(r, op, on) == stream' = [stream EXCEPT ![r] = Append(@, [op |-> op, on |-> on])]

\* tasks are spawned after those they depend on and those they will await
Spawn(t) ==
    /\ \A d \in Deps[t] \cup Awaits[t] : pc[d] # "new"
    /\ Goto(t, "new", "registering")
    /\ UNCHANGED <<registration, events, runs, launched, device>>

\* a dependency in a terminal state refuses
Register(t, d) ==
    /\ pc[t] \in {"registering", "awaiting"} /\ d \in left[t] /\ MutexFree(d)
    /\ left' = [left EXCEPT ![t] = @ \ {d}]
    /\ blockers' = [blockers EXCEPT ![t] = IF pc[d] = "ended" THEN @ ELSE @ \cup {d}]
    /\ UNCHANGED <<pc, events, runs, launched, device>>

\* the constructor returns, or the run that has suspended its body
Registered(t) ==
    /\ left[t] = {} /\ (Goto(t, "registering", "waiting") \/ Goto(t, "awaiting", "waiting"))
    /\ UNCHANGED <<registration, events, runs, launched, device>>

\* a worker takes the task; __enter__ makes a stream and an event
Enter(t) ==
    /\ blockers[t] = {} /\ Cardinality({u \in Task : pc[u] \in InRun}) < Workers
    /\ Goto(t, "waiting", "entered")
    /\ runs' = [runs EXCEPT ![t] = @ + 1]
    /\ launched' = [launched EXCEPT ![t] = 0]
    /\ UNCHANGED <<registration, events, device>>

\* a stream waits for the events its thread has received, a thread without
\* a stream waits itself; an event not recorded yet is not waited for
WaitEvents(t) ==
    /\ Goto(t, "entered", "body")
    /\ LET on == {e \in events[t] : event[e] = "recorded"}
       IN  IF t \in Gpu THEN Enqueue(Current(t), "wait", on) ELSE on = {} /\ UNCHANGED stream
    /\ events' = [events EXCEPT ![t] = {}]
    /\ UNCHANGED <<registration, runs, launched, event, active>>

LaunchKernel(t) ==
    /\ pc[t] = "body" /\ t \in Gpu /\ launched[t] < Kernels
    /\ launched' = [launched EXCEPT ![t] = @ + 1]
    /\ Enqueue(Current(t), "kernel", {})
    /\ UNCHANGED <<pc, registration, events, runs, event, active>>

\* the body returns, or the coroutine yields
BodyEnds(t) == Goto(t, "body", "returned") /\ UNCHANGED <<registration, events, runs, launched, device>>

\* an exception skips the record and the synchronisation; only bodies that
\* have synchronised their stream before are considered (README)
BodyRaises(t) ==
    /\ t \in MayRaise /\ Goto(t, "body", "late")
    /\ ~Suspends(t) /\ stream[Current(t)] = <<>>
    /\ UNCHANGED <<registration, events, runs, launched, device>>

\* mutant: dependents get an event that is not recorded
RecordNothing(t) ==
    /\ Goto(t, "returned", IF Suspends(t) \/ t \notin Gpu THEN "sync" ELSE "early")
    /\ UNCHANGED <<registration, events, runs, launched, device>>

Record(t) ==
    /\ Goto(t, "returned", IF Suspends(t) \/ t \notin Gpu THEN "sync" ELSE "early")
    /\ IF t \in Gpu
       THEN /\ Enqueue(Current(t), "record", {})
            /\ event' = [event EXCEPT ![Current(t)] = "recorded"]
       ELSE UNCHANGED <<stream, event>>
    /\ UNCHANGED <<registration, events, runs, launched, active>>

\* _notify_dependents: with the event, and at the end of the run without
Notify(t, u) ==
    /\ pc[t] \in {"early", "late"} /\ t \in blockers[u] /\ pc[u] \notin {"registering", "awaiting"}
    /\ blockers' = [blockers EXCEPT ![u] = @ \ {t}]
    /\ events' = [events EXCEPT ![u] = IF pc[t] = "early" THEN @ \cup {Current(t)} ELSE @]
    /\ UNCHANGED <<pc, left, runs, launched, device>>

NobodyLeft(t) == \A u \in Task : t \notin blockers[u]

Notified(t) ==
    /\ NobodyLeft(t) /\ Goto(t, "early", "sync")
    /\ UNCHANGED <<registration, events, runs, launched, device>>

\* the mutant SyncNot does not wait for the event
AfterSync(t) ==
    /\ Goto(t, "sync", IF Suspends(t) THEN "awaiting" ELSE "late")
    /\ left' = IF Suspends(t) THEN [left EXCEPT ![t] = Awaits[t]] ELSE left
    /\ UNCHANGED <<blockers, events, runs, launched, device>>
SyncNot(t) == AfterSync(t)
Sync(t) == AfterSync(t) /\ event[Current(t)] # "recorded"

\* mutant: the end of the run relies on the notifications with the event
FinishSilently(t) == Goto(t, "late", "ended") /\ UNCHANGED <<registration, events, runs, launched, device>>

\* the terminal state is stored and the resources are returned
Finish(t) ==
    /\ NobodyLeft(t) /\ Goto(t, "late", "ended")
    /\ UNCHANGED <<registration, events, runs, launched, device>>

-----------------------------------------------------------------------------
(* The GPU: each stream does its operations in order.                      *)

Pop(r) == stream' = [stream EXCEPT ![r] = Tail(@)]
AtHead(r, op) == stream[r] # <<>> /\ Head(stream[r]).op = op

StreamWaits(r) ==
    /\ AtHead(r, "wait") /\ \A e \in Head(stream[r]).on : event[e] = "occurred"
    /\ Pop(r) /\ UNCHANGED <<pc, registration, events, runs, launched, event, active>>

KernelStarts(r) ==
    /\ AtHead(r, "kernel") /\ r \notin active
    /\ active' = active \cup {r}
    /\ UNCHANGED <<pc, registration, events, runs, launched, stream, event>>

KernelEnds(r) ==
    /\ r \in active /\ active' = active \ {r}
    /\ Pop(r) /\ UNCHANGED <<pc, registration, events, runs, launched, event>>

EventOccurs(r) ==
    /\ AtHead(r, "record") /\ event' = [event EXCEPT ![r] = "occurred"]
    /\ Pop(r) /\ UNCHANGED <<pc, registration, events, runs, launched, active>>

HostStep(t) ==
    \/ Spawn(t) \/ (\E d \in Task : Register(t, d)) \/ Registered(t)
    \/ Enter(t) \/ WaitEvents(t) \/ LaunchKernel(t) \/ BodyEnds(t) \/ BodyRaises(t)
    \/ Record(t) \/ (\E u \in Task : Notify(t, u)) \/ Notified(t) \/ Sync(t) \/ Finish(t)
StreamStep(r) == StreamWaits(r) \/ KernelStarts(r) \/ KernelEnds(r) \/ EventOccurs(r)

AllEnded == (\A t \in Task : pc[t] = "ended") /\ UNCHANGED vars

Next == (\E t \in Task : HostStep(t)) \/ (\E r \in Run : StreamStep(r)) \/ AllEnded

\* every thread that can go on does so, every stream too; bodies end
Fairness == /\ \A t \in Task : WF_vars(HostStep(t))
            /\ \A r \in Run : WF_vars(StreamStep(r))

Spec == Init /\ [][Next]_vars /\ Fairness

-----------------------------------------------------------------------------
(* Properties.                                                             *)

\* what a task has depended on so far, and the least set that holds all of
\* it and all that its members have depended on
Direct(t) == IF runs[t] = 2 THEN Deps[t] \cup Awaits[t] ELSE Deps[t]
Closed(S) == \A u \in S : Direct(u) \subseteq S
Before(t) == {d \in Task : \A S \in SUBSET Task : Direct(t) \subseteq S /\ Closed(S) => d \in S}

Quiet(t) == /\ pc[t] \notin {"entered", "body"} /\ runs[t] > 0
            /\ \A i \in 1 .. 2 : \A k \in DOMAIN stream[<<t, i>>] : stream[<<t, i>>][k].op # "kernel"
Works(t) == (t \notin Gpu /\ pc[t] = "body") \/ (\E r \in active : r[1] = t)

\* While a kernel or a body on the CPU executes, those of all the tasks
\* before it, dependencies of dependencies too, have ended, although threads
\* of dependents run ahead as soon as an event is recorded.
KernelsInOrder ==
    \A t \in Task : Works(t) => \A d \in Before(t) : Quiet(d)

\* A task that has ended, or whose body is suspended, has no kernel left: its
\* resources are returned, its operands may be evicted, and a task spawned
\* later is not given its event.
EndedAreQuiet ==
    \A t \in Task : pc[t] \in {"waiting", "ended"} /\ runs[t] > 0 => Quiet(t)

\* Threads that wait for events on the host never keep those events from
\* occurring: every task ends.
EveryTaskEnds == \A t \in Task : <>(pc[t] = "ended")
=============================================================================
