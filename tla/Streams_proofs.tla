--------------------------- MODULE Streams_proofs ---------------------------
(***************************************************************************)
(* Streams and events, for every program of tasks and every number of      *)
(* workers and kernels: a task that has ended has no kernel left, and      *)
(* kernels and bodies on the CPU execute after those of all tasks before   *)
(* them.                                                                   *)
(***************************************************************************)
EXTENDS Streams, SequenceTheorems, TLAPS

Pc == {"new", "registering", "waiting", "ended"} \cup InRun
Operation == [op : {"wait", "kernel", "record"}, on : SUBSET Run]

TypeOK ==
    /\ pc \in [Task -> Pc]
    /\ left \in [Task -> SUBSET Task]
    /\ blockers \in [Task -> SUBSET Task]
    /\ events \in [Task -> SUBSET Run]
    /\ runs \in [Task -> 0 .. 2]
    /\ launched \in [Task -> Nat]
    /\ stream \in [Run -> Seq(Operation)]
    /\ event \in [Run -> {"created", "recorded", "occurred"}]
    /\ active \subseteq Run

\* what the place of a task's thread says about its runs and dependencies
Host ==
    \A t \in Task :
        /\ pc[t] \in {"new", "registering"} => runs[t] = 0
        /\ pc[t] \in InRun \cup {"ended"} => runs[t] > 0
        /\ pc[t] \in {"early", "late", "ended"} => ~Suspends(t)
        /\ pc[t] = "early" => t \in Gpu
        /\ pc[t] = "awaiting" => Suspends(t)
        /\ pc[t] = "waiting" => runs[t] < 2
        /\ pc[t] \notin {"new", "registering", "awaiting"} => left[t] = {}
        /\ pc[t] \in {"new", "ended"} \cup (InRun \ {"awaiting"}) => blockers[t] = {}

\* a run's stream is empty before its body and after its end, the record of
\* its event is the last operation, the wait the first
StreamOf(t, i) ==
    LET r == <<t, i>>
        s == stream[r]
    IN  /\ t \notin Gpu => s = <<>>
        /\ i > runs[t] => s = <<>> /\ event[r] = "created"
        /\ i < runs[t] => s = <<>>
        /\ i = runs[t] =>
            /\ pc[t] = "entered" => s = <<>> /\ event[r] = "created"
            /\ pc[t] \in {"body", "returned"} => event[r] = "created"
            /\ pc[t] \in {"early", "sync"} /\ t \in Gpu => event[r] # "created"
            /\ pc[t] \in {"late", "awaiting", "waiting", "ended"} => s = <<>>
        /\ event[r] = "created" => \A k \in DOMAIN s : s[k].op # "record"
        /\ event[r] = "recorded" => s # <<>> /\ \A k \in DOMAIN s : (s[k].op = "record") = (k = Len(s))
        /\ event[r] = "occurred" => s = <<>>
        /\ \A k \in DOMAIN s : s[k].op = "wait" => k = 1
        /\ r \in active => s # <<>> /\ s[1].op = "kernel"

Stream == \A t \in Task, i \in 1 .. 2 : StreamOf(t, i)

EventsRecorded == \A t \in Task : \A e \in events[t] : event[e] # "created"

\* the last body of t is over; its kernels are
Settled(t) == runs[t] > 0 /\ pc[t] \in {"early", "sync", "late", "ended"} /\ ~Suspends(t)
Over(t) == \A i \in 1 .. 2 : stream[<<t, i>>] = <<>>

\* t is sure to execute after d: d is over, or t has its event and will wait
\* for it, or the stream of t waits
Holds(t, d) == pc[t] \in {"registering", "awaiting", "waiting", "entered"} /\ Current(d) \in events[t]
Waits(t, d) == /\ runs[t] > 0 /\ stream[Current(t)] # <<>>
               /\ stream[Current(t)][1].op = "wait" /\ Current(d) \in stream[Current(t)][1].on
Passed(t, d) == Settled(d) /\ (Over(d) \/ Holds(t, d) \/ Waits(t, d))
Kept(t, d) == d \in left[t] \cup blockers[t] \/ Passed(t, d)

Order ==
    \A t \in Task :
        /\ \A d \in Deps[t] : Kept(t, d)
        /\ runs[t] = 2 \/ (runs[t] = 1 /\ pc[t] \in {"awaiting", "waiting"}) => \A d \in Awaits[t] : Kept(t, d)

IInv == TypeOK /\ Host /\ Stream /\ EventsRecorded /\ Order
-----------------------------------------------------------------------------

LEMMA CurrentRun ==
    ASSUME TypeOK, NEW t \in Task, runs[t] > 0
    PROVE  runs[t] \in 1 .. 2 /\ Current(t) \in Run /\ Current(t) = <<t, runs[t]>>
  BY DEF TypeOK, Run, Current

LEMMA RunShape == \A t \in Task, i \in 1 .. 2 : <<t, i>> \in Run
  BY DEF Run

\* what Append and Tail do to the operations of a stream
LEMMA Appended ==
    ASSUME NEW s \in Seq(Operation), NEW o \in Operation
    PROVE  /\ Append(s, o) \in Seq(Operation) /\ Append(s, o) # <<>>
           /\ Len(Append(s, o)) = Len(s) + 1 /\ Len(s) \in Nat
           /\ DOMAIN Append(s, o) = 1 .. Len(s) + 1 /\ DOMAIN s = 1 .. Len(s)
           /\ \A k \in DOMAIN s : Append(s, o)[k] = s[k]
           /\ Append(s, o)[Len(s) + 1] = o
           /\ s = <<>> => Append(s, o)[1] = o /\ Len(s) = 0
           /\ s # <<>> => Append(s, o)[1] = s[1] /\ 1 \in DOMAIN s
  <1>1. /\ Append(s, o) \in Seq(Operation) /\ Append(s, o) # <<>>
        /\ Len(Append(s, o)) = Len(s) + 1
        /\ \A k \in 1 .. Len(s) : Append(s, o)[k] = s[k]
        /\ Append(s, o)[Len(s) + 1] = o
    BY AppendProperties
  <1>2. Len(s) \in Nat /\ DOMAIN s = 1 .. Len(s) /\ DOMAIN Append(s, o) = 1 .. Len(Append(s, o))
    BY <1>1, LenProperties
  <1>3. s = <<>> => Len(s) = 0
    BY EmptySeq
  <1>4. s # <<>> => Len(s) \in Nat \ {0}
    BY EmptySeq
  <1> QED BY <1>1, <1>2, <1>3, <1>4

LEMMA Popped ==
    ASSUME NEW s \in Seq(Operation), s # <<>>
    PROVE  /\ Tail(s) \in Seq(Operation) /\ Head(s) = s[1] /\ s[1] \in Operation
           /\ Len(s) \in Nat \ {0} /\ Len(Tail(s)) = Len(s) - 1
           /\ DOMAIN Tail(s) = 1 .. Len(s) - 1 /\ DOMAIN s = 1 .. Len(s)
           /\ \A k \in DOMAIN Tail(s) : Tail(s)[k] = s[k + 1]
           /\ Tail(s) = <<>> <=> Len(s) = 1
  <1>1. /\ Head(s) \in Operation /\ Tail(s) \in Seq(Operation) /\ Len(Tail(s)) = Len(s) - 1
        /\ \A k \in 1 .. Len(Tail(s)) : Tail(s)[k] = s[k + 1]
    BY HeadTailProperties
  <1>2. Len(s) \in Nat \ {0}
    BY EmptySeq
  <1>3. DOMAIN s = 1 .. Len(s) /\ DOMAIN Tail(s) = 1 .. Len(Tail(s))
    BY <1>1, LenProperties
  <1>4. Head(s) = s[1]
    OBVIOUS
  <1>5. Tail(s) = <<>> <=> Len(Tail(s)) = 0
    BY <1>1, EmptySeq
  <1> QED BY <1>1, <1>2, <1>3, <1>4, <1>5

LEMMA InitIInv == Init => IInv
  <1> SUFFICES ASSUME Init PROVE IInv
    OBVIOUS
  <1>1. TypeOK
    <2>1. <<>> \in Seq(Operation)
      OBVIOUS
    <2> QED BY <2>1, StreamsAssumption DEF Init, TypeOK, Pc
  <1>2. Host
    <2>1. \A t \in Task : pc[t] = "new" /\ runs[t] = 0 /\ blockers[t] = {}
      BY DEF Init
    <2> QED BY <2>1 DEF Host, InRun
  <1>3. Stream
    <2>1. \A t \in Task, i \in 1 .. 2 :
              /\ stream[<<t, i>>] = <<>> /\ event[<<t, i>>] = "created" /\ <<t, i>> \notin active
              /\ pc[t] = "new" /\ runs[t] = 0
      BY RunShape DEF Init
    <2>2. DOMAIN <<>> = {}
      OBVIOUS
    <2> QED BY <2>1, <2>2 DEF Stream, StreamOf
  <1>4. EventsRecorded /\ Order
    BY StreamsAssumption DEF Init, EventsRecorded, Order, Kept
  <1> QED BY <1>1, <1>2, <1>3, <1>4 DEF IInv

-----------------------------------------------------------------------------
(* Types.                                                                  *)

LEMMA EnqueueType ==
    ASSUME TypeOK, NEW t \in Task, NEW op \in {"wait", "kernel", "record"}, NEW on \in SUBSET Run,
           Enqueue(Current(t), op, on)
    PROVE  stream' \in [Run -> Seq(Operation)]
  <1>1. [op |-> op, on |-> on] \in Operation
    BY DEF Operation
  <1>2. \A r \in Run : Append(stream[r], [op |-> op, on |-> on]) \in Seq(Operation)
    BY <1>1 DEF TypeOK
  <1> QED BY <1>2 DEF Enqueue, TypeOK

LEMMA PopType ==
    ASSUME TypeOK, NEW r \in Run, stream[r] # <<>>, Pop(r)
    PROVE  stream' \in [Run -> Seq(Operation)]
  <1>1. Tail(stream[r]) \in Seq(Operation)
    BY Popped DEF TypeOK
  <1> QED BY <1>1 DEF Pop, TypeOK

\* the steps of a host thread that leave the device alone
Quietly(t) ==
    \/ Spawn(t) \/ (\E d \in Task : Register(t, d)) \/ Registered(t) \/ Enter(t)
    \/ BodyEnds(t) \/ BodyRaises(t) \/ (\E u \in Task : Notify(t, u)) \/ Notified(t) \/ Sync(t) \/ Finish(t)

LEMMA QuietlyType ==
    ASSUME TypeOK, Host, NEW t \in Task, Quietly(t)
    PROVE  TypeOK' /\ UNCHANGED device
  <1> USE DEF Pc, InRun, Goto, registration, device
  <1>1. CASE Spawn(t) \/ Registered(t) \/ BodyEnds(t) \/ BodyRaises(t) \/ Notified(t) \/ Finish(t)
    BY <1>1 DEF TypeOK, Spawn, Registered, BodyEnds, BodyRaises, Notified, Finish
  <1>2. CASE \E d \in Task : Register(t, d)
    BY <1>2 DEF TypeOK, Register
  <1>3. CASE Enter(t)
    <2>1. runs[t] < 2
      BY <1>3 DEF Enter, Host
    <2>2. runs[t] + 1 \in 0 .. 2
      BY <2>1 DEF TypeOK
    <2> QED BY <1>3, <2>2 DEF TypeOK, Enter
  <1>4. CASE \E u \in Task : Notify(t, u)
    <2>1. PICK u \in Task : Notify(t, u)
      BY <1>4
    <2>2. pc[t] \in InRun
      BY <2>1 DEF Notify
    <2>3. Current(t) \in Run
      BY <2>2, CurrentRun DEF Host
    <2> QED BY <2>1, <2>3 DEF TypeOK, Notify
  <1>5. CASE Sync(t)
    BY <1>5, StreamsAssumption DEF TypeOK, Sync, AfterSync
  <1> QED BY <1>1, <1>2, <1>3, <1>4, <1>5 DEF Quietly
\* the steps of a host thread that use the device
Loudly(t) == WaitEvents(t) \/ LaunchKernel(t) \/ Record(t)

\* what they do to the streams
LEMMA LoudlyEnqueues ==
    ASSUME TypeOK, NEW t \in Task, Loudly(t)
    PROVE  \/ /\ t \in Gpu
              /\ \E o \in Operation :
                    /\ stream' = [stream EXCEPT ![Current(t)] = Append(stream[Current(t)], o)]
                    /\ WaitEvents(t) => o = [op |-> "wait", on |-> {e \in events[t] : event[e] = "recorded"}]
                    /\ LaunchKernel(t) => o.op = "kernel"
                    /\ Record(t) => o.op = "record"
           \/ t \notin Gpu /\ UNCHANGED stream
  <1>1. CASE WaitEvents(t) /\ t \in Gpu
    <2> DEFINE on == {e \in events[t] : event[e] = "recorded"}
               o == [op |-> "wait", on |-> on]
    <2>1. o \in Operation
      BY DEF TypeOK, Operation
    <2>2. stream' = [stream EXCEPT ![Current(t)] = Append(stream[Current(t)], o)]
      BY <1>1 DEF WaitEvents, Enqueue
    <2>3. ~LaunchKernel(t) /\ ~Record(t)
      BY <1>1 DEF WaitEvents, LaunchKernel, Record, Goto
    <2> QED BY <1>1, <2>1, <2>2, <2>3
  <1>2. CASE LaunchKernel(t)
    <2> DEFINE o == [op |-> "kernel", on |-> {}]
    <2>1. o \in Operation
      BY DEF Operation
    <2>2. stream' = [stream EXCEPT ![Current(t)] = Append(stream[Current(t)], o)] /\ t \in Gpu
      BY <1>2 DEF LaunchKernel, Enqueue
    <2>3. ~WaitEvents(t) /\ ~Record(t)
      BY <1>2 DEF WaitEvents, LaunchKernel, Record, Goto
    <2> QED BY <2>1, <2>2, <2>3
  <1>3. CASE Record(t) /\ t \in Gpu
    <2> DEFINE o == [op |-> "record", on |-> {}]
    <2>1. o \in Operation
      BY DEF Operation
    <2>2. stream' = [stream EXCEPT ![Current(t)] = Append(stream[Current(t)], o)]
      BY <1>3 DEF Record, Enqueue
    <2>3. ~LaunchKernel(t) /\ ~WaitEvents(t)
      BY <1>3 DEF WaitEvents, LaunchKernel, Record, Goto
    <2> QED BY <1>3, <2>1, <2>2, <2>3
  <1>4. CASE t \notin Gpu
    BY <1>4 DEF Loudly, WaitEvents, LaunchKernel, Record
  <1> QED BY <1>1, <1>2, <1>3, <1>4 DEF Loudly

LEMMA LoudlyType ==
    ASSUME TypeOK, NEW t \in Task, Loudly(t)
    PROVE  TypeOK'
  <1>1. stream' \in [Run -> Seq(Operation)]
    <2>1. \A o \in Operation : \A r \in Run : Append(stream[r], o) \in Seq(Operation)
      BY Appended DEF TypeOK
    <2>2. CASE stream' = stream
      BY <2>2 DEF TypeOK
    <2>3. CASE stream' # stream
      <3>1. PICK o \in Operation : stream' = [stream EXCEPT ![Current(t)] = Append(stream[Current(t)], o)]
        BY <2>3, LoudlyEnqueues
      <3> QED BY <2>1, <3>1 DEF TypeOK
    <2> QED BY <2>2, <2>3
  <1>2. CASE WaitEvents(t)
    BY <1>1, <1>2 DEF TypeOK, WaitEvents, Goto, registration, Pc, InRun
  <1>3. CASE LaunchKernel(t)
    BY <1>1, <1>3 DEF TypeOK, LaunchKernel, registration
  <1>4. CASE Record(t)
    BY <1>1, <1>4 DEF TypeOK, Record, Goto, registration, Pc, InRun
  <1> QED BY <1>2, <1>3, <1>4 DEF Loudly

LEMMA HostStepIs == \A t : HostStep(t) <=> Quietly(t) \/ Loudly(t)
  BY DEF HostStep, Quietly, Loudly

LEMMA StreamStepPops ==
    ASSUME TypeOK, Stream, NEW r \in Run, StreamStep(r), ~KernelStarts(r)
    PROVE  /\ stream[r] # <<>> /\ stream' = [stream EXCEPT ![r] = Tail(stream[r])]
           /\ stream[r] \in Seq(Operation)
           /\ StreamWaits(r) => stream[r][1].op = "wait" /\ \A e \in stream[r][1].on : event[e] = "occurred"
           /\ KernelEnds(r) => stream[r][1].op = "kernel"
           /\ EventOccurs(r) => stream[r][1].op = "record"
  <1>1. r \in active => stream[r] # <<>> /\ stream[r][1].op = "kernel"
    <2>1. PICK t \in Task, i \in 1 .. 2 : r = <<t, i>>
      BY DEF Run
    <2> QED BY <2>1 DEF Stream, StreamOf
  <1>2. stream[r] \in Seq(Operation)
    BY DEF TypeOK
  <1>3. stream[r] # <<>>
    BY <1>1 DEF StreamStep, StreamWaits, KernelEnds, EventOccurs, AtHead
  <1>4. Head(stream[r]) = stream[r][1]
    BY <1>2, <1>3, Popped
  <1> QED BY <1>1, <1>2, <1>3, <1>4 DEF StreamStep, StreamWaits, KernelEnds, EventOccurs, AtHead, Pop

LEMMA StreamStepType ==
    ASSUME TypeOK, Stream, NEW r \in Run, StreamStep(r)
    PROVE  TypeOK' /\ UNCHANGED <<pc, left, blockers, events, runs, launched>>
  <1>1. UNCHANGED <<pc, left, blockers, events, runs, launched>>
    BY DEF StreamStep, StreamWaits, KernelStarts, KernelEnds, EventOccurs, registration
  <1>2. CASE KernelStarts(r)
    BY <1>1, <1>2 DEF TypeOK, KernelStarts
  <1>3. CASE ~KernelStarts(r)
    <2>1. stream' \in [Run -> Seq(Operation)]
      <3>1. Tail(stream[r]) \in Seq(Operation)
        BY <1>3, StreamStepPops, Popped
      <3> QED BY <1>3, <3>1, StreamStepPops DEF TypeOK
    <2>2. active' \subseteq Run /\ event' \in [Run -> {"created", "recorded", "occurred"}]
      BY <1>3 DEF TypeOK, StreamStep, StreamWaits, KernelEnds, EventOccurs
    <2> QED BY <1>1, <2>1, <2>2 DEF TypeOK
  <1> QED BY <1>1, <1>2, <1>3

\* a host thread leaves the other tasks alone, but for its notifications
LEMMA HostFrame ==
    ASSUME TypeOK, NEW t \in Task, HostStep(t)
    PROVE  /\ active' = active
           /\ \A u \in Task \ {t} :
                /\ pc'[u] = pc[u] /\ runs'[u] = runs[u] /\ left'[u] = left[u]
                /\ blockers'[u] \subseteq blockers[u] /\ events[u] \subseteq events'[u]
                /\ \A i \in 1 .. 2 : stream'[<<u, i>>] = stream[<<u, i>>] /\ event'[<<u, i>>] = event[<<u, i>>]
  <1>1. CASE Quietly(t)
    <2>1. active' = active /\ stream' = stream /\ event' = event
      BY <1>1 DEF Quietly, Spawn, Register, Registered, Enter, BodyEnds, BodyRaises, Notify, Notified,
                  Sync, AfterSync, Finish, device
    <2>2. \A u \in Task \ {t} : pc'[u] = pc[u] /\ runs'[u] = runs[u] /\ left'[u] = left[u]
      BY <1>1 DEF Quietly, Spawn, Register, Registered, Enter, BodyEnds, BodyRaises, Notify, Notified,
                  Sync, AfterSync, Finish, registration, Goto, TypeOK
    <2>3. \A u \in Task \ {t} : blockers'[u] \subseteq blockers[u] /\ events[u] \subseteq events'[u]
      <3>1. CASE \E v \in Task : Notify(t, v)
        BY <3>1 DEF Notify, TypeOK
      <3>2. CASE \E d \in Task : Register(t, d)
        BY <3>2 DEF Register, TypeOK
      <3>3. CASE UNCHANGED <<blockers, events>>
        BY <3>3
      <3> QED BY <1>1, <3>1, <3>2, <3>3 DEF Quietly, Spawn, Registered, Enter, BodyEnds, BodyRaises,
                  Notified, Sync, AfterSync, Finish, registration
    <2> QED BY <2>1, <2>2, <2>3
  <1>2. CASE Loudly(t)
    <2>1. active' = active /\ left' = left /\ blockers' = blockers /\ runs' = runs
      BY <1>2 DEF Loudly, WaitEvents, LaunchKernel, Record, registration
    <2>2. \A u \in Task \ {t} : pc'[u] = pc[u] /\ events'[u] = events[u]
      BY <1>2 DEF Loudly, WaitEvents, LaunchKernel, Record, Goto, TypeOK
    <2>3. \A u \in Task \ {t}, i \in 1 .. 2 : event'[<<u, i>>] = event[<<u, i>>]
      BY <1>2, RunShape DEF Loudly, WaitEvents, LaunchKernel, Record, TypeOK, Current
    <2>4. \A u \in Task \ {t}, i \in 1 .. 2 : stream'[<<u, i>>] = stream[<<u, i>>]
      <3>1. \A u \in Task \ {t}, i \in 1 .. 2 : <<u, i>> \in Run /\ <<u, i>> # Current(t)
        BY RunShape DEF Current
      <3> QED BY <1>2, <3>1, LoudlyEnqueues DEF TypeOK
    <2> QED BY <2>1, <2>2, <2>3, <2>4
  <1> QED BY <1>1, <1>2, HostStepIs

-----------------------------------------------------------------------------
(* The host.                                                               *)

LEMMA HostKept ==
    ASSUME IInv, NEW t \in Task, HostStep(t)
    PROVE  Host'
  <1> DEFINE H(u) ==
        /\ pc[u] \in {"new", "registering"} => runs[u] = 0
        /\ pc[u] \in InRun \cup {"ended"} => runs[u] > 0
        /\ pc[u] \in {"early", "late", "ended"} => ~Suspends(u)
        /\ pc[u] = "early" => u \in Gpu
        /\ pc[u] = "awaiting" => Suspends(u)
        /\ pc[u] = "waiting" => runs[u] < 2
        /\ pc[u] \notin {"new", "registering", "awaiting"} => left[u] = {}
        /\ pc[u] \in {"new", "ended"} \cup (InRun \ {"awaiting"}) => blockers[u] = {}
  <1>1. \A u \in Task : H(u)
    BY DEF IInv, Host
  <1>2. TypeOK
    BY DEF IInv
  <1>3. \A u \in Task \ {t} : H(u)'
    <2> SUFFICES ASSUME NEW u \in Task \ {t} PROVE H(u)'
      OBVIOUS
    <2>1. pc'[u] = pc[u] /\ runs'[u] = runs[u] /\ left'[u] = left[u] /\ blockers'[u] \subseteq blockers[u]
      BY <1>2, HostFrame
    <2>2. Suspends(u)' = Suspends(u)
      BY <2>1 DEF Suspends
    <2> QED BY <1>1, <2>1, <2>2
  <1>4. H(t)'
    <2> USE DEF Goto, InRun, registration, TypeOK
    <2>1. CASE Spawn(t) \/ (\E d \in Task : Register(t, d))
      BY <1>1, <1>2, <2>1 DEF Spawn, Register, Suspends
    <2>2. CASE Registered(t)
      BY <1>1, <1>2, <2>2 DEF Registered, Suspends
    <2>3. CASE Enter(t)
      <3>0. /\ pc[t] = "waiting" /\ pc' = [pc EXCEPT ![t] = "entered"]
            /\ runs' = [runs EXCEPT ![t] = @ + 1]
            /\ UNCHANGED registration /\ blockers[t] = {}
        BY <2>3 DEF Enter
      <3>1. /\ pc'[t] = "entered" /\ runs'[t] = runs[t] + 1 /\ runs[t] \in Nat
            /\ left'[t] = left[t] /\ blockers'[t] = {} /\ pc[t] = "waiting"
        <4>1. pc'[t] = "entered" /\ runs'[t] = runs[t] + 1
          BY <1>2, <3>0
        <4>2. runs[t] \in Nat
          <5>1. runs[t] \in 0 .. 2
            BY <1>2
          <5> QED BY <5>1
        <4>3. left'[t] = left[t] /\ blockers'[t] = {}
          BY <3>0
        <4> QED BY <3>0, <4>1, <4>2, <4>3
      <3>2. left'[t] = {}
        BY <1>1, <3>1
      <3> QED BY <3>1, <3>2
    <2>4. CASE BodyEnds(t) \/ BodyRaises(t)
      BY <1>1, <1>2, <2>4 DEF BodyEnds, BodyRaises, Suspends
    <2>5. CASE Notified(t) \/ Finish(t)
      BY <1>1, <1>2, <2>5 DEF Notified, Finish, Suspends
    <2>6. CASE \E u \in Task : Notify(t, u)
      BY <1>1, <1>2, <2>6 DEF Notify, Suspends
    <2>7. CASE Sync(t)
      BY <1>1, <1>2, <2>7 DEF Sync, AfterSync, Suspends
    <2>8. CASE WaitEvents(t) \/ LaunchKernel(t)
      BY <1>1, <1>2, <2>8 DEF WaitEvents, LaunchKernel, Suspends
    <2>9. CASE Record(t)
      BY <1>1, <1>2, <2>9 DEF Record, Suspends
    <2> QED BY <2>1, <2>2, <2>3, <2>4, <2>5, <2>6, <2>7, <2>8, <2>9 DEF HostStep
  <1> HIDE DEF H
  <1>5. \A u \in Task : H(u)'
    BY <1>3, <1>4
  <1> QED BY <1>5 DEF Host, H
-----------------------------------------------------------------------------
(* The streams.                                                            *)

\* a host step that only moves the thread, and the streams of its runs
LEMMA QuietlyStream ==
    ASSUME IInv, NEW t \in Task, Quietly(t), NEW i \in 1 .. 2
    PROVE  StreamOf(t, i)'
  <1> DEFINE r == <<t, i>>
  <1>1. /\ StreamOf(t, i) /\ TypeOK /\ stream' = stream /\ event' = event /\ active' = active
        /\ runs[t] \in 0 .. 2 /\ event[r] \in {"created", "recorded", "occurred"}
    <2>1. UNCHANGED device
      BY QuietlyType DEF IInv
    <2>2. TypeOK /\ StreamOf(t, i)
      BY DEF IInv, Stream
    <2>3. runs[t] \in 0 .. 2 /\ event[r] \in {"created", "recorded", "occurred"}
      BY <2>2, RunShape DEF TypeOK
    <2> QED BY <2>1, <2>2, <2>3 DEF device
  <1> SUFFICES
        /\ i > runs'[t] => stream[r] = <<>> /\ event[r] = "created"
        /\ i < runs'[t] => stream[r] = <<>>
        /\ i = runs'[t] =>
            /\ pc'[t] = "entered" => stream[r] = <<>> /\ event[r] = "created"
            /\ pc'[t] \in {"body", "returned"} => event[r] = "created"
            /\ pc'[t] \in {"early", "sync"} /\ t \in Gpu => event[r] # "created"
            /\ pc'[t] \in {"late", "awaiting", "waiting", "ended"} => stream[r] = <<>>
    BY <1>1 DEF StreamOf
  <1>2. /\ t \notin Gpu => stream[r] = <<>>
        /\ i > runs[t] => stream[r] = <<>> /\ event[r] = "created"
        /\ i < runs[t] => stream[r] = <<>>
        /\ i = runs[t] =>
            /\ pc[t] = "entered" => stream[r] = <<>> /\ event[r] = "created"
            /\ pc[t] \in {"body", "returned"} => event[r] = "created"
            /\ pc[t] \in {"early", "sync"} /\ t \in Gpu => event[r] # "created"
            /\ pc[t] \in {"late", "awaiting", "waiting", "ended"} => stream[r] = <<>>
        /\ event[r] = "occurred" => stream[r] = <<>>
    BY <1>1 DEF StreamOf
  <1>3. pc \in [Task -> Pc] /\ runs \in [Task -> 0 .. 2]
    BY <1>1 DEF TypeOK
  <1>4. pc[t] \in {"new", "registering"} => runs[t] = 0
    BY DEF IInv, Host
  <1>5. CASE Enter(t)
    <2>1. pc[t] = "waiting" /\ pc'[t] = "entered" /\ runs'[t] = runs[t] + 1
      BY <1>3, <1>5 DEF Enter, Goto
    <2> QED BY <1>1, <1>2, <2>1
  <1>6. CASE Spawn(t) \/ Registered(t) \/ BodyEnds(t) \/ Notified(t) \/ Finish(t)
    BY <1>2, <1>3, <1>4, <1>6 DEF Spawn, Registered, BodyEnds, Notified, Finish, Goto
  <1>7. CASE BodyRaises(t)
    BY <1>2, <1>3, <1>7 DEF BodyRaises, Goto, Current
  <1>8. CASE (\E d \in Task : Register(t, d)) \/ (\E u \in Task : Notify(t, u))
    BY <1>2, <1>8 DEF Register, Notify
  <1>9. CASE Sync(t)
    <2>1. pc[t] = "sync" /\ pc'[t] \in {"awaiting", "late"} /\ runs' = runs /\ event[Current(t)] # "recorded"
      BY <1>3, <1>9 DEF Sync, AfterSync, Goto
    <2>2. i = runs[t] => stream[r] = <<>>
      BY <1>1, <1>2, <2>1 DEF Current
    <2> QED BY <1>2, <2>1, <2>2
  <1> QED BY <1>5, <1>6, <1>7, <1>8, <1>9 DEF Quietly

LEMMA LoudlyStream ==
    ASSUME IInv, NEW t \in Task, Loudly(t), NEW i \in 1 .. 2
    PROVE  StreamOf(t, i)'
  <1> DEFINE r == <<t, i>>
             s == stream[r]
  <1>1. TypeOK /\ StreamOf(t, i) /\ active' = active /\ runs' = runs /\ r \in Run
    <2>1. runs' = runs /\ active' = active
      BY DEF Loudly, WaitEvents, LaunchKernel, Record
    <2> QED BY <2>1, RunShape DEF IInv, Stream
  <1>2. s \in Seq(Operation) /\ event[r] \in {"created", "recorded", "occurred"} /\ runs[t] \in 0 .. 2
    BY <1>1 DEF TypeOK
  <1>3. pc \in [Task -> Pc]
    BY <1>1 DEF TypeOK
  <1>4. pc[t] \in {"entered", "body", "returned"} /\ runs[t] > 0
    <2>1. pc[t] \in {"entered", "body", "returned"}
      BY DEF Loudly, WaitEvents, LaunchKernel, Record, Goto
    <2> QED BY <2>1 DEF IInv, Host, InRun
  <1>5. CASE i # runs[t]
    <2>1. r # Current(t)
      BY <1>5 DEF Current
    <2>2. stream'[r] = s
      BY <1>1, <2>1, LoudlyEnqueues DEF TypeOK
    <2>3. event'[r] = event[r]
      BY <1>1, <2>1 DEF Loudly, WaitEvents, LaunchKernel, Record, TypeOK
    <2> QED BY <1>1, <1>5, <2>2, <2>3 DEF StreamOf
  <1>6. CASE i = runs[t]
    <2>1. r = Current(t)
      BY <1>6 DEF Current
    <2>2. event[r] = "created" /\ (pc[t] = "entered" => s = <<>>)
      BY <1>1, <1>4, <1>6 DEF StreamOf
    <2>3. /\ t \notin Gpu => s = <<>>
          /\ \A k \in DOMAIN s : s[k].op # "record" /\ (s[k].op = "wait" => k = 1)
          /\ r \in active => s # <<>> /\ s[1].op = "kernel"
      BY <1>1, <2>2 DEF StreamOf
    <2>4. CASE t \notin Gpu
      <3>1. stream' = stream /\ event' = event /\ pc'[t] \in {"body", "sync"}
            /\ (pc'[t] = "sync" => pc[t] = "returned")
        BY <1>3, <2>4 DEF Loudly, WaitEvents, LaunchKernel, Record, Goto
      <3> QED BY <1>1, <1>6, <2>2, <2>3, <2>4, <3>1 DEF StreamOf
    <2>5. CASE t \in Gpu
      <3>1. PICK o \in Operation :
                /\ stream' = [stream EXCEPT ![r] = Append(s, o)]
                /\ WaitEvents(t) => o.op = "wait"
                /\ LaunchKernel(t) => o.op = "kernel"
                /\ Record(t) => o.op = "record"
        BY <1>1, <2>1, <2>5, LoudlyEnqueues
      <3> DEFINE n == stream'[r]
      <3>2. n = Append(s, o)
        BY <1>1, <3>1 DEF TypeOK
      <3> HIDE DEF n, s
      <3>3. /\ n # <<>> /\ Len(n) = Len(s) + 1 /\ Len(s) \in Nat
            /\ DOMAIN n = 1 .. Len(s) + 1 /\ DOMAIN s = 1 .. Len(s)
            /\ \A k \in DOMAIN s : n[k] = s[k]
            /\ n[Len(s) + 1] = o
            /\ s = <<>> => n[1] = o /\ Len(s) = 0
            /\ s # <<>> => n[1] = s[1]
        BY <1>2, <3>2, Appended
      <3>4. r \in active' => n # <<>> /\ n[1].op = "kernel"
        BY <1>1, <2>3, <3>3
      <3>5. CASE WaitEvents(t)
        <4>1. pc'[t] = "body" /\ event' = event /\ s = <<>> /\ o.op = "wait"
          BY <1>3, <2>2, <3>1, <3>5 DEF WaitEvents, Goto
        <4>2. \A k \in DOMAIN n : n[k].op # "record" /\ (n[k].op = "wait" => k = 1)
          BY <3>3, <4>1
        <4> QED BY <1>1, <1>6, <2>2, <2>5, <3>4, <4>1, <4>2 DEF StreamOf, n
      <3>6. CASE LaunchKernel(t)
        <4>1. pc' = pc /\ pc[t] = "body" /\ event' = event /\ o.op = "kernel"
          BY <3>1, <3>6 DEF LaunchKernel
        <4>2. \A k \in DOMAIN n : n[k].op # "record" /\ (n[k].op = "wait" => k = 1)
          BY <2>3, <3>3, <4>1
        <4> QED BY <1>1, <1>6, <2>2, <2>5, <3>4, <4>1, <4>2 DEF StreamOf, n
      <3>7. CASE Record(t)
        <4>1. pc'[t] \in {"sync", "early"} /\ event'[r] = "recorded" /\ o.op = "record"
          BY <1>1, <1>3, <2>1, <2>5, <3>1, <3>7 DEF Record, Goto, TypeOK
        <4>2. \A k \in DOMAIN n : (n[k].op = "record") = (k = Len(n)) /\ (n[k].op = "wait" => k = 1)
          BY <2>3, <3>3, <4>1
        <4> QED BY <1>1, <1>6, <2>5, <3>3, <3>4, <4>1, <4>2 DEF StreamOf, n
      <3> QED BY <3>5, <3>6, <3>7 DEF Loudly
    <2> QED BY <2>4, <2>5
  <1> QED BY <1>5, <1>6

LEMMA HostStream ==
    ASSUME IInv, NEW t \in Task, HostStep(t)
    PROVE  Stream'
  <1>1. \A i \in 1 .. 2 : StreamOf(t, i)'
    BY QuietlyStream, LoudlyStream, HostStepIs
  <1>2. ASSUME NEW u \in Task \ {t}, NEW i \in 1 .. 2 PROVE StreamOf(u, i)'
    <2>1. /\ pc'[u] = pc[u] /\ runs'[u] = runs[u] /\ active' = active
          /\ stream'[<<u, i>>] = stream[<<u, i>>] /\ event'[<<u, i>>] = event[<<u, i>>]
      BY HostFrame DEF IInv
    <2>2. StreamOf(u, i)
      BY DEF IInv, Stream
    <2> QED BY <2>1, <2>2 DEF StreamOf
  <1>3. \A u \in Task, i \in 1 .. 2 : StreamOf(u, i)'
    BY <1>1, <1>2
  <1> QED BY <1>3 DEF Stream, StreamOf
LEMMA PoppedStream ==
    ASSUME IInv, NEW t \in Task, NEW i \in 1 .. 2, StreamStep(<<t, i>>), ~KernelStarts(<<t, i>>)
    PROVE  StreamOf(t, i)'
  <1> DEFINE r == <<t, i>>
             s == stream[r]
             n == stream'[r]
  <1>1. TypeOK /\ StreamOf(t, i) /\ r \in Run /\ Stream /\ runs[t] \in 0 .. 2
    <2>1. TypeOK /\ StreamOf(t, i) /\ r \in Run /\ Stream
      BY RunShape DEF IInv, Stream
    <2> QED BY <2>1 DEF TypeOK
  <1>2. UNCHANGED <<pc, runs>>
    BY <1>1, StreamStepType
  <1>3. /\ s # <<>> /\ n = Tail(s) /\ s \in Seq(Operation)
        /\ StreamWaits(r) => s[1].op = "wait"
        /\ KernelEnds(r) => s[1].op = "kernel"
        /\ EventOccurs(r) => s[1].op = "record"
    BY <1>1, StreamStepPops DEF TypeOK
  <1>4. /\ t \in Gpu /\ i = runs[t] /\ pc[t] \notin {"entered", "late", "awaiting", "waiting", "ended"}
        /\ event[r] = "created" => \A k \in DOMAIN s : s[k].op # "record"
        /\ event[r] = "recorded" => \A k \in DOMAIN s : (s[k].op = "record") = (k = Len(s))
        /\ event[r] # "occurred"
        /\ \A k \in DOMAIN s : s[k].op = "wait" => k = 1
        /\ r \in active => s[1].op = "kernel"
        /\ pc[t] \in {"body", "returned"} => event[r] = "created"
        /\ pc[t] \in {"early", "sync"} => event[r] # "created"
    <2>1. t \in Gpu /\ ~(i > runs[t]) /\ ~(i < runs[t]) /\ event[r] # "occurred"
      BY <1>1, <1>3 DEF StreamOf
    <2>2. i = runs[t]
      BY <1>1, <2>1
    <2> QED BY <1>1, <1>3, <2>1, <2>2 DEF StreamOf
  <1>5. event[r] \in {"created", "recorded"}
    BY <1>1, <1>4 DEF TypeOK
  <1> HIDE DEF s, n
  <1>6. /\ Len(s) \in Nat \ {0} /\ Len(n) = Len(s) - 1
        /\ DOMAIN n = 1 .. Len(s) - 1 /\ DOMAIN s = 1 .. Len(s)
        /\ \A k \in DOMAIN n : n[k] = s[k + 1]
        /\ n = <<>> <=> Len(s) = 1
    BY <1>3, Popped
  <1>7. \A k \in DOMAIN n : n[k].op # "wait" /\ k + 1 \in DOMAIN s
    BY <1>4, <1>6
  <1>8. CASE StreamWaits(r) \/ KernelEnds(r)
    <2>1. event' = event /\ r \notin active'
      BY <1>3, <1>4, <1>8 DEF StreamWaits, KernelEnds
    <2>2. event[r] = "created" => \A k \in DOMAIN n : n[k].op # "record"
      BY <1>4, <1>6, <1>7
    <2>3. event[r] = "recorded" => Len(s) # 1
      <3>1. 1 \in DOMAIN s /\ s[1].op # "record"
        BY <1>3, <1>6, <1>8
      <3> QED BY <1>4, <3>1
    <2>4. event[r] = "recorded" => n # <<>> /\ \A k \in DOMAIN n : (n[k].op = "record") = (k = Len(n))
      BY <2>3, <1>4, <1>6, <1>7
    <2> QED BY <1>1, <1>2, <1>4, <1>7, <2>1, <2>2, <2>4 DEF StreamOf, n
  <1>9. CASE EventOccurs(r)
    <2>1. event'[r] = "occurred" /\ r \notin active'
      BY <1>1, <1>3, <1>4, <1>9 DEF EventOccurs, TypeOK
    <2>2. event[r] = "recorded" /\ n = <<>>
      <3>1. 1 \in DOMAIN s /\ s[1].op = "record"
        BY <1>3, <1>6, <1>9
      <3>2. event[r] = "recorded"
        BY <1>4, <1>5, <3>1
      <3>3. Len(s) = 1
        BY <1>4, <3>1, <3>2
      <3> QED BY <1>6, <3>2, <3>3
    <2> QED BY <1>1, <1>2, <1>4, <2>1, <2>2, <1>7 DEF StreamOf, n
  <1> QED BY <1>8, <1>9 DEF StreamStep

LEMMA StreamStepStream ==
    ASSUME IInv, NEW r \in Run, StreamStep(r)
    PROVE  Stream'
  <1>1. TypeOK /\ Stream /\ UNCHANGED <<pc, runs>>
    BY StreamStepType DEF IInv
  <1>2. PICK t \in Task, i \in 1 .. 2 : r = <<t, i>>
    BY DEF Run
  <1>3. CASE KernelStarts(r)
    <2>1. stream' = stream /\ event' = event /\ active' = active \cup {r}
      BY <1>3 DEF KernelStarts
    <2>2. stream[r] # <<>> /\ stream[r][1].op = "kernel"
      BY <1>1, <1>3, Popped DEF KernelStarts, AtHead, TypeOK
    <2>3. ASSUME NEW u \in Task, NEW j \in 1 .. 2 PROVE StreamOf(u, j)'
      BY <1>1, <2>1, <2>2 DEF StreamOf, Stream
    <2> QED BY <2>3 DEF Stream, StreamOf
  <1>4. CASE ~KernelStarts(r)
    <2>1. StreamOf(t, i)'
      BY <1>2, <1>4, PoppedStream
    <2>2. ASSUME NEW u \in Task, NEW j \in 1 .. 2, <<u, j>> # r PROVE StreamOf(u, j)'
      <3>1. stream'[<<u, j>>] = stream[<<u, j>>]
        BY <1>1, <1>4, <2>2, RunShape, StreamStepPops DEF TypeOK
      <3>2. event'[<<u, j>>] = event[<<u, j>>] /\ (<<u, j>> \in active' => <<u, j>> \in active)
        BY <1>1, <1>4, <2>2, RunShape DEF TypeOK, StreamStep, StreamWaits, KernelEnds, EventOccurs
      <3>3. StreamOf(u, j)
        BY <1>1 DEF Stream
      <3> QED BY <1>1, <3>1, <3>2, <3>3 DEF StreamOf
    <2>3. ASSUME NEW u \in Task, NEW j \in 1 .. 2 PROVE StreamOf(u, j)'
      <3>1. CASE <<u, j>> = r
        <4>1. u = t /\ j = i
          BY <1>2, <3>1
        <4> QED BY <2>1, <4>1
      <3>2. CASE <<u, j>> # r
        BY <2>2, <3>2
      <3> QED BY <3>1, <3>2
    <2> QED BY <2>3 DEF Stream, StreamOf
  <1> QED BY <1>3, <1>4

-----------------------------------------------------------------------------
(* Events, and who is sure to execute after whom.                          *)

LEMMA EventsStep ==
    ASSUME IInv, (\E t \in Task : HostStep(t)) \/ (\E r \in Run : StreamStep(r))
    PROVE  EventsRecorded'
  <1>1. TypeOK /\ Host /\ Stream
    BY DEF IInv
  <1>2. \A r \in Run : event[r] # "created" => event'[r] # "created"
    <2>1. CASE \E t \in Task : HostStep(t)
      <3>1. PICK t \in Task : HostStep(t)
        BY <2>1
      <3>2. CASE Quietly(t)
        BY <1>1, <3>2, QuietlyType DEF device
      <3>3. CASE Loudly(t)
        BY <1>1, <3>3 DEF Loudly, WaitEvents, LaunchKernel, Record, TypeOK
      <3> QED BY <3>1, <3>2, <3>3, HostStepIs
    <2>2. CASE \E r \in Run : StreamStep(r)
      BY <1>1, <2>2 DEF StreamStep, StreamWaits, KernelStarts, KernelEnds, EventOccurs, TypeOK
    <2> QED BY <2>1, <2>2
  <1>3. ASSUME NEW u \in Task, NEW e \in events'[u] PROVE e \in Run /\ event[e] # "created"
    <2>1. CASE e \in events[u]
      BY <1>1, <2>1 DEF IInv, EventsRecorded, TypeOK
    <2>2. CASE e \notin events[u]
      <3>1. PICK t \in Task : Notify(t, u) /\ pc[t] = "early" /\ e = Current(t)
        <4>1. CASE \E r \in Run : StreamStep(r)
          BY <1>1, <2>2, <4>1, StreamStepType
        <4>2. CASE \E t \in Task : Loudly(t)
          BY <1>1, <2>2, <4>2 DEF Loudly, WaitEvents, LaunchKernel, Record, TypeOK
        <4>3. CASE \E t \in Task : Quietly(t)
          <5>1. PICK t \in Task : Quietly(t)
            BY <4>3
          <5>2. events' # events
            BY <2>2
          <5>3. PICK v \in Task : Notify(t, v)
            BY <5>1, <5>2 DEF Quietly, Spawn, Register, Registered, Enter, BodyEnds, BodyRaises, Notified,
                              Sync, AfterSync, Finish
          <5>4. v = u
            BY <1>1, <2>2, <5>3 DEF Notify, TypeOK
          <5> QED BY <1>1, <2>2, <5>3, <5>4 DEF Notify, TypeOK
        <4> QED BY <4>1, <4>2, <4>3, HostStepIs
      <3>2. runs[t] > 0 /\ t \in Gpu
        BY <1>1, <3>1 DEF Host, InRun
      <3>3. e \in Run /\ e = <<t, runs[t]>> /\ runs[t] \in 1 .. 2
        BY <1>1, <3>1, <3>2, CurrentRun
      <3> QED BY <1>1, <3>1, <3>2, <3>3 DEF Stream, StreamOf
    <2> QED BY <2>1, <2>2
  <1> QED BY <1>2, <1>3 DEF EventsRecorded
LEMMA EmptyIsOver ==
    ASSUME IInv, NEW d \in Task, runs[d] > 0, stream[Current(d)] = <<>>
    PROVE  Over(d)
  <1>1. runs[d] \in 1 .. 2 /\ Current(d) = <<d, runs[d]>>
    BY CurrentRun DEF IInv
  <1>2. ASSUME NEW i \in 1 .. 2 PROVE stream[<<d, i>>] = <<>>
    <2>1. StreamOf(d, i)
      BY DEF IInv, Stream
    <2> QED BY <1>1, <2>1 DEF StreamOf
  <1> QED BY <1>2 DEF Over

LEMMA OccurredIsOver ==
    ASSUME IInv, NEW d \in Task, runs[d] > 0, event[Current(d)] = "occurred"
    PROVE  Over(d)
  <1>1. runs[d] \in 1 .. 2 /\ Current(d) = <<d, runs[d]>>
    BY CurrentRun DEF IInv
  <1>2. StreamOf(d, runs[d])
    BY <1>1 DEF IInv, Stream
  <1>3. stream[Current(d)] = <<>>
    BY <1>1, <1>2 DEF StreamOf
  <1> QED BY <1>3, EmptyIsOver

Step == (\E t \in Task : HostStep(t)) \/ (\E r \in Run : StreamStep(r))

\* a settled task stays settled, its run the last, its streams empty
LEMMA SettledKept ==
    ASSUME IInv, Step, NEW d \in Task, Settled(d)
    PROVE  Settled(d)' /\ runs'[d] = runs[d] /\ (Over(d) => Over(d)')
  <1>1. TypeOK /\ Host /\ Stream
    BY DEF IInv
  <1>2. CASE \E r \in Run : StreamStep(r)
    <2>1. PICK r \in Run : StreamStep(r)
      BY <1>2
    <2>2. pc' = pc /\ runs' = runs
      BY <1>1, <2>1, StreamStepType
    <2>3. ASSUME Over(d), NEW i \in 1 .. 2 PROVE stream'[<<d, i>>] = <<>>
      <3>1. stream[<<d, i>>] = <<>> /\ <<d, i>> \in Run
        BY <2>3, RunShape DEF Over
      <3>2. CASE KernelStarts(r)
        BY <3>1, <3>2 DEF KernelStarts
      <3>3. CASE ~KernelStarts(r)
        BY <1>1, <2>1, <3>1, <3>3, StreamStepPops DEF TypeOK
      <3> QED BY <3>2, <3>3
    <2> QED BY <2>2, <2>3 DEF Settled, Suspends, Over
  <1>3. ASSUME NEW t \in Task, HostStep(t), t # d
        PROVE  Settled(d)' /\ runs'[d] = runs[d] /\ (Over(d) => Over(d)')
    BY <1>1, <1>3, HostFrame DEF Settled, Suspends, Over
  <1>4. CASE HostStep(d)
    <2>1. pc[d] \in {"early", "sync", "late", "ended"} /\ ~Suspends(d) /\ runs[d] > 0
      BY DEF Settled
    <2>2. ~Loudly(d)
      BY <2>1 DEF Loudly, WaitEvents, LaunchKernel, Record, Goto
    <2>3. Quietly(d)
      BY <1>4, <2>2, HostStepIs
    <2>4. pc'[d] \in {"early", "sync", "late", "ended"} /\ runs' = runs
      BY <1>1, <2>1, <2>3 DEF Quietly, Spawn, Register, Registered, Enter, BodyEnds, BodyRaises, Notify,
                              Notified, Sync, AfterSync, Finish, Goto, TypeOK
    <2>5. stream' = stream
      BY <1>1, <2>3, QuietlyType DEF device
    <2> QED BY <2>1, <2>4, <2>5 DEF Settled, Suspends, Over
  <1> QED BY <1>2, <1>3, <1>4 DEF Step

\* an event that is held is waited for, or has occurred
LEMMA HoldsKept ==
    ASSUME IInv, Step, NEW t \in Task, NEW d \in Task, Settled(d), Holds(t, d)
    PROVE  Over(d)' \/ Holds(t, d)' \/ Waits(t, d)'
  <1>1. TypeOK /\ Host /\ Stream
    BY DEF IInv
  <1>2. Settled(d)' /\ Current(d)' = Current(d) /\ (Over(d) => Over(d)') /\ runs[d] > 0
    BY SettledKept DEF Current, Settled
  <1>3. pc[t] \in {"registering", "awaiting", "waiting", "entered"} /\ Current(d) \in events[t]
    BY DEF Holds
  <1>4. CASE \E r \in Run : StreamStep(r)
    <2>1. pc' = pc /\ events' = events
      BY <1>1, <1>4, StreamStepType
    <2> QED BY <1>2, <1>3, <2>1 DEF Holds
  <1>5. ASSUME NEW u \in Task, HostStep(u), u # t PROVE Holds(t, d)'
    BY <1>1, <1>2, <1>3, <1>5, HostFrame DEF Holds
  <1>6. CASE Quietly(t)
    <2>1. events[t] \subseteq events'[t]
      <3>1. CASE \E u \in Task : Notify(t, u)
        BY <1>3, <3>1 DEF Notify
      <3>2. CASE ~\E u \in Task : Notify(t, u)
        BY <1>6, <3>2 DEF Quietly, Spawn, Register, Registered, Enter, BodyEnds, BodyRaises, Notified,
                          Sync, AfterSync, Finish
      <3> QED BY <3>1, <3>2
    <2>2. pc'[t] \in {"registering", "awaiting", "waiting", "entered"}
      BY <1>1, <1>3, <1>6 DEF Quietly, Spawn, Register, Registered, Enter, BodyEnds, BodyRaises, Notify,
                              Notified, Sync, AfterSync, Finish, Goto, TypeOK
    <2> QED BY <1>2, <1>3, <2>1, <2>2 DEF Holds
  <1>7. CASE Loudly(t)
    <2>1. WaitEvents(t)
      BY <1>3, <1>7 DEF Loudly, LaunchKernel, Record, Goto
    <2>2. event[Current(d)] \in {"recorded", "occurred"}
      <3>1. Current(d) \in Run
        BY <1>1, <1>2, CurrentRun
      <3>2. event[Current(d)] # "created"
        BY <1>3 DEF IInv, EventsRecorded
      <3> QED BY <1>1, <3>1, <3>2 DEF TypeOK
    <2>3. CASE event[Current(d)] = "occurred"
      BY <1>2, <2>3, OccurredIsOver
    <2>4. CASE event[Current(d)] = "recorded"
      <3> DEFINE on == {e \in events[t] : event[e] = "recorded"}
      <3>1. Current(d) \in on
        BY <1>3, <2>4
      <3>2. t \in Gpu
        BY <2>1, <3>1 DEF WaitEvents
      <3>3. PICK o \in Operation : /\ stream' = [stream EXCEPT ![Current(t)] = Append(stream[Current(t)], o)]
                                   /\ o.op = "wait" /\ o.on = on
        BY <1>1, <1>7, <2>1, <3>2, LoudlyEnqueues
      <3>4. runs[t] > 0 /\ pc[t] = "entered" /\ runs' = runs
        BY <1>1, <2>1 DEF WaitEvents, Goto, Host, InRun
      <3>5. Current(t) \in Run /\ stream[Current(t)] = <<>>
        <4>1. Current(t) \in Run /\ runs[t] \in 1 .. 2 /\ Current(t) = <<t, runs[t]>>
          BY <1>1, <3>4, CurrentRun
        <4>2. StreamOf(t, runs[t])
          BY <1>1, <4>1 DEF Stream
        <4> QED BY <3>4, <4>1, <4>2 DEF StreamOf
      <3>6. stream'[Current(t)] = Append(stream[Current(t)], o)
        BY <1>1, <3>3, <3>5 DEF TypeOK
      <3>7. stream'[Current(t)] # <<>> /\ stream'[Current(t)][1] = o
        BY <1>1, <3>5, <3>6, Appended DEF TypeOK
      <3>8. Current(t)' = Current(t)
        BY <3>4 DEF Current
      <3> QED BY <1>2, <3>1, <3>3, <3>4, <3>7, <3>8 DEF Waits
    <2> QED BY <2>2, <2>3, <2>4
  <1> QED BY <1>4, <1>5, <1>6, <1>7, HostStepIs DEF Step

\* a wait stays the first operation of its stream until its events occurred
LEMMA WaitsKept ==
    ASSUME IInv, Step, NEW t \in Task, NEW d \in Task, Settled(d), Waits(t, d)
    PROVE  Over(d)' \/ Waits(t, d)'
  <1>1. TypeOK /\ Host /\ Stream
    BY DEF IInv
  <1>2. Settled(d)' /\ Current(d)' = Current(d) /\ (Over(d) => Over(d)') /\ runs[d] > 0
    BY SettledKept DEF Current, Settled
  <1>3. /\ runs[t] > 0 /\ stream[Current(t)] # <<>>
        /\ stream[Current(t)][1].op = "wait" /\ Current(d) \in stream[Current(t)][1].on
    BY DEF Waits
  <1>4. Current(t) \in Run /\ runs[t] \in 1 .. 2 /\ Current(t) = <<t, runs[t]>>
    BY <1>1, <1>3, CurrentRun
  <1>5. CASE \E r \in Run : StreamStep(r)
    <2>1. PICK r \in Run : StreamStep(r)
      BY <1>5
    <2>2. runs' = runs
      BY <1>1, <2>1, StreamStepType
    <2>3. CASE KernelStarts(r)
      BY <1>2, <1>3, <2>2, <2>3 DEF KernelStarts, Waits, Current
    <2>4. CASE ~KernelStarts(r) /\ r # Current(t)
      <3>1. stream'[Current(t)] = stream[Current(t)]
        BY <1>1, <1>4, <2>1, <2>4, StreamStepPops DEF TypeOK
      <3> QED BY <1>2, <1>3, <2>2, <3>1 DEF Waits, Current
    <2>5. CASE ~KernelStarts(r) /\ r = Current(t)
      <3>1. StreamWaits(r) /\ \A e \in stream[r][1].on : event[e] = "occurred"
        BY <1>1, <1>3, <2>1, <2>5, StreamStepPops DEF StreamStep
      <3> QED BY <1>2, <1>3, <2>5, <3>1, OccurredIsOver
    <2> QED BY <2>3, <2>4, <2>5
  <1>6. ASSUME NEW u \in Task, HostStep(u), u # t PROVE Waits(t, d)'
    <2>1. runs'[t] = runs[t] /\ \A i \in 1 .. 2 : stream'[<<t, i>>] = stream[<<t, i>>]
      BY <1>1, <1>6, HostFrame
    <2>2. Current(t)' = Current(t) /\ stream'[Current(t)] = stream[Current(t)]
      BY <1>4, <2>1 DEF Current
    <2> QED BY <1>2, <1>3, <2>1, <2>2 DEF Waits
  <1>7. CASE Quietly(t)
    <2>1. stream' = stream
      BY <1>1, <1>7, QuietlyType DEF device
    <2>2. pc[t] # "waiting"
      <3>1. StreamOf(t, runs[t])
        BY <1>1, <1>4 DEF Stream
      <3> QED BY <1>3, <1>4, <3>1 DEF StreamOf
    <2>3. runs' = runs
      BY <1>7, <2>2 DEF Quietly, Spawn, Register, Registered, Enter, BodyEnds, BodyRaises, Notify,
                        Notified, Sync, AfterSync, Finish, Goto
    <2> QED BY <1>2, <1>3, <2>1, <2>3 DEF Waits, Current
  <1>8. CASE Loudly(t)
    <2>1. runs' = runs
      BY <1>8 DEF Loudly, WaitEvents, LaunchKernel, Record
    <2>2. stream'[Current(t)] # <<>> /\ stream'[Current(t)][1] = stream[Current(t)][1]
      <3>1. CASE stream' = stream
        BY <1>3, <3>1
      <3>2. CASE stream' # stream
        <4>1. PICK o \in Operation : stream' = [stream EXCEPT ![Current(t)] = Append(stream[Current(t)], o)]
          BY <1>1, <1>8, <3>2, LoudlyEnqueues
        <4>2. stream'[Current(t)] = Append(stream[Current(t)], o) /\ stream[Current(t)] \in Seq(Operation)
          BY <1>1, <1>4, <4>1 DEF TypeOK
        <4> QED BY <1>3, <4>2, Appended
      <3> QED BY <3>1, <3>2
    <2> QED BY <1>2, <1>3, <2>1, <2>2 DEF Waits, Current
  <1> QED BY <1>5, <1>6, <1>7, <1>8, HostStepIs DEF Step

LEMMA PassedKept ==
    ASSUME IInv, Step, NEW t \in Task, NEW d \in Task, Passed(t, d)
    PROVE  Passed(t, d)'
  BY SettledKept, HoldsKept, WaitsKept DEF Passed

\* an end is settled, and its streams are empty
LEMMA EndIsOver ==
    ASSUME IInv, NEW d \in Task, pc[d] \in {"late", "ended"}
    PROVE  Settled(d) /\ Over(d)
  <1>1. runs[d] > 0 /\ ~Suspends(d)
    BY DEF IInv, Host, InRun
  <1>2. runs[d] \in 1 .. 2 /\ Current(d) = <<d, runs[d]>>
    BY <1>1, CurrentRun DEF IInv
  <1>3. StreamOf(d, runs[d])
    BY <1>2 DEF IInv, Stream
  <1>4. stream[Current(d)] = <<>>
    BY <1>2, <1>3 DEF StreamOf
  <1> QED BY <1>1, <1>4, EmptyIsOver DEF Settled

\* whom t depends on is registered, has blocked it, and has passed
LEMMA KeptKept ==
    ASSUME IInv, Step, NEW t \in Task, NEW d \in Task, Kept(t, d)
    PROVE  Kept(t, d)'
  <1>1. TypeOK /\ Host /\ Stream
    BY DEF IInv
  <1>2. CASE Passed(t, d)
    BY <1>2, PassedKept DEF Kept
  <1>3. CASE d \in left[t]
    <2>1. CASE \E r \in Run : StreamStep(r)
      BY <1>1, <1>3, <2>1, StreamStepType DEF Kept
    <2>2. ASSUME NEW u \in Task, HostStep(u), u # t PROVE Kept(t, d)'
      BY <1>1, <1>3, <2>2, HostFrame DEF Kept
    <2>3. CASE HostStep(t)
      <3>1. CASE Register(t, d)
        <4>1. CASE pc[d] = "ended"
          <5>1. Passed(t, d)
            BY <4>1, EndIsOver DEF Passed
          <5> QED BY <5>1, PassedKept DEF Kept
        <4>2. CASE pc[d] # "ended"
          BY <1>1, <3>1, <4>2 DEF Register, Kept, TypeOK
        <4> QED BY <4>1, <4>2
      <3>2. CASE ~Register(t, d)
        <4>1. pc[t] \in {"new", "registering", "awaiting"}
          BY <1>1, <1>3 DEF Host
        <4>2. d \in left'[t]
          <5>1. CASE \E e \in Task : Register(t, e)
            <6>1. PICK e \in Task : Register(t, e) /\ e # d
              BY <3>2, <5>1
            <6> QED BY <1>1, <1>3, <6>1 DEF Register, TypeOK
          <5>2. CASE ~\E e \in Task : Register(t, e)
            BY <1>3, <2>3, <4>1, <5>2 DEF HostStep, Spawn, Registered, Enter, BodyEnds, BodyRaises, Notify,
                 Notified, Sync, AfterSync, Finish, WaitEvents, LaunchKernel, Record, Goto, registration
          <5> QED BY <5>1, <5>2
        <4> QED BY <4>2 DEF Kept
      <3> QED BY <3>1, <3>2
    <2> QED BY <2>1, <2>2, <2>3 DEF Step
  <1>4. CASE d \in blockers[t]
    <2>1. CASE Notify(d, t)
      <3>1. CASE pc[d] = "late"
        <4>1. Passed(t, d)
          BY <3>1, EndIsOver DEF Passed
        <4> QED BY <4>1, PassedKept DEF Kept
      <3>2. CASE pc[d] = "early"
        <4>1. Settled(d) /\ Settled(d)' /\ Current(d)' = Current(d)
          <5>1. Settled(d)
            BY <1>1, <3>2 DEF Settled, Host, InRun
          <5> QED BY <5>1, SettledKept DEF Current
        <4>2. pc'[t] = pc[t] /\ Current(d) \in events'[t]
          BY <1>1, <2>1, <3>2 DEF Notify, TypeOK
        <4>3. pc[t] = "waiting"
          <5>1. pc[t] \notin {"registering", "awaiting"}
            BY <2>1 DEF Notify
          <5>2. pc[t] # "new"
            BY <1>1, <1>4 DEF Host
          <5> QED BY <1>1, <1>4, <5>1, <5>2 DEF Host, TypeOK, Pc, InRun
        <4> QED BY <4>1, <4>2, <4>3 DEF Kept, Passed, Holds
      <3> QED BY <2>1, <3>1, <3>2 DEF Notify
    <2>2. CASE ~Notify(d, t)
      <3>1. d \in blockers'[t]
        <4>1. CASE \E r \in Run : StreamStep(r)
          BY <1>1, <1>4, <4>1, StreamStepType
        <4>2. ASSUME NEW u \in Task, NEW v \in Task, Notify(u, v) PROVE d \in blockers'[t]
          BY <1>1, <1>4, <2>2, <4>2 DEF Notify, TypeOK
        <4>3. ASSUME NEW u \in Task, NEW e \in Task, Register(u, e) PROVE d \in blockers'[t]
          BY <1>1, <1>4, <4>3 DEF Register, TypeOK
        <4>4. CASE blockers' = blockers
          BY <1>4, <4>4
        <4> QED BY <4>1, <4>2, <4>3, <4>4 DEF Step, HostStep, Spawn, Registered, Enter, BodyEnds, BodyRaises,
               Notified, Sync, AfterSync, Finish, WaitEvents, LaunchKernel, Record, registration
      <3> QED BY <3>1 DEF Kept
    <2> QED BY <2>1, <2>2
  <1> QED BY <1>2, <1>3, <1>4 DEF Kept
\* a new dependency of t is what t is about to register with
LEMMA OrderStep ==
    ASSUME IInv, Step
    PROVE  Order'
  <1>1. TypeOK /\ Host /\ Stream
    BY DEF IInv
  <1>2. ASSUME NEW t \in Task, NEW d \in Deps[t] PROVE Kept(t, d)'
    <2>1. Kept(t, d) /\ d \in Task
      BY StreamsAssumption DEF IInv, Order
    <2> QED BY <2>1, KeptKept
  <1>3. ASSUME NEW t \in Task, runs'[t] = 2 \/ (runs'[t] = 1 /\ pc'[t] \in {"awaiting", "waiting"}),
               NEW d \in Awaits[t]
        PROVE  Kept(t, d)'
    <2>1. CASE runs[t] = 2 \/ (runs[t] = 1 /\ pc[t] \in {"awaiting", "waiting"})
      <3>1. Kept(t, d) /\ d \in Task
        BY <2>1, StreamsAssumption DEF IInv, Order
      <3> QED BY <3>1, KeptKept
    <2>2. CASE ~(runs[t] = 2 \/ (runs[t] = 1 /\ pc[t] \in {"awaiting", "waiting"}))
      <3>1. HostStep(t)
        <4>1. CASE \E r \in Run : StreamStep(r)
          BY <1>1, <1>3, <2>2, <4>1, StreamStepType
        <4>2. ASSUME NEW u \in Task, HostStep(u), u # t PROVE FALSE
          BY <1>1, <1>3, <2>2, <4>2, HostFrame
        <4> QED BY <4>1, <4>2 DEF Step
      <3>2. pc[t] \in {"new", "registering"} => runs[t] = 0
        BY <1>1 DEF Host
      <3>3. runs[t] \in 0 .. 2 /\ pc \in [Task -> Pc] /\ runs \in [Task -> 0 .. 2]
        BY <1>1 DEF TypeOK
      <3>4. Sync(t) /\ Suspends(t)
        <4>1. CASE Enter(t)
          <5>1. runs'[t] = runs[t] + 1 /\ pc'[t] = "entered" /\ pc[t] = "waiting"
            BY <3>3, <4>1 DEF Enter, Goto
          <5> QED BY <1>3, <2>2, <3>3, <5>1
        <4>2. CASE Sync(t)
          BY <1>3, <2>2, <3>3, <4>2 DEF Sync, AfterSync, Goto
        <4>3. CASE Spawn(t) \/ Registered(t) \/ BodyEnds(t) \/ BodyRaises(t) \/ Notified(t) \/ Finish(t)
          BY <1>3, <2>2, <3>2, <3>3, <4>3 DEF Spawn, Registered, BodyEnds, BodyRaises, Notified, Finish, Goto
        <4>4. CASE (\E e \in Task : Register(t, e)) \/ (\E u \in Task : Notify(t, u)) \/ LaunchKernel(t)
          BY <1>3, <2>2, <4>4 DEF Register, Notify, LaunchKernel
        <4>5. CASE WaitEvents(t) \/ Record(t)
          BY <1>3, <2>2, <3>3, <4>5 DEF WaitEvents, Record, Goto
        <4> QED BY <3>1, <4>1, <4>2, <4>3, <4>4, <4>5 DEF HostStep
      <3>5. left'[t] = Awaits[t]
        BY <1>1, <3>4 DEF Sync, AfterSync, TypeOK
      <3> QED BY <3>5 DEF Kept
    <2> QED BY <2>1, <2>2
  <1> QED BY <1>2, <1>3 DEF Order

LEMMA NextIInv == IInv /\ [Next]_vars => IInv'
  <1> SUFFICES ASSUME IInv, [Next]_vars PROVE IInv'
    OBVIOUS
  <1>1. TypeOK /\ Host /\ Stream
    BY DEF IInv
  <1>2. CASE Step
    <2>1. TypeOK' /\ Host' /\ Stream'
      <3>1. ASSUME NEW t \in Task, HostStep(t) PROVE TypeOK' /\ Host' /\ Stream'
        BY <1>1, <3>1, HostStepIs, QuietlyType, LoudlyType, HostKept, HostStream
      <3>2. ASSUME NEW r \in Run, StreamStep(r) PROVE TypeOK' /\ Host' /\ Stream'
        <4>1. UNCHANGED <<pc, left, blockers, runs>>
          BY <1>1, <3>2, StreamStepType
        <4>2. Host'
          BY <1>1, <4>1 DEF Host, Suspends
        <4> QED BY <1>1, <3>2, <4>2, StreamStepType, StreamStepStream
      <3> QED BY <1>2, <3>1, <3>2 DEF Step
    <2>2. EventsRecorded'
      BY <1>2, EventsStep DEF Step
    <2> QED BY <1>2, <2>1, <2>2, OrderStep DEF IInv
  <1>3. CASE UNCHANGED vars
    <2>1. UNCHANGED <<pc, left, blockers, events, runs, launched, stream, event, active>>
      BY <1>3 DEF vars, registration, device
    <2>2. TypeOK' /\ Host' /\ Stream' /\ EventsRecorded'
      <3>1. TypeOK' /\ Host' /\ EventsRecorded'
        BY <2>1 DEF IInv, TypeOK, Host, Suspends, EventsRecorded
      <3>2. Stream'
        <4>1. ASSUME NEW t \in Task, NEW i \in 1 .. 2 PROVE StreamOf(t, i)'
          <5>1. StreamOf(t, i)
            BY DEF IInv, Stream
          <5> QED BY <2>1, <5>1 DEF StreamOf
        <4> QED BY <4>1 DEF Stream, StreamOf
      <3> QED BY <3>1, <3>2
    <2>3. Order'
      BY <2>1 DEF IInv, Order, Kept, Passed, Settled, Suspends, Over, Holds, Waits, Current
    <2> QED BY <2>2, <2>3 DEF IInv
  <1> QED BY <1>2, <1>3 DEF Next, AllEnded, Step

LEMMA Invariant == Spec => []IInv
  BY InitIInv, NextIInv, PTL DEF Spec

-----------------------------------------------------------------------------

LEMMA OverIsQuiet ==
    ASSUME IInv, NEW t \in Task, runs[t] > 0, pc[t] \notin {"entered", "body"}, Over(t)
    PROVE  Quiet(t)
  <1>1. DOMAIN <<>> = {}
    OBVIOUS
  <1> QED BY <1>1 DEF Quiet, Over

\* A task that has ended, or whose body is suspended, has no kernel left on
\* any stream, whichever of its runs launched it: its resources and operands
\* can be taken.
THEOREM EndedTasksAreQuiet == Spec => []EndedAreQuiet
  <1>1. IInv => EndedAreQuiet
    <2> SUFFICES ASSUME IInv, NEW t \in Task, pc[t] \in {"waiting", "ended"}, runs[t] > 0
                 PROVE  Quiet(t)
      BY DEF EndedAreQuiet
    <2>1. runs[t] \in 1 .. 2 /\ Current(t) = <<t, runs[t]>>
      BY CurrentRun DEF IInv
    <2>2. StreamOf(t, runs[t])
      BY <2>1 DEF IInv, Stream
    <2>3. stream[Current(t)] = <<>>
      BY <2>1, <2>2 DEF StreamOf
    <2> QED BY <2>3, EmptyIsOver, OverIsQuiet
  <1> QED BY <1>1, Invariant, PTL

Finished == {d \in Task : Settled(d) /\ Over(d)}

\* whoever works has finished tasks behind it, and so have they
LEMMA BehindIsFinished ==
    ASSUME IInv, NEW t \in Task, t \in Finished \/ Works(t)
    PROVE  Direct(t) \subseteq Finished
  <1>1. TypeOK /\ Host /\ Stream /\ Order
    BY DEF IInv
  <1>2. /\ pc[t] \in {"body", "returned", "early", "sync", "late", "ended"} /\ runs[t] \in 1 .. 2
        /\ stream[Current(t)] = <<>> \/ stream[Current(t)][1].op = "kernel"
    <2>1. CASE t \in Finished
      <3>1. runs[t] \in 1 .. 2 /\ Current(t) = <<t, runs[t]>>
        BY <1>1, <2>1, CurrentRun DEF Finished, Settled
      <3> QED BY <2>1, <3>1 DEF Finished, Settled, Over
    <2>2. CASE t \notin Gpu /\ pc[t] = "body"
      <3>1. runs[t] \in 1 .. 2 /\ Current(t) = <<t, runs[t]>>
        BY <1>1, <2>2, CurrentRun DEF Host, InRun
      <3>2. StreamOf(t, runs[t])
        BY <1>1, <3>1 DEF Stream
      <3> QED BY <2>2, <3>1, <3>2 DEF StreamOf
    <2>3. ASSUME NEW r \in active, r[1] = t
          PROVE  /\ pc[t] \in {"body", "returned", "early", "sync", "late", "ended"} /\ runs[t] \in 1 .. 2
                 /\ stream[Current(t)][1].op = "kernel"
      <3>1. PICK i \in 1 .. 2 : r = <<t, i>>
        BY <1>1, <2>3 DEF TypeOK, Run
      <3>2. runs[t] \in 0 .. 2 /\ pc[t] \in Pc /\ StreamOf(t, i)
        BY <1>1 DEF TypeOK, Stream
      <3>3. i = runs[t] /\ stream[r][1].op = "kernel" /\ pc[t] \notin {"entered", "awaiting", "waiting"}
        BY <2>3, <3>1, <3>2 DEF StreamOf
      <3>4. pc[t] \notin {"new", "registering"}
        BY <1>1, <3>3 DEF Host
      <3> QED BY <3>1, <3>2, <3>3, <3>4 DEF Pc, InRun, Current
    <2> QED BY <2>1, <2>2, <2>3 DEF Works
  <1>3. left[t] = {} /\ blockers[t] = {}
    BY <1>1, <1>2 DEF Host, InRun
  <1>4. ASSUME NEW d \in Direct(t) PROVE d \in Finished
    <2>1. d \in Task /\ Kept(t, d)
      BY <1>1, <1>2, StreamsAssumption DEF Direct, Order
    <2>2. Passed(t, d)
      BY <1>3, <2>1 DEF Kept
    <2>3. ~Holds(t, d) /\ ~Waits(t, d)
      BY <1>2 DEF Holds, Waits
    <2> QED BY <2>1, <2>2, <2>3 DEF Passed, Finished
  <1> QED BY <1>4

\* While a kernel or a body on the CPU executes, those of all the tasks before
\* it have ended, through any number of dependencies, although the threads
\* of dependents run ahead of the events.
THEOREM KernelsAreOrdered == Spec => []KernelsInOrder
  <1>1. IInv => KernelsInOrder
    <2> SUFFICES ASSUME IInv, NEW t \in Task, Works(t), NEW d \in Before(t)
                 PROVE  Quiet(d)
      BY DEF KernelsInOrder
    <2>1. Finished \in SUBSET Task
      BY DEF Finished
    <2>2. Direct(t) \subseteq Finished
      BY BehindIsFinished
    <2>3. Closed(Finished)
      BY <2>1, BehindIsFinished DEF Closed
    <2>4. d \in Finished
      BY <2>1, <2>2, <2>3 DEF Before
    <2> QED BY <2>4, OverIsQuiet DEF Finished, Settled
  <1> QED BY <1>1, Invariant, PTL
=============================================================================
