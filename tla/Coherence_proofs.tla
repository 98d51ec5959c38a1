-------------------------- MODULE Coherence_proofs --------------------------
(***************************************************************************)
(* Proofs about one array that tasks access as a whole (SliceDev = {}), on *)
(* any number of devices, with any number of concurrent tasks, writes and  *)
(* evictions.                                                              *)
(***************************************************************************)
EXTENDS Coherence, Protocol_proofs

(***************************************************************************)
(* The inductive invariant: every valid copy has the latest version and    *)
(* the latest content, a task's copy stays valid until its body ends, and  *)
(* a writer's copy is the only valid one until then.                       *)
(***************************************************************************)
Types ==
    /\ latest \in [Slice -> Nat]
    /\ pending \subseteq [dev : Dev, part : {Slice}, write : BOOLEAN]
    /\ failed = FALSE

InUse ==
    \A a \in pending : /\ a.dev \in Valid(coh)
                       /\ a.write => Valid(coh) = {a.dev} /\ pending = {a}

IInv == Types /\ WholeCopies(coh, buf, latest) /\ InUse

\* A new array has one copy.
LEMMA InitIInv == Init => IInv
  <1> SUFFICES ASSUME Init PROVE IInv
    OBVIOUS
  <1>1. PICK o \in Dev : coh = NewProtocol(o) /\ buf = NewBuffer(o)
    BY DEF Init
  <1>2. Types /\ InUse
    BY DEF Init, Types, InUse
  <1>3. WholeCopies(coh, buf, latest)
    BY <1>1, NewIsWhole DEF Init
  <1> QED
    BY <1>2, <1>3 DEF IInv

\* A coherence step whose result keeps WholeCopies, applied by Do.
LEMMA DoKeeps ==
    ASSUME NEW r, Keeps(buf, latest, r), Do(r), UNCHANGED latest
    PROVE  failed' = FALSE /\ WholeCopies(coh, buf, latest)' /\ Valid(coh)' = Valid(r.c)
  <1>1. failed' = FALSE
    BY DEF Do, Keeps
  <1>2. coh' = r.c /\ buf' = Perform(buf, r.ops).buf /\ latest' = latest
    BY DEF Do
  <1>3. WholeCopies(coh', buf', latest')
    BY <1>2 DEF Keeps
  <1> QED
    BY <1>1, <1>2, <1>3 DEF WholeCopies, Valid

\* The operand of a task is moved.
LEMMA MoveStep ==
    ASSUME IInv, SliceDev = {}, NEW d \in Dev, NEW P \in Parts, NEW w \in BOOLEAN, Move(d, P, w)
    PROVE  IInv'
  <1> PICK a : a = [dev |-> d, part |-> P, write |-> w]
    OBVIOUS
  <1>1. P = Slice /\ Slice # {}
    BY ProtocolAssumption DEF Parts
  <1>2. /\ Types /\ WholeCopies(coh, buf, latest) /\ InUse
        /\ pending' = pending \cup {a} /\ latest' = latest
        /\ Do(IF w THEN Write(coh, d, Slice) ELSE Read(coh, d, Slice))
        /\ \A b \in pending : ~Conflict(a, b)
    BY <1>1 DEF IInv, Move
  <1>3. a.dev = d /\ a.part = Slice /\ a.write = w
        /\ a \in [dev : Dev, part : {Slice}, write : BOOLEAN]
    BY <1>1
  <1>4. \A b \in pending : ~w /\ ~b.write
    BY <1>1, <1>2, <1>3 DEF Conflict, Types
  <1>5. CASE w
    <2>1. pending = {}
      BY <1>4, <1>5
    <2> PICK r : r = Write(coh, d, Slice)
      OBVIOUS
    <2>2. Keeps(buf, latest, r) /\ Valid(r.c) = {d}
      BY <1>2, WriteKeeps
    <2>3. failed' = FALSE /\ WholeCopies(coh, buf, latest)' /\ Valid(coh)' = {d}
      BY <1>2, <1>5, <2>2, DoKeeps
    <2>4. Types'
      BY <1>2, <1>3, <2>3 DEF Types
    <2>5. InUse'
      BY <1>2, <1>3, <2>1, <2>3 DEF InUse
    <2> QED
      BY <2>3, <2>4, <2>5 DEF IInv
  <1>6. CASE ~w
    <2> PICK r : r = Read(coh, d, Slice)
      OBVIOUS
    <2>1. Keeps(buf, latest, r) /\ Valid(r.c) = Valid(coh) \cup {d}
      BY <1>2, ReadKeeps
    <2>2. failed' = FALSE /\ WholeCopies(coh, buf, latest)' /\ Valid(coh)' = Valid(coh) \cup {d}
      BY <1>2, <1>6, <2>1, DoKeeps
    <2>3. Types'
      BY <1>2, <1>3, <2>2 DEF Types
    <2>4. InUse'
      BY <1>2, <1>3, <1>4, <1>6, <2>2 DEF InUse
    <2> QED
      BY <2>2, <2>3, <2>4 DEF IInv
  <1> QED
    BY <1>5, <1>6

\* A body ends.
LEMMA BodyStep ==
    ASSUME IInv, NEW a \in pending, Body(a)
    PROVE  IInv'
  <1>1. /\ Types /\ WholeCopies(coh, buf, latest) /\ InUse
        /\ a \in pending /\ pending' = pending \ {a} /\ coh' = coh /\ failed' = failed
    BY DEF IInv, Body
  <1>2. a.part = Slice /\ a.dev \in Dev /\ a.write \in BOOLEAN
    BY <1>1 DEF Types
  <1>3. CASE ~a.write
    <2>1. latest' = latest /\ buf' = buf
      BY <1>3 DEF Body
    <2>2. Types'
      BY <1>1, <2>1 DEF Types
    <2>3. WholeCopies(coh, buf, latest)'
      BY <1>1, <2>1 DEF WholeCopies, Valid
    <2>4. InUse'
      BY <1>1 DEF InUse, Valid
    <2> QED
      BY <2>2, <2>3, <2>4 DEF IInv
  <1>4. CASE a.write
    <2> PICK d \in Dev : d = a.dev
      BY <1>2
    <2> PICK f : f = [s \in Slice |-> latest[s] + 1]
      OBVIOUS
    <2>1. Valid(coh) = {d} /\ pending = {a}
      BY <1>1, <1>4 DEF InUse
    <2>2. latest' = f /\ f \in [Slice -> Nat]
      BY <1>1, <1>2, <1>4 DEF Body, Types
    <2>3. buf' = [buf EXCEPT !.data[d] = f]
      BY <1>2, <1>4 DEF Body
    <2>4. WholeCopies(coh, buf', f)
      BY <1>1, <2>1, <2>2, <2>3, BodyWritesWhole
    <2>5. Types'
      BY <1>1, <2>2 DEF Types
    <2>6. InUse'
      BY <1>1, <2>1 DEF InUse
    <2>7. WholeCopies(coh, buf, latest)'
      BY <1>1, <2>2, <2>4 DEF WholeCopies, Valid
    <2> QED
      BY <2>5, <2>6, <2>7 DEF IInv
  <1> QED
    BY <1>2, <1>3, <1>4

\* The program evicts a device while no task uses the array.
LEMMA EvictStep ==
    ASSUME IInv, NEW d \in Dev, EvictDevice(d)
    PROVE  IInv'
  <1> PICK r : r = EvictCopy(coh, d)
    OBVIOUS
  <1>1. /\ Types /\ WholeCopies(coh, buf, latest)
        /\ pending = {} /\ pending' = pending /\ latest' = latest /\ Do(r)
    BY DEF IInv, EvictDevice
  <1>2. Keeps(buf, latest, r)
    BY <1>1, EvictKeeps
  <1>3. failed' = FALSE /\ WholeCopies(coh, buf, latest)'
    BY <1>1, <1>2, DoKeeps
  <1>4. Types' /\ InUse'
    BY <1>1, <1>3 DEF Types, InUse
  <1> QED
    BY <1>3, <1>4 DEF IInv

\* Nothing happens.
LEMMA Stutter == IInv /\ UNCHANGED vars => IInv'
  BY DEF IInv, Types, InUse, WholeCopies, Valid, vars

\* IInv is an invariant of arrays that are accessed as a whole.
LEMMA Invariant == ASSUME SliceDev = {} PROVE Spec => []IInv
  <1>1. IInv /\ [Next]_vars => IInv'
    BY MoveStep, BodyStep, EvictStep, Stutter DEF Next
  <1> QED
    BY <1>1, InitIInv, PTL DEF Spec

\* The protocol, the buffers and the tasks at work keep their type; no version
\* is above the latest.
THEOREM TypeCorrect == ASSUME SliceDev = {} PROVE Spec => []TypeOK
  <1>1. ASSUME IInv PROVE TypeOK
    <2>1. coh \in Protocols /\ buf \in Buffers
      BY <1>1 DEF IInv, WholeCopies, NoParts, WholeBuffers
    <2>2. \A d \in Dev : coh.version[d] \in -1 .. coh.last
      <3> TAKE d \in Dev
      <3>1. coh.last \in Nat
        BY <2>1 DEF Protocols
      <3>2. coh.version[d] = coh.last \/ coh.version[d] = -1
        BY <1>1 DEF IInv, WholeCopies
      <3> QED
        BY <3>1, <3>2
    <2>3. pending \subseteq [dev : Dev, part : SUBSET Slice, write : BOOLEAN]
      BY <1>1 DEF IInv, Types
    <2> QED
      BY <1>1, <2>1, <2>2, <2>3 DEF TypeOK, IInv, Types
  <1> QED
    BY <1>1, Invariant, PTL

\* While a task's body runs, its device's buffer has the last write to every
\* slice of the array: no other task's read, write or write back and no
\* eviction comes between the move of an operand and its use.
THEOREM OperandsAreFresh == ASSUME SliceDev = {} PROVE Spec => []OperandsFresh
  <1>1. ASSUME IInv PROVE OperandsFresh
    <2> SUFFICES ASSUME NEW a \in pending PROVE buf.data[a.dev] = latest
      <3>1. \A a \in pending : a.part = Slice
        BY <1>1 DEF IInv, Types
      <3> QED
        BY <3>1 DEF OperandsFresh
    <2>1. a.dev \in Valid(coh)
      BY <1>1 DEF IInv, InUse
    <2> QED
      BY <1>1, <2>1 DEF IInv, WholeCopies
  <1> QED
    BY <1>1, Invariant, PTL

\* A modified copy is the only valid one, whatever reads, writes and evictions
\* its device and the others have seen.
THEOREM ModifiedIsAlone == ASSUME SliceDev = {} PROVE Spec => []OneModified
  <1>1. ASSUME IInv PROVE OneModified
    <2> SUFFICES ASSUME NEW d \in Dev, coh.state[d] = "M", NEW i \in Dev \ {d}
                 PROVE  coh.kind[i] # "part" /\ coh.state[i] = "I"
      BY DEF OneModified
    <2>1. Valid(coh) = {d}
      BY <1>1 DEF IInv, WholeCopies, Valid
    <2>2. coh.kind[i] # "part"
      BY <1>1 DEF IInv, WholeCopies, NoParts
    <2> QED
      BY <2>1, <2>2 DEF Valid
  <1> QED
    BY <1>1, Invariant, PTL

\* The last write of the array stays on a device the protocol takes to have it,
\* through every eviction and invalidation.
THEOREM NoArrayIsLost == ASSUME SliceDev = {} PROVE Spec => []NothingLost
  <1>1. ASSUME IInv PROVE NothingLost
    <2> PICK d \in Dev : d = coh.owner /\ d \in Valid(coh)
      BY <1>1 DEF IInv, WholeCopies, Valid
    <2>1. coh.state[d] # "I" /\ coh.kind[d] # "part" /\ buf.data[d] = latest
      BY <1>1 DEF IInv, WholeCopies, NoParts, Valid
    <2> QED
      BY <2>1 DEF NothingLost
  <1> QED
    BY <1>1, Invariant, PTL

\* A device whose copy the protocol holds valid has the complete array in its
\* buffer: the operations asked for and the fields agree after every step.
THEOREM BuffersMatch == ASSUME SliceDev = {} PROVE Spec => []BufferMatches
  <1>1. ASSUME IInv PROVE BufferMatches
    <2>1. \A d \in Dev : coh.kind[d] # "part"
      BY <1>1 DEF IInv, WholeCopies, NoParts
    <2>2. \A d \in Dev : coh.state[d] # "I" => buf.kind[d] = "whole"
      BY <1>1 DEF IInv, WholeCopies, Valid
    <2> QED
      BY <2>1, <2>2 DEF BufferMatches
  <1> QED
    BY <1>1, Invariant, PTL

\* No coherence step raises, and every memory operation it asks for finds the
\* buffers in a state it can work on.
THEOREM NoStepRaises == ASSUME SliceDev = {} PROVE Spec => []NeverRaises
  <1>1. IInv => NeverRaises
    BY DEF IInv, Types, NeverRaises
  <1> QED
    BY <1>1, Invariant, PTL
=============================================================================
