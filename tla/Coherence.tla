------------------------------ MODULE Coherence ------------------------------
(***************************************************************************)
(* A PArray: its coherence protocol, the device buffers it drives (both in *)
(* module Protocol), and the accesses of tasks.                            *)
(*                                                                         *)
(* An array is cut into disjoint slices.  A task first has its operand     *)
(* moved (PArray._auto_move: coherence step and memory operations under    *)
(* Coherence._lock, one action here), and later its body reads or writes   *)
(* the buffer of its device.  Programs keep the documented rules           *)
(* (tutorial/6_automatic_data_movement/README.md, "Memory Coherence" and   *)
(* "Writeback of Subarray"): conflicting accesses are not concurrent, and  *)
(* no two devices hold the same slice as a subarray.                       *)
(*                                                                         *)
(* Abstractions: the content of a slice is the number of writes it has     *)
(* seen; the versions of subarrays, which the code stores and never        *)
(* reads, are left out; a step that raises is final (failed).              *)
(***************************************************************************)
EXTENDS Protocol

CONSTANTS WholeDev,    \* devices where tasks access the complete array
          SliceDev,    \* devices where tasks access single slices
          EvictDev,    \* devices the program evicts
          MaxPending,  \* bound: tasks between the move and the end of the body
          MaxWrites    \* bound: writes to each slice

ASSUME CoherenceAssumption ==
    /\ WholeDev \subseteq Dev /\ SliceDev \subseteq Dev /\ EvictDev \subseteq Dev
    /\ MaxPending \in Nat /\ MaxWrites \in Nat

VARIABLES coh,      \* the fields of the Coherence object
          buf,      \* the MultiDeviceBuffer
          latest,   \* the number of writes each slice has seen
          pending,  \* accesses whose operand is moved and whose body runs
          failed    \* a coherence step or a memory operation raised

vars == <<coh, buf, latest, pending, failed>>

Parts == (IF SliceDev = {} THEN {} ELSE {{s} : s \in Slice}) \cup {Slice}

TypeOK ==
    /\ coh \in Protocols
    /\ buf \in Buffers
    /\ \A d \in Dev : coh.version[d] \in -1 .. coh.last
    /\ latest \in [Slice -> Nat]
    /\ pending \subseteq [dev : Dev, part : SUBSET Slice, write : BOOLEAN]
    /\ failed \in BOOLEAN

Init ==
    /\ \E o \in Dev : coh = NewProtocol(o) /\ buf = NewBuffer(o)
    /\ latest = [s \in Slice |-> 0]
    /\ pending = {}
    /\ failed = FALSE

-----------------------------------------------------------------------------
(* Tasks.                                                                  *)

\* apply a coherence step and its memory operations, under _lock
Do(result) ==
    LET r == Perform(buf, result.ops)
    IN  /\ failed' = (result.raised \/ r.raised)
        /\ coh' = result.c
        /\ buf' = r.buf

Conflict(a, b) == a.part \cap b.part # {} /\ (a.write \/ b.write)

\* no other device holds one of the slices as a subarray
Disjoint(d, P) == \A i \in Partial(coh) \ {d} : \A s \in P : coh.sub[i][s] = "none"

\* PArray._auto_move for an operand of a task on device d
Move(d, P, w) ==
    LET a == [dev |-> d, part |-> P, write |-> w]
    IN  /\ ~failed
        /\ Cardinality(pending) < MaxPending /\ a \notin pending
        /\ \A b \in pending : ~Conflict(a, b)
        /\ IF Whole(P) THEN d \in WholeDev ELSE d \in SliceDev /\ Disjoint(d, P)
        /\ w => \A s \in P : latest[s] < MaxWrites
        /\ Do(IF w THEN Write(coh, d, P) ELSE Read(coh, d, P))
        /\ pending' = pending \cup {a}
        /\ UNCHANGED latest

\* the body ends; a writer has written its part of its device's buffer
Body(a) ==
    /\ ~failed /\ a \in pending
    /\ pending' = pending \ {a}
    /\ IF a.write
         THEN /\ latest' = [s \in Slice |-> IF s \in a.part THEN latest[s] + 1 ELSE latest[s]]
              /\ buf' = [buf EXCEPT !.data[a.dev] =
                           [s \in Slice |-> IF s \in a.part THEN latest[s] + 1 ELSE @[s]]]
         ELSE UNCHANGED <<latest, buf>>
    /\ UNCHANGED <<coh, failed>>

\* PArray.evict, called by the program while no task uses the array
EvictDevice(d) == /\ ~failed /\ pending = {} /\ d \in EvictDev
                  /\ Do(EvictCopy(coh, d))
                  /\ UNCHANGED <<latest, pending>>

Next == \/ \E d \in Dev, P \in Parts, w \in BOOLEAN : Move(d, P, w)
        \/ \E a \in pending : Body(a)
        \/ \E d \in Dev : EvictDevice(d)

Spec == Init /\ [][Next]_vars

-----------------------------------------------------------------------------
(* Properties.                                                             *)

\* While its body runs, a task finds its whole operand on its device, with
\* the last writes to it.
OperandsFresh == \A a \in pending : \A s \in a.part : buf.data[a.dev][s] = latest[s]

\* No coherence step or memory operation raises.
NeverRaises == ~failed

\* A modified complete copy is the only valid copy (the M of MSI).
OneModified == \A d \in Dev :
    coh.kind[d] = "whole" /\ coh.state[d] = "M" =>
        \A i \in Dev \ {d} : coh.kind[i] # "part" /\ coh.state[i] = "I"

\* With no task at work, the valid copies together hold the last write of
\* every slice: invalidations and evictions never drop the only one.
NothingLost == pending = {} => \A s \in Slice : \E d \in Dev :
    /\ buf.data[d][s] = latest[s]
    /\ IF coh.kind[d] = "part" THEN coh.sub[d][s] # "none"
       ELSE coh.state[d] # "I" \/ d = coh.owner

\* The protocol and the buffers agree on where copies are.
BufferMatches == \A d \in Dev :
    /\ coh.kind[d] = "part" => /\ buf.kind[d] = "part"
                               /\ \A s \in Slice : coh.sub[d][s] # "none" => buf.data[d][s] # NoData
    /\ coh.kind[d] # "part" /\ coh.state[d] # "I" => buf.kind[d] = "whole"
=============================================================================
