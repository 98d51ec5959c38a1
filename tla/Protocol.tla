------------------------------ MODULE Protocol ------------------------------
(***************************************************************************)
(* The steps of the coherence protocol of a PArray (class Coherence of     *)
(* parla/parray/coherence.py) as operators on the fields of its object,    *)
(* and the memory operations they ask for (PArray._process_operations of   *)
(* parla/parray/core.py) as an operator on a MultiDeviceBuffer.  Module    *)
(* Coherence checks them for one array, DataMovement for several and under *)
(* the tasks that the scheduler creates to call them.                      *)
(*                                                                         *)
(* c.state[d] is the state of a complete copy at d, c.sub[d] the           *)
(* dictionary of subarray states ("none": not a key), which is used where  *)
(* c.kind[d], the field _is_complete, is "part" (False).                   *)
(***************************************************************************)
EXTENDS Integers, FiniteSets, Sequences, SequencesExt

CONSTANTS GPU,         \* device numbers of the GPUs: 0..n-1
          Slice        \* disjoint slices that make up the array

CPU == -1
Dev == GPU \cup {CPU}

ASSUME ProtocolAssumption ==
    /\ IsFiniteSet(GPU) /\ GPU = 0 .. Cardinality(GPU) - 1
    /\ IsFiniteSet(Slice) /\ Slice # {}

NoData == -1
Whole(P) == P = Slice

\* the order in which the per-device dictionaries are walked: GPUs, then CPU
DevSeq == [i \in 1 .. Cardinality(Dev) |-> IF i = Cardinality(Dev) THEN CPU ELSE i - 1]
InOrder(S) ==
    LET seq[n \in 0 .. Len(DevSeq)] ==
            IF n = 0 THEN <<>>
            ELSE IF DevSeq[n] \in S THEN Append(seq[n - 1], DevSeq[n])
            ELSE seq[n - 1]
    IN  seq[Len(DevSeq)]
Map(seq, Op(_)) == [i \in DOMAIN seq |-> Op(seq[i])]

NoSub == [s \in Slice |-> "none"]
Partial(c) == {d \in Dev : c.kind[d] = "part"}

Protocols == [state : [Dev -> {"I", "S", "M"}],
              kind : [Dev -> {"none", "whole", "part"}],
              sub : [Dev -> [Slice -> {"none", "S", "M"}]],
              version : [Dev -> Int],
              owner : Dev,
              last : Nat]

Buffers == [kind : [Dev -> {"none", "whole", "part"}],
            data : [Dev -> [Slice -> {NoData} \cup Nat]]]

\* Coherence.__init__(init_owner)
NewProtocol(o) == [state |-> [d \in Dev |-> IF d = o THEN "M" ELSE "I"],
                   kind |-> [d \in Dev |-> IF d = o THEN "whole" ELSE "none"],
                   sub |-> [d \in Dev |-> NoSub],
                   version |-> [d \in Dev |-> IF d = o THEN 0 ELSE -1],
                   owner |-> o,
                   last |-> 0]

\* MultiDeviceBuffer.set_complete_array
NewBuffer(o) == [kind |-> [d \in Dev |-> IF d = o THEN "whole" ELSE "none"],
                 data |-> [d \in Dev |-> [s \in Slice |-> IF d = o THEN 0 ELSE NoData]]]

-----------------------------------------------------------------------------
(* Memory operations.                                                      *)

Load(dst, src) == [op |-> "load", dst |-> dst, src |-> src, part |-> {}]
LoadPart(dst, src, P) == [op |-> "load", dst |-> dst, src |-> src, part |-> P]
Evict(d) == [op |-> "evict", dst |-> d, src |-> d, part |-> {}]

\* PArray._process_operations on one operation; r carries the buffer and
\* whether an earlier operation raised
Apply(r, o) ==
    LET b == r.buf
        srcIs == b.kind[o.src]
        dstIs == IF o.part # {} /\ b.kind[o.dst] = "none" THEN "part" ELSE b.kind[o.dst]
        Set(k, f) == [r EXCEPT !.buf.kind[o.dst] = k, !.buf.data[o.dst] = f]
        Patch(P) == [s \in Slice |-> IF s \in P THEN b.data[o.src][s] ELSE b.data[o.dst][s]]
        Held(d) == {s \in Slice : b.data[d][s] # NoData}
    IN  CASE r.raised -> r
          [] o.op = "evict" -> Set("none", [s \in Slice |-> NoData])
          [] o.op = "load" /\ srcIs = "whole" /\ dstIs = "part" -> Set("part", Patch(o.part))
          [] o.op = "load" /\ srcIs = "whole" /\ dstIs # "part" /\ o.part = {} ->
               Set("whole", b.data[o.src])
          [] o.op = "load" /\ srcIs = "part" /\ dstIs = "whole" -> Set("whole", Patch(Held(o.src)))
          [] OTHER -> [r EXCEPT !.raised = TRUE]

\* PArray._process_operations on a list of operations
Perform(b, ops) ==
    LET r[n \in 0 .. Len(ops)] ==
            IF n = 0 THEN [buf |-> b, raised |-> FALSE] ELSE Apply(r[n - 1], ops[n])
    IN  r[Len(ops)]

-----------------------------------------------------------------------------
(* The protocol.  Each operator gives the new fields and the operations.   *)

\* (faulty: the comparison turned round, so the oldest copy is the source)
LatestOldest(c) ==
    LET complete == Dev \ Partial(c)
    IN  Last(InOrder({d \in complete : \A i \in complete : c.version[i] >= c.version[d]}))

\* the latest complete copy: the last device walked with the highest version
Latest(c) ==
    LET complete == Dev \ Partial(c)
    IN  Last(InOrder({d \in complete : \A i \in complete : c.version[i] <= c.version[d]}))

\* (faulty: the subarrays are forgotten)
WrittenBackComplete(c, dst) == IF c.version[dst] < c.version[Latest(c)] THEN <<Latest(c)>> ELSE <<>>

\* what _write_back_to loads into dst: a newer complete copy, then subarrays
WrittenBack(c, dst) ==
    (IF c.version[dst] < c.version[Latest(c)] THEN <<Latest(c)>> ELSE <<>>) \o InOrder(Partial(c))

\* (faulty: sharers stay valid; modified copies stay valid; dst goes too)
InvalidatedNotSharers(c, dst, new) ==
    {d \in Dev : new = "M" /\ (c.kind[d] = "part" \/ (d # dst /\ c.state[d] = "M"))}
InvalidatedNotModified(c, dst, new) ==
    {d \in Dev : new = "M" /\ (c.kind[d] = "part" \/ (d # dst /\ c.state[d] = "S"))}
InvalidatedDstToo(c, dst, new) ==
    {d \in Dev : new = "M" /\ (c.kind[d] = "part" \/ c.state[d] # "I")}

\* whom a write back for a write makes invalid and evicts
Invalidated(c, dst, new) ==
    {d \in Dev : new = "M" /\ (c.kind[d] = "part" \/ (d # dst /\ c.state[d] # "I"))}

\* Coherence._write_back_to; a dst holding subarrays raises, since its version
\* is then no number
WriteBack(c, dst, new) ==
    LET invalid == Invalidated(c, dst, new)
    IN  [c |-> [c EXCEPT
            !.state = [d \in Dev |-> IF d \in invalid THEN "I"
                                     ELSE IF d # dst /\ c.state[d] = "M" THEN "S"
                                     ELSE c.state[d]],
            !.kind = [d \in Dev |-> IF d \in invalid THEN "none" ELSE c.kind[d]],
            !.sub = [d \in Dev |-> IF d \in invalid THEN NoSub
                                   ELSE [s \in Slice |-> IF c.sub[d][s] = "none" THEN "none" ELSE "S"]],
            !.version = [d \in Dev |-> IF d = dst THEN c.last
                                       ELSE IF d \in invalid THEN -1
                                       ELSE c.version[d]]],
         ops |-> Map(WrittenBack(c, dst), LAMBDA d : Load(dst, d)) \o Map(InOrder(invalid), Evict),
         raised |-> c.kind[dst] = "part"]

\* the owner moves to a device that got a complete copy by reading
NewOwner(c, d) == IF /\ c.version[c.owner] = c.last
                     /\ c.owner # CPU
                     /\ d % 2 # 0 \/ c.owner % 2 = 0
                    THEN c.owner
                    ELSE d

\* the state an access to part P of device d finds: its own subarray's, or
\* that of the complete copy
LocalState(c, d, P) ==
    IF c.kind[d] = "whole" \/ Whole(P) THEN c.state[d]
    ELSE LET s == CHOOSE s \in P : TRUE
         IN  IF c.kind[d] = "part" /\ c.sub[d][s] # "none" THEN c.sub[d][s] ELSE "I"

\* an access makes a device without a complete copy hold subarrays, and a
\* complete access makes it hold a complete copy
Enter(c, d, P) ==
    CASE Whole(P) \/ c.kind[d] = "whole" -> [c EXCEPT !.kind[d] = "whole"]
      [] c.kind[d] = "part" -> c
      [] OTHER -> [c EXCEPT !.kind[d] = "part", !.state[d] = "I", !.version[d] = -1]

SetLocal(c, d, P, st) ==
    IF c.kind[d] = "whole" THEN [c EXCEPT !.state[d] = st]
    ELSE [c EXCEPT !.sub[d] = [s \in Slice |-> IF s \in P THEN st ELSE c.sub[d][s]]]

Plain(c, ops) == [c |-> c, ops |-> ops, raised |-> FALSE]

\* Coherence.read, the complete array where subarrays are
ReadOverParts(c, d) ==
    LET w == WriteBack(c, c.owner, "S")
        n == [w.c EXCEPT !.kind[d] = "whole", !.sub[d] = NoSub,
                         !.version[d] = w.c.version[c.owner],
                         !.state[c.owner] = "S", !.state[d] = "S"]
    IN  [c |-> [n EXCEPT !.owner = NewOwner(n, d)],
         ops |-> w.ops \o <<Evict(d), Load(d, c.owner)>>,
         raised |-> w.raised]

\* Coherence.read
Read(c, d, P) ==
    LET local == LocalState(c, d, P)
        e == Enter(c, d, P)
        w == WriteBack(e, d, "S")
    IN  IF Whole(P) /\ c.kind[d] = "part" THEN ReadOverParts(c, d)
        ELSE CASE local # "I" -> Plain(e, <<>>)
          [] local = "I" /\ d = c.owner ->
               [w EXCEPT !.c = SetLocal(w.c, d, P, "S")]
          [] local = "I" /\ d # c.owner /\ e.kind[d] = "whole" ->
               [w EXCEPT !.c = [w.c EXCEPT !.owner = NewOwner(w.c, d),
                                           !.version[d] = w.c.last,
                                           !.state[d] = "S"]]
          [] OTHER -> Plain(SetLocal(e, d, P, "S"), <<LoadPart(d, c.owner, P)>>)

\* Coherence.write, the complete array where subarrays are
WriteOverParts(c, d) ==
    LET w == WriteBack(c, c.owner, "M")
    IN  [c |-> [w.c EXCEPT !.kind[d] = "whole", !.version[d] = w.c.version[c.owner],
                           !.state[d] = "M", !.state[c.owner] = "I", !.owner = d],
         ops |-> w.ops \o <<Load(d, c.owner)>>,
         raised |-> w.raised]

\* (faulty: the owner's buffer goes too)
InvalidateOwnerToo(c, d) ==
    LET gone == Dev \ (Partial(c) \cup {d})
    IN  Plain([c EXCEPT !.state = [i \in Dev |-> IF i \in gone THEN "I" ELSE c.state[i]],
                        !.kind = [i \in Dev |-> IF i \in gone THEN "none" ELSE c.kind[i]]],
              Map(InOrder(gone), Evict))

\* a shared subarray is written: complete copies elsewhere become invalid,
\* and all but the owner's are evicted
InvalidateOthers(c, d) ==
    LET whole == Dev \ (Partial(c) \cup {d})
        gone == whole \ {c.owner}
    IN  Plain([c EXCEPT !.state = [i \in Dev |-> IF i \in whole THEN "I" ELSE c.state[i]],
                        !.kind = [i \in Dev |-> IF i \in gone THEN "none" ELSE c.kind[i]],
                        !.version = [i \in Dev |-> IF i \in gone THEN -1 ELSE c.version[i]]],
              Map(InOrder(gone), Evict))

\* (faulty: _latest_version is not incremented)
NewVersionUncounted(c, d) == [c EXCEPT !.version[d] = c.last + 1, !.owner = d]

\* a complete copy at d is written: a new version, of which d is the owner
NewVersion(c, d) == [c EXCEPT !.last = @ + 1, !.version[d] = c.last + 1, !.owner = d]

\* Coherence.write
Write(c, d, P) ==
    LET local == LocalState(c, d, P)
        e == Enter(c, d, P)
        isOwner == d = c.owner
        whole == e.kind[d] = "whole"
        w == WriteBack(e, d, "M")
        result ==
          CASE local = "M" -> Plain(e, <<>>)
            [] local # "M" /\ (isOwner \/ (whole /\ local = "I")) ->
                 [w EXCEPT !.c = NewVersion(w.c, d)]
            [] ~isOwner /\ whole /\ local = "S" -> WriteBack(NewVersion(e, d), d, "M")
            [] ~isOwner /\ ~whole /\ local = "I" ->
                 Plain([e EXCEPT !.last = IF e.version[e.owner] = e.last THEN @ + 1 ELSE @,
                                 !.state[e.owner] = "I"],
                       <<LoadPart(d, e.owner, P)>>)
            [] OTHER -> InvalidateOthers([e EXCEPT !.last = @ + 1], d)
    IN  IF Whole(P) /\ c.kind[d] = "part" THEN WriteOverParts(c, d)
        ELSE [result EXCEPT !.c = SetLocal(result.c, d, P, "M")]

\* Coherence.evict finds that d may hold the last copy
LastCopy(c, d) ==
    \/ c.kind[d] = "part"
    \/ c.state[d] = "M"
    \/ /\ c.state[d] = "S" /\ d = c.owner
       /\ \A i \in Dev \ {d} : c.kind[i] = "part" \/ c.state[i] # "S"

\* (faulty: it is evicted without being written back)
CopyHomeUnsaved(c, d) ==
    Plain([c EXCEPT !.owner = CPU, !.state[d] = "I", !.version[d] = -1, !.kind[d] = "none"],
          <<Evict(d)>>)

\* the last copy is written back to the CPU; a complete one is not evicted
CopyHome(c, d) ==
    LET w == WriteBack(c, CPU, "M")
        invalid == Invalidated(c, CPU, "M")
        gone == IF c.kind[d] = "part" THEN invalid ELSE invalid \ {d}
    IN  [c |-> [w.c EXCEPT !.owner = CPU, !.state[CPU] = "M", !.kind[d] = "whole"],
         ops |-> Map(WrittenBack(c, CPU), LAMBDA s : Load(CPU, s)) \o Map(InOrder(gone), Evict),
         raised |-> w.raised]

\* Coherence.evict with keep_one_copy: an owner that finds another sharer
\* changes nothing
EvictCopy(c, d) ==
    CASE LastCopy(c, d) -> IF d = CPU THEN Plain(c, <<>>) ELSE CopyHome(c, d)
      [] ~LastCopy(c, d) /\ c.state[d] = "S" /\ d # c.owner ->
           Plain([c EXCEPT !.state[d] = "I", !.version[d] = -1, !.kind[d] = "none"], <<Evict(d)>>)
      [] OTHER -> Plain(c, <<>>)
=============================================================================
