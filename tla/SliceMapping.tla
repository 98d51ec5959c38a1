---------------------------- MODULE SliceMapping ----------------------------
(***************************************************************************)
(* The index maps of MultiDeviceBuffer (parla/parray/memory.py).  A device *)
(* holds subarrays of an array; an index into the whole array becomes a    *)
(* subarray and an index into it, axis by axis.                            *)
(***************************************************************************)
EXTENDS Integers, Sequences, SequencesExt

\* an index of one axis: an integer, a list, or begin, end and step (> 0)
At(n) == [kind |-> "int", list |-> <<n>>]
Among(ns) == [kind |-> "list", list |-> ns]
Slice(b, e, s) ==
    [kind |-> "slice", begin |-> b, end |-> e, step |-> s,
     list |-> [k \in 1 .. (e - b + s - 1) \div s |-> b + (k - 1) * s]]

\* None: the index is not in the subarray
Unmapped == -1

Position(n, ns) == SelectInSeq(ns, LAMBDA k : k = n) - 1

\* mutant: the position is not divided by the step
MapIntUndivided(n, m) ==
    IF m.kind # "slice" THEN Position(n, m.list)
    ELSE IF n < m.begin \/ n >= m.end THEN Unmapped ELSE n - m.begin

MapInt(n, m) ==
    IF m.kind # "slice" THEN Position(n, m.list)
    ELSE IF n < m.begin \/ n >= m.end \/ (n - m.begin) % m.step # 0
         THEN Unmapped ELSE (n - m.begin) \div m.step

\* the last element is computed without regard to where the steps fall
MapSlice(g, m) ==
    LET first == MapInt(g.begin, m)
        last == MapInt((g.end - g.step) + ((g.end - g.begin) % g.step), m)
    IN  IF Unmapped \in {first, last} \/ g.step % m.step # 0
        THEN At(Unmapped) ELSE Slice(first, last + 1, g.step \div m.step)

\* the index of an axis of the subarray; an axis loaded by an integer is gone
MapAxis(g, m) ==
    IF Len(m.list) = 1 /\ m.kind # "slice"
    THEN At(IF g.kind = "int" /\ g.list = m.list THEN 0 ELSE Unmapped)
    ELSE IF g.kind = "slice" /\ m.kind = "slice" THEN MapSlice(g, m)
    ELSE Among([k \in DOMAIN g.list |-> MapInt(g.list[k], m)])

Maps(global, subarray) ==
    \A d \in DOMAIN global : Unmapped \notin ToSet(MapAxis(global[d], subarray[d]).list)

\* the first subarray of the device into which the index maps; 0: IndexError
SubarrayOf(global, subarrays) ==
    SelectInSeq(subarrays, LAMBDA s : Maps(global, s))

\* numpy: an integer beyond the end raises, a slice is cut
Picked(local, m) == {m.list[k + 1] : k \in {l \in ToSet(local.list) : l < Len(m.list)}}

\* the elements of an array named by a set of indices for each axis
Cells(sets) == {x \in [DOMAIN sets -> UNION {sets[d] : d \in DOMAIN sets}] : \A d \in DOMAIN sets : x[d] \in sets[d]}

\* the elements of the whole array that an access through the maps touches
Touched(global, subarrays) ==
    LET s == SubarrayOf(global, subarrays)
    IN  IF s = 0 THEN {}
        ELSE Cells([d \in DOMAIN global |-> Picked(MapAxis(global[d], subarrays[s][d]), subarrays[s][d])])

\* the elements the index stands for
Meant(global) == Cells([d \in DOMAIN global |-> ToSet(global[d].list)])
=============================================================================
