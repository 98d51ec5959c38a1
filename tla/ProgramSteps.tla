---------------------------- MODULE ProgramSteps ----------------------------
(* Parla programs as data: a body is a sequence of steps, and a spawn      *)
(* carries the body of the task it creates.                                *)
EXTENDS Integers, Sequences, SequencesExt, SliceMapping

\* @spawn: the task, its declared dependencies and operands, its body
Spawn(t, deps, ins, inouts, body) ==
    [op |-> "spawn", task |-> t, deps |-> deps, ins |-> ins, inouts |-> inouts, body |-> body, placed |-> TRUE]

\* placement=mapper.device(...): devices[d] must exist
OnDevice(d, devices, spawn) == <<[spawn[1] EXCEPT !.placed = d \in 0 .. devices - 1]>>

\* a piece of a body that reads and then writes elements of data, and what
\* the same piece of the program touches when no runtime is in between
AccessAs(r, w, serial_r, serial_w) ==
    [op |-> "access", reads |-> r, writes |-> w, serial |-> [reads |-> serial_r, writes |-> serial_w]]
Access(r, w) == AccessAs(r, w, r, w)

Await(ts) == [op |-> "await", tasks |-> ts]

\* a task whose body is one access, to data it shares or to its PArrays
Leaf(t, deps, r, w) == <<Spawn(t, deps, {}, {}, <<Access(r, w)>>)>>
Moved(t, deps, ins, inouts) == <<Spawn(t, deps, ins, inouts, <<Access(ins \cup inouts, inouts)>>)>>

\* async with finish(): the block, then the tasks it has spawned
Finish(body) == Append(body, Await({s.task : s \in {x \in ToSet(body) : x.op = "spawn"}}))

\* for i in range(lo, hi)
Loop(lo, hi, Body(_)) == FlattenSeq([i \in 1 .. hi - lo |-> Body(lo + i - 1)])

\* the members of a task space, the blocks of a list, elements of an array
Row(x, n) == {<<x, i>> : i \in 0 .. n - 1}
Grid(x, n, m) == {<<x, i, j>> : i \in 0 .. n - 1, j \in 0 .. m - 1}
Of(x, is) == {<<x, i>> : i \in is}
Named(x, cells) == {<<x>> \o c : c \in cells}
=============================================================================
