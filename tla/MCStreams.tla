----------------------------- MODULE MCStreams -----------------------------
(* a and b on the GPU in a row, c on the CPU after a, d on the GPU after   *)
(* nothing, which awaits b and c.                                          *)
EXTENDS Streams

CONSTANTS a, b, c, d

Tasks == {a, b, c, d}
OnGpu == {a, b, d}
Chain == [t \in Tasks |-> IF t \in {b, c} THEN {a} ELSE {}]
Barrier == [t \in Tasks |-> IF t = d THEN {b, c} ELSE {}]
Raising == {b, c}
============================================================================
