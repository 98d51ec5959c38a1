------------------------------ MODULE Examples ------------------------------
(***************************************************************************)
(* The programs of examples/: the tasks each spawns with their             *)
(* dependencies and declared operands, where it awaits, and what the       *)
(* bodies read and write.  Elements and blocks of data are tuples;         *)
(* kernels, printing, timing and the choice between equivalent devices are *)
(* left out.                                                               *)
(***************************************************************************)
EXTENDS ProgramSteps, Partitioning

Prev(x, i, k) == {<<x, i, l>> : l \in 0 .. k - 1}
A(i, j) == <<"a", i, j>>

-----------------------------------------------------------------------------
(* Blocked Cholesky factorisation of n x n blocks, which the bodies clone  *)
(* or the runtime moves.                                                   *)

\* the bodies clone what they read to their device and copy the result back
Cloned(t, deps, in, inout) == Leaf(t, deps, in \cup inout, inout)

\* a task for a block from the blocks it reads and the one it updates
Block(auto, t, deps, in, inout) == IF auto THEN Moved(t, deps, in, inout) ELSE Cloned(t, deps, in, inout)

Syrk(auto, j, k) ==
    Block(auto, <<"gemm1", j, k>>, {<<"solve", j, k>>} \cup Prev("gemm1", j, k), {A(j, k)}, {A(j, j)})

Gemm(auto, i, j, k) ==
    Block(auto, <<"gemm2", i, j, k>>,
      {<<"solve", j, k>>, <<"solve", i, k>>} \cup {<<"gemm2", i, j, l>> : l \in 0 .. k - 1},
      {A(i, k), A(j, k)}, {A(i, j)})

Potrf(auto, j) == Block(auto, <<"subcholesky", j>>, Prev("gemm1", j, j), {}, {A(j, j)})

Trsm(auto, i, j) ==
    Block(auto, <<"solve", i, j>>, {<<"gemm2", i, j, l>> : l \in 0 .. j - 1} \cup {<<"subcholesky", j>>},
      {A(j, j)}, {A(i, j)})

Cholesky(n, auto) ==
    Loop(0, n, LAMBDA j :
        Loop(0, j, LAMBDA k : Syrk(auto, j, k))
        \o Potrf(auto, j)
        \o Loop(j + 1, n, LAMBDA i : Loop(0, j, LAMBDA k : Gemm(auto, i, j, k)) \o Trsm(auto, i, j)))

\* the main task awaits the last block and copies all back
CopyBack(n, ins) ==
    <<Await({<<"subcholesky", n - 1>>}),
      Spawn(<<"CopyBack", 0>>, {}, ins, {}, <<Access(Grid("a", n, n), {<<"ap">>})>>),
      Await({<<"CopyBack", 0>>}), Access({<<"ap">>}, {})>>

ManualCholesky(n) == <<Access({}, Grid("a", n, n))>> \o Cholesky(n, FALSE) \o CopyBack(n, {})
CpuCholesky(n) == <<Access({}, Grid("a", n, n))>> \o Cholesky(n, FALSE) \o CopyBack(n, {})

\* the blocks are reset on whatever device they are
AutomaticCholesky(n) ==
    Loop(0, n, LAMBDA i : Loop(0, n, LAMBDA j :
        <<Spawn(<<"Reset", i, j>>, {}, {}, {A(i, j)}, <<Access({}, {A(i, j)})>>)>>))
    \o <<Await(Grid("Reset", n, n))>>
    \o Cholesky(n, TRUE) \o CopyBack(n, Grid("a", n, n))

\* a task for each matrix of a list
BatchedCholesky(n) ==
    <<Access({}, Row("A", n))>>
    \o Loop(0, n, LAMBDA i : Leaf(<<"TaskSpace", i>>, {}, {<<"A", i>>}, {<<"A", i>>}))
    \o <<Await(Row("TaskSpace", n))>>

-----------------------------------------------------------------------------
(* Matrix multiplication, c[i][j] = a[i] b[j]^T.                           *)

ManualMatmul(n) ==
    <<Access({}, Grid("c", n, n) \cup Row("a", n) \cup Row("b", n))>>
    \o Loop(0, n, LAMBDA i : Loop(0, n, LAMBDA j :
        Leaf(<<"matmul", i, j>>, {}, {<<"a", i>>, <<"b", j>>}, {<<"c", i, j>>})))
    \o <<Await(Grid("matmul", n, n)), Access(Grid("c", n, n), {})>>

AutomaticMatmul(n) ==
    <<Access({}, Grid("c", n, n) \cup Row("a", n) \cup Row("b", n))>>
    \o Loop(0, n, LAMBDA i : Moved(<<"reset", i>>, {}, {}, {<<"a", i>>, <<"b", i>>}))
    \o <<Await(Row("reset", n))>>
    \o Loop(0, n, LAMBDA i : Loop(0, n, LAMBDA j :
        Moved(<<"matmul", i, j>>, {}, {<<"a", i>>, <<"b", j>>}, {<<"c", i, j>>})))
    \o <<Await(Grid("matmul", n, n)), Access(Grid("c", n, n), {})>>

-----------------------------------------------------------------------------
(* Fox's algorithm for y = A x on a grid of p x p partitions.  Partition i *)
(* of a vector of n elements are the elements of PartitionSlice.           *)

Part(x, i, j, of) == {<<x, i, j, e>> : e \in of}

PartitionFox(n, p) ==
    <<Access(Of("x", 0 .. n - 1),
             UNION {Part("xp", i, i, PartitionSlice(i, n, p, 0)) : i \in 0 .. p - 1} \cup Grid("Ap", p, p))>>

FoxPartitioned(n, p, devices, y, x, r) ==
    LET slice(i) == PartitionSlice(i, n, p, 0)
        device(i, j) == GridBlockedDevice(i, j, p, p, devices)
    IN  Loop(0, p, LAMBDA j : Loop(0, p, LAMBDA i :
            OnDevice(device(i, j), devices,
                Leaf(<<"B", r, i, j>>, {}, Part(x, j, j, slice(j)),
                     IF i = j THEN {} ELSE Part(x, i, j, slice(j))))))
        \o Loop(0, p, LAMBDA i : Loop(0, p, LAMBDA j :
            OnDevice(device(i, j), devices,
                Leaf(<<"M", r, i, j>>, {<<"B", r, i, j>>},
                     Part(x, i, j, slice(j)) \cup {<<"Ap", i, j>>}, Part(y, i, j, slice(i))))))
        \o Loop(0, p, LAMBDA i :
            OnDevice(device(i, i), devices,
                Leaf(<<"R", r, i>>, {<<"M", r, i, j>> : j \in 0 .. p - 1},
                     UNION {Part(y, i, j, slice(i)) : j \in 0 .. p - 1}, Part(y, i, i, slice(i)))))
        \o <<Await({<<"R", r, i>> : i \in 0 .. p - 1})>>

CollectFox(n, p, y) ==
    Loop(0, p, LAMBDA i :
        Leaf(<<"C", i>>, {}, Part(y, i, i, PartitionSlice(i, n, p, 0)), Of("y", PartitionSlice(i, n, p, 0))))
    \o <<Await(Row("C", p)), Access(Of("y", 0 .. n - 1), {})>>

\* the double multiplication of main: the result is the next input
Fox(n, p, devices) ==
    <<Access({}, Of("x", 0 .. n - 1))>> \o PartitionFox(n, p)
    \o FoxPartitioned(n, p, devices, "yp", "xp", 1) \o FoxPartitioned(n, p, devices, "xp", "yp", 2)
    \o CollectFox(n, p, "xp")
=============================================================================
