---------------------------- MODULE Applications ----------------------------
(* Further programs of examples/, in the form of module Examples.          *)
EXTENDS ProgramSteps, Partitioning

-----------------------------------------------------------------------------
(* Jacobi iteration on d row groups.  Group j of array x is a first row,   *)
(* the block and a last row: <<x, j, 0>>, <<x, j, 1>>, <<x, j, 2>>.        *)

\* the rows the neighbours keep for group j, and what its task updates
Borders(x, j, d) == {<<x, i[1], i[2]>> : i \in {k \in {<<j - 1, 2>>, <<j + 1, 0>>} : k[1] \in 0 .. d - 1}}
Updated(in, out, j) == {<<in, j, 1>>, <<out, j, 1>>, <<out, j, 0>>, <<out, j, 2>>}
\* mutant: the neighbour below is forgotten
NeighboursAbove(j, d) == 0 .. d - 1 \cap j - 1 .. j

Neighbours(j, d) == 0 .. d - 1 \cap j - 1 .. j + 1

JacobiStep(d, s, r, in, out) ==
    Loop(0, d, LAMBDA j :
        OnDevice(SequenceDevice(j, d, d), d,
            Moved(<<"block_tasks", r, s, j>>,
                  IF s = 0 THEN {} ELSE {<<"block_tasks", r, s - 1, i>> : i \in Neighbours(j, d)},
                  Borders(in, j, d), Updated(in, out, j))))

\* input and output are swapped before each step
JacobiTest(d, steps, r) ==
    Loop(0, steps, LAMBDA s :
        IF s % 2 = 0 THEN JacobiStep(d, s, r, "a1", "a0") ELSE JacobiStep(d, s, r, "a0", "a1"))
    \o <<Await({<<"block_tasks", r, steps - 1, j>> : j \in 0 .. d - 1})>>

JacobiAutomatic(d, steps, tests) ==
    <<Access({}, {<<x, j, l>> : x \in {"a0", "a1"}, j \in 0 .. d - 1, l \in 0 .. 2})>>
    \o Loop(0, d, LAMBDA j : Leaf(<<"compile", j>>, {}, {<<"a1", j, 1>>}, {<<"a0", j, 1>>}))
    \o <<Await(Row("compile", d))>>
    \o Loop(0, tests, LAMBDA r :
        (IF r = 0 THEN <<>> ELSE
            Loop(0, d, LAMBDA k : Loop(0, 3, LAMBDA l :
                Moved(<<"Reset", r, k, l>>, {}, {}, {<<"a1", k, l>>, <<"a0", k, l>>})))
            \o <<Await({<<"Reset", r, k, l>> : k \in 0 .. d - 1, l \in 0 .. 2})>>)
        \o JacobiTest(d, steps, r))

-----------------------------------------------------------------------------
(* K-means with the k-means++ choice of the first centroids.               *)

\* one task per centroid found so far measures the distances to it
Kmeanspp(k, ins) ==
    <<Access({<<"data">>}, {<<"centroids">>})>>
    \o Loop(0, k - 1, LAMBDA i :
        Loop(0, i + 1, LAMBDA j :
            <<Spawn(<<"KmeansppTask", (i * (i + 1)) \div 2 + j>>, {}, ins, {},
                    <<Access({<<"data">>, <<"centroids">>}, {<<"distance", j>>})>>)>>)
        \o <<Await(Row("KmeansppTask", ((i + 1) * (i + 2)) \div 2)),
             Access(Row("distance", i + 1) \cup {<<"data">>}, {<<"centroids">>})>>)

KmeansMain(start) ==
    <<Spawn(<<"Dummy", 0>>, {}, {}, {},
        <<Access({}, {<<"data">>, <<"centroids">>})>> \o start \o <<Await(Row("Task", 2)), Access({<<"centroids">>}, {})>>)>>

Kmeans(k) ==
    KmeansMain(
        <<Spawn(<<"Task", 0>>, {}, {<<"data">>}, {<<"centroids">>}, Kmeanspp(k, {<<"data">>, <<"centroids">>})),
          Await({<<"Task", 0>>})>>
        \o Moved(<<"Task", 1>>, {<<"Task", 0>>}, {<<"data">>}, {<<"centroids">>}))

\* the second task works on copies of its own
KmeansManual(k) ==
    KmeansMain(
        <<Spawn(<<"Task", 0>>, {}, {}, {}, Kmeanspp(k, {}))>>
        \o Leaf(<<"Task", 1>>, {<<"Task", 0>>}, {<<"data">>, <<"centroids">>}, {<<"centroids_d">>}))

-----------------------------------------------------------------------------
(* Reductions over partitions of n elements.                               *)

Inner(n, p, devices) ==
    <<Access({}, Of("a", 0 .. n - 1) \cup Of("b", 0 .. n - 1))>>
    \o Loop(0, p, LAMBDA i :
        Leaf(<<"P", i>>, {}, Of("a", PartitionSlice(i, n, p, 0)) \cup Of("b", PartitionSlice(i, n, p, 0)),
             {<<"partial_sums", i>>}))
    \o Leaf(<<"reduce">>, Row("P", p), Row("partial_sums", p), {<<"res">>})
    \o <<Await({<<"reduce">>}), Access({<<"res">>}, {})>>

KokkosReduction(n, p, devices) ==
    <<Access({}, Of("array", 0 .. n - 1))>>
    \o Finish(Loop(0, p, LAMBDA j :
        OnDevice(SequenceDevice(j, p, devices), devices,
            Leaf(<<"device_local_task", j>>, {}, Of("array", PartitionSlice(j, n, p, 0)), {<<"results", j>>}))))
    \o <<Access(Row("results", p), {})>>

\* the blocks of exp.py are of equal size but for the last
ExpBlock(i, n, p) == i * ((n - 1) \div p + 1) .. (IF (i + 1) * ((n - 1) \div p + 1) < n THEN (i + 1) * ((n - 1) \div p + 1) ELSE n) - 1

Exp(n, p, runs) ==
    Loop(0, runs, LAMBDA r :
        <<Spawn(<<"launch_exp", r>>, {}, {}, {},
            <<Access({}, Of("a_part", 0 .. n - 1))>>
            \o Loop(0, p, LAMBDA i :
                Leaf(<<"exp_runs", r, i>>, {}, Of("a_part", ExpBlock(i, n, p)), Of("a_part", ExpBlock(i, n, p))))
            \o <<Await({<<"exp_runs", r, i>> : i \in 0 .. p - 1}), Access(Of("a_part", 0 .. n - 1), {})>>),
          Await({<<"launch_exp", r>>})>>)

\* quicksort of lo .. hi: partition leaves the pivot in the lowest, middle or
\* highest place (half = 0, 1, 2)
RECURSIVE Sort(_, _, _, _)
Sort(lo, hi, cutoff, half) ==
    IF lo >= hi - cutoff THEN <<Access(Of("a", lo .. hi), Of("a", lo .. hi))>>
    ELSE LET p == lo + ((hi - lo) * half) \div 2
         IN  <<Access(Of("a", lo .. hi), Of("a", lo .. hi)),
               Spawn(<<"lower_block_task", lo, hi>>, {}, {}, {}, Sort(lo, p - 1, cutoff, half)),
               Spawn(<<"upper_block_task", lo, hi>>, {}, {}, {}, Sort(p + 1, hi, cutoff, half))>>

Quicksort(n, cutoff, half) == <<Access({}, Of("a", 0 .. n - 1))>> \o Sort(0, n - 1, cutoff, half)

-----------------------------------------------------------------------------
(* QR factorisation of a tall matrix in n blocks.                          *)

T1(r, i) == <<"T1", r, i>>
T3(r, i) == <<"T3", r, i>>
Firsts(r, n) == {T1(r, i) : i \in 0 .. n - 1}

FactorBlocks(n, r) ==
    Loop(0, n, LAMBDA i : Leaf(T1(r, i), {}, {<<"A", i>>}, {<<"Q1", r, i>>, <<"R1", r, i>>}))

FactorR(n, r) ==
    Leaf(<<"t2", r>>, Firsts(r, n), {<<"R1", r, i>> : i \in 0 .. n - 1}, {<<"Q2", r>>, <<"R", r>>})
    \o <<Await({<<"t2", r>>}), Access({<<"Q2", r>>, <<"R", r>>}, {})>>

\* the memory a task asks for is computed from the block at its spawn
MultiplyBlocks(n, r) ==
    Loop(0, n, LAMBDA i :
        <<Access({<<"Q1", r, i>>}, {})>>
        \o Leaf(T3(r, i), {T1(r, i), <<"t2", r>>}, {<<"Q1", r, i>>, <<"Q2", r>>}, {<<"Q", r, i>>}))
    \o <<Await({T3(r, i) : i \in 0 .. n - 1}), Access({<<"Q", r, i>> : i \in 0 .. n - 1}, {})>>

\* await t1 awaits the last of the tasks of the loop
Tsqr(n) ==
    <<Access({}, Row("A", n))>> \o FactorBlocks(n, 0) \o <<Await({T1(0, n - 1)})>> \o FactorR(n, 0) \o MultiplyBlocks(n, 0)

\* the blocks of A and R1 are given up as they are used; the placement of a
\* product is where its block is
TsqrPureGpu(n) ==
    <<Access({}, Row("A", n))>>
    \o Loop(0, n, LAMBDA i : Leaf(T1(0, i), {}, {<<"A", i>>}, {<<"Q1", 0, i>>, <<"R1", 0, i>>, <<"A", i>>}))
    \o <<Await({T1(0, n - 1)})>>
    \o Leaf(<<"t2", 0>>, Firsts(0, n), {<<"R1", 0, i>> : i \in 0 .. n - 1},
            {<<"Q2", 0>>, <<"R", 0>>} \cup {<<"R1", 0, i>> : i \in 0 .. n - 1})
    \o <<Await({<<"t2", 0>>}), Access({<<"Q2", 0>>, <<"R", 0>>}, {})>>
    \o MultiplyBlocks(n, 0)

\* several runs on the same matrix
TsqrRepeated(n, runs) ==
    <<Access({}, Row("A", n))>> \o Loop(0, runs, LAMBDA r : FactorBlocks(n, r) \o FactorR(n, r) \o MultiplyBlocks(n, r))
=============================================================================
