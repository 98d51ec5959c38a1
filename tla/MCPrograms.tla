----------------------------- MODULE MCPrograms -----------------------------
(* The programs of the repository in small sizes, for TLC.                 *)
EXTENDS Programs, Examples, Applications, Tutorials

\* the indices of one axis of n elements; steps of at most two (README)
Indices(n) ==
    {At(k) : k \in 0 .. n - 1} \cup {Among(<<0, n - 1>>), Among(<<n - 1>>), Among(<<1, 0, 2>>)}
    \cup {Slice(be[1], be[2], s) : be \in {x \in (0 .. n - 1) \X (1 .. n) : x[1] < x[2]}, s \in 1 .. 2}

\* the index is in the subarray; a subarray loaded by an integer or by a list
\* of one element is found under the integer only, one loaded by a slice not
\* under a slice of smaller step
Covers(s, i) ==
    /\ ToSet(i.list) \subseteq ToSet(s.list)
    /\ s.kind # "slice" /\ Len(s.list) = 1 => i = At(s.list[1])
    /\ s.kind = "slice" /\ i.kind = "slice" => i.step % s.step = 0

\* one subarray and an index into it; two subarrays, the second is meant;
\* two axes
OneAxis(n) ==
    LET pairs == {p \in Indices(n) \X Indices(n) : Covers(p[1], p[2])}
    IN  [p \in pairs |-> FineGrained({<<k>> : k \in 0 .. n - 1}, <<<<p[1]>>>>, <<p[2]>>)]
TwoSubarrays(n) ==
    LET cases == {p \in Indices(n) \X Indices(n) : Covers(p[1], p[2]) /\ ToSet(p[2].list) \cap {0, 1} = {}}
    IN  [p \in cases |-> FineGrained({<<k>> : k \in 0 .. n - 1}, <<<<Slice(0, 2, 1)>>, <<p[1]>>>>, <<p[2]>>)]
TwoAxes(n) ==
    LET some == {At(1), Slice(0, n, 1), Slice(1, n, 2), Among(<<1, 0>>)}
        cases == {p \in (some \X some) \X (some \X some) : Covers(p[1][1], p[2][1]) /\ Covers(p[1][2], p[2][2])}
    IN  [p \in cases |-> FineGrained((0 .. n - 1) \X (0 .. n - 1), <<p[1]>>, p[2])]

Square == {<<0, 1>>, <<1, 2>>, <<2, 3>>, <<3, 0>>, <<1, 1>>}

Plain ==
    [manual_cholesky |-> ManualCholesky(3),
     cpu_cholesky |-> CpuCholesky(2),
     automatic_cholesky |-> AutomaticCholesky(3),
     batched_cholesky |-> BatchedCholesky(3),
     manual_matmul |-> ManualMatmul(2),
     automatic_matmul |-> AutomaticMatmul(2),
     fox |-> Fox(4, 2, 2),
     jacobi_automatic |-> JacobiAutomatic(3, 2, 2),
     kmeans |-> Kmeans(3),
     kmeans_manual |-> KmeansManual(3),
     inner |-> Inner(7, 3, 2),
     kokkos |-> KokkosReduction(7, 3, 2),
     exp |-> Exp(7, 3, 2),
     quicksort_middle |-> Quicksort(7, 1, 1),
     quicksort_lowest |-> Quicksort(4, 1, 0),
     tsqr |-> Tsqr(3),
     tsqr_pure_gpu |-> TsqrPureGpu(3),
     tsqr_repeated |-> TsqrRepeated(2, 2),
     taskspaces |-> TaskSpaces,
     dependencies |-> Dependencies(4),
     barriers |-> Barriers(4),
     local_capture |-> LocalCapture(3),
     local_return |-> LocalReturn(3),
     cpu_placement |-> CpuPlacement,
     gpu_placement |-> GpuPlacement(2),
     data_partitioning |-> DataPartitioning(4, 2),
     automatic_movement |-> AutomaticMovement,
     timestep_gpu |-> TimestepGpu(2, 2),
     bench |-> Bench(4)]

Timesteps == [o \in {o \in [deps : BOOLEAN, restrict : BOOLEAN, isync : BOOLEAN] : o.deps \/ o.isync} |->
                Timestep(3, 2, o.deps, o.restrict, o.isync)]
Sequences == [o \in {o \in [n : 4 .. 7, p : 1 .. 4, devices : 1 .. 4] : o.devices <= o.p} |->
                SequenceMapped(o.n, o.p, o.devices)]
Blocked == [o \in {<<px, py, d>> \in (1 .. 3) \X (1 .. 3) \X (1 .. 6) : d <= px * py} |->
                GridMapped(3, 4, o[1], o[2], o[3],
                    [i \in 0 .. o[1] - 1, j \in 0 .. o[2] - 1 |-> GridBlockedDevice(i, j, o[1], o[2], o[3])])]
Raveled == [o \in {<<px, d>> \in (1 .. 3) \X (1 .. 6) : d <= px * px} |->
                GridMapped(3, 4, o[1], o[1], o[2],
                    [i, j \in 0 .. o[1] - 1 |-> GridRaveledDevice(i, j, o[1], o[1], o[2])])]
Graphs == [owner \in [Square -> 0 .. 1] |-> GraphPartitioned(0 .. 3, Square, owner, 2)]

Small ==
    [plain |-> Plain, timestep |-> Timesteps, sequence |-> Sequences, blocked |-> Blocked, raveled |-> Raveled,
     graph |-> Graphs, one_axis |-> OneAxis(5), two_subarrays |-> TwoSubarrays(5), two_axes |-> TwoAxes(3)]
=============================================================================
