------------------------------ MODULE Tutorials ------------------------------
(* The programs of tutorial/ and benchmarks/overhead/, in the form of      *)
(* module Examples, and small programs around one library function.        *)
EXTENDS ProgramSteps, Partitioning

\* a task that neither reads nor writes anything
Silent(t, deps) == Leaf(t, deps, {}, {})

TaskSpaces ==
    FlattenSeq([i \in 1 .. 5 |-> Silent(<<"Your First TaskSpace", <<"0", "1", "1, 0, 0, 0, 1", "0, a", "0, b">>[i]>>, {})])

Dependencies(n) ==
    Silent(<<"TS_A", 0>>, {}) \o Silent(<<"TS_A", 1>>, {<<"TS_A", 0>>})
    \o Loop(0, n, LAMBDA i : Silent(<<"TS_A2", i>>, {}))
    \o Silent(<<"TS_B", 0>>, Row("TS_A2", 2))

\* the handle names the last task of the loop
Barriers(n) ==
    Loop(0, n, LAMBDA i : Leaf(<<"TS_A", i>>, {}, {}, {<<"A", i>>}))
    \o <<Await(Row("TS_A", n)), Access(Row("A", n), {})>>
    \o Loop(0, n, LAMBDA i : Leaf(<<"TS_B", i>>, {}, {}, {<<"B", i>>}))
    \o <<Await({<<"TS_B", 0>>}), Access({<<"B", 0>>}, {}), Await({<<"TS_B", n - 1>>}), Access({<<"B", n - 1>>}, {})>>

\* a task's loop variable is a copy of its own; the array is shared
LocalCapture(n) ==
    Loop(0, n, LAMBDA i : Leaf(<<"TaskSpace A", i>>, Of("TaskSpace A", {i - 1} \cap 0 .. n), {}, {<<"i of", i>>}))
    \o <<Await(Row("TaskSpace A", n)), Access({}, Row("shared_array", n))>>
    \o Loop(0, n, LAMBDA i : Leaf(<<"TaskSpace B", i>>, {}, {}, {<<"shared_array", i>>}))
    \o <<Await(Row("TaskSpace B", n)), Access(Row("shared_array", n), {})>>

LocalReturn(n) ==
    Loop(0, n, LAMBDA i : Leaf(<<"TaskSpace C", i>>, Of("TaskSpace C", {i - 1} \cap 0 .. n), {}, {<<"shared_dictionary", i>>}))
    \o <<Await(Row("TaskSpace C", n)), Access(Row("shared_dictionary", n), {})>>
    \o Loop(0, n, LAMBDA i : Leaf(<<"TaskSpace D", i>>, {}, {}, {<<"result", i>>}))
    \o Loop(0, n, LAMBDA i : <<Await({<<"TaskSpace D", i>>})>>)
    \o <<Access(Row("result", n), {})>>

CpuPlacement ==
    <<Access({}, {<<"x">>, <<"y">>})>>
    \o Leaf(<<"single_cpu_task">>, {}, {<<"x">>, <<"y">>}, {}) \o <<Await({<<"single_cpu_task">>})>>
    \o Leaf(<<"single_cpu_task_through_data_placement">>, {}, {<<"x">>, <<"y">>}, {})
    \o <<Await({<<"single_cpu_task_through_data_placement">>})>>

GpuPlacement(gpus) ==
    Silent(<<"gpuarch_place_case">>, {}) \o <<Await({<<"gpuarch_place_case">>}), Access({}, Row("x", 4) \cup Row("y", 4) \cup Row("z", 4))>>
    \o Loop(0, gpus, LAMBDA g :
        OnDevice(g, gpus, Leaf(<<"workpart_across_gpus", g>>, {}, {<<"x", g>>, <<"y", g>>}, {<<"z", g>>}))
        \o <<Await({<<"workpart_across_gpus", g>>})>>)
    \o <<Access(Row("z", 4), {})>>

DataPartitioning(n, p) ==
    <<Access({}, Of("data", 0 .. n - 1))>>
    \o Loop(0, 2, LAMBDA t :
        Leaf(<<"Task", t>>, Of("Task", {t - 1} \cap 0 .. 1), Of("data", UNION {PartitionSlice(i, n, p, 0) : i \in 0 .. p - 1}), {}))

\* the last task of the tutorial, with a row of A as operand, is left out:
\* the index of a row has no move of A to wait for (module DataMovement)
AutomaticMovement ==
    <<Access({}, {<<"A">>, <<"B">>})>>
    \o Moved(<<"tasks", 0>>, {}, {<<"A">>}, {}) \o Moved(<<"tasks", 1>>, {}, {}, {<<"B">>})
    \o Moved(<<"tasks", 2>>, Row("tasks", 2), {<<"A">>}, {<<"B">>})
    \o <<Await(Row("tasks", 3)), Access({<<"B">>}, {})>>

-----------------------------------------------------------------------------
(* Benchmarks of the overhead of a step of width tasks.                    *)

Outer(t, is) == {<<"Outer", 1, t, i>> : i \in is}

\* deps: each task on its predecessor, or with restrict on all of the step
\* before; isync: an await after each step
Timestep(steps, width, deps, restrict, isync) ==
    <<Access({}, Row("cpu_array", width))>>
    \o Loop(0, steps, LAMBDA t :
        Loop(0, width, LAMBDA ng :
            Leaf(<<"Outer", 1, t, ng>>,
                 IF ~deps \/ t = 0 THEN {} ELSE Outer(t - 1, IF restrict THEN 0 .. width - 1 ELSE {ng}),
                 {<<"cpu_array", ng>>}, {<<"cpu_array", ng>>}))
        \o (IF isync \/ t = steps - 1
            THEN <<Await(IF restrict THEN Outer(t, 0 .. width - 1)
                         ELSE UNION {Outer(u, 0 .. width - 1) : u \in 0 .. steps - 1})>>
            ELSE <<>>))

TimestepGpu(steps, gpus) ==
    <<Access({}, Row("gpu_array", gpus))>>
    \o Loop(0, steps, LAMBDA t :
        Loop(0, gpus, LAMBDA ng :
            OnDevice(ng, gpus, Leaf(<<"Outer", 1, t, ng>>, {}, {<<"gpu_array", ng>>}, {<<"gpu_array", ng>>})))
        \o <<Await(UNION {Outer(u, 0 .. gpus - 1) : u \in 0 .. steps - 1})>>)

Bench(n) == Loop(0, n, LAMBDA i : Silent(<<"T", i>>, {})) \o <<Await(Row("T", n))>>

-----------------------------------------------------------------------------
(* Programs around one function, as the tests of the repository have them. *)

\* a task per logical device of a sequence or a grid writes its partition
SequenceMapped(n, p, devices) ==
    Loop(0, p, LAMBDA i :
        OnDevice(SequenceDevice(i, p, devices), devices, Leaf(<<"t", i>>, {}, {}, Of("a", PartitionSlice(i, n, p, 0)))))
    \o <<Await(Row("t", p)), Access(Of("a", 0 .. n - 1), {})>>

GridMapped(n, m, px, py, devices, device) ==
    Loop(0, px, LAMBDA i : Loop(0, py, LAMBDA j :
        OnDevice(device[i, j], devices,
            Leaf(<<"t", i, j>>, {}, {},
                 {<<"a", x, y>> : x \in PartitionSlice(i, n, px, 0), y \in PartitionSlice(j, m, py, 0)}))))
    \o <<Await(Grid("t", px, py)), Access(Grid("a", n, m), {})>>

\* a task per partition of a graph finds its vertices by their local IDs and
\* writes its edges
GraphPartitioned(vertices, edges, owner, p) ==
    <<Access({}, Of("v", vertices))>>
    \o Loop(0, p, LAMBDA q :
        LET ids == GlobalIds(edges, owner, q)
            own == {e \in edges : owner[e] = q}
            ends == UNION {{e[1], e[2]} : e \in own}
        IN  <<Spawn(<<"t", q>>, {}, {}, {},
                <<AccessAs({<<"v", ids[LocalId(ids, v)]>> : v \in ends}, Of("e", own), Of("v", ends), Of("e", own))>>)>>)
    \o <<Await(Row("t", p)), Access(Of("e", edges), {})>>

\* a task with subarrays of x on its device reads and writes x[index]
FineGrained(cells, subarrays, index) ==
    <<Access({}, Named("x", cells)),
      Spawn(<<"t">>, {}, {}, {},
        <<AccessAs(Named("x", Touched(index, subarrays)), Named("x", Touched(index, subarrays)),
                   Named("x", Meant(index)), Named("x", Meant(index)))>>),
      Await({<<"t">>}), Access(Named("x", cells), {})>>
=============================================================================
