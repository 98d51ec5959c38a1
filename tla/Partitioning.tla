---------------------------- MODULE Partitioning ----------------------------
(* Mappers of parla/ldevice.py: which elements of a range belong to a      *)
(* logical device and which physical device implements it.  The code       *)
(* divides and multiplies in floating point.  A floating-point number is   *)
(* given here as a number of units of some size: the exact result in       *)
(* PartitionSlice and SequenceDevice, whose bounds and devices are those   *)
(* of the code in the sizes the runs have, and any result that IEEE        *)
(* arithmetic may round to in FloatProducts and FloatQuotients, which is   *)
(* what the theorems are about.                                            *)
EXTENDS Integers, Sequences, FiniteSets, SequencesExt

CeilDiv(a, b) == (a + b - 1) \div b

\* mutant: the bounds of a partition are rounded down, its size is not
PartitionSliceRounded(i, n, partitions, overlap) ==
    LET size == n \div partitions
    IN  Max({0, i * size - overlap}) .. Min({n, (i + 1) * size + overlap}) - 1

\* the indices between two multiples of the partition size
SliceBetween(from, to, unit, n, overlap) ==
    Max({0, CeilDiv(from, unit) - overlap}) .. Min({n, CeilDiv(to, unit) + overlap}) - 1

\* the indices that partition i of 0 .. n - 1 selects
PartitionSlice(i, n, partitions, overlap) ==
    SliceBetween(i * n, (i + 1) * n, partitions, n, overlap)

\* f units are less than 1 / b from the fraction a / b
Near(f, unit, a, b) == LET error == f * b - a * unit IN -unit < error /\ error < unit

\* The products i * (n / partitions) in floating point.  Two roundings to 53
\* bits change a product by about n / 2^52, less than 1 / partitions as long
\* as n * partitions < 2^51; and not at all if the partition size is whole.
FloatProducts(f, unit, n, partitions) ==
    /\ f \in [0 .. partitions -> Nat]
    /\ f[0] = 0
    /\ \A i \in 0 .. partitions : /\ Near(f[i], unit, i * n, partitions)
                                  /\ n % partitions = 0 => f[i] * partitions = i * n * unit

\* mutant: blocks of a whole number of logical devices
SequenceDeviceFloor(i, ldevices, devices) == i \div (ldevices \div devices)

\* LDeviceSequenceBlocked.device
DeviceAt(quotient, unit) == quotient \div unit
SequenceDevice(i, ldevices, devices) == DeviceAt(i * devices, ldevices)

\* The quotients i / (ldevices / devices) in floating point, rounded twice
\* too; the divisor is 1.0 if there are as many logical devices as physical.
FloatQuotients(f, unit, ldevices, devices) ==
    /\ f \in [0 .. ldevices - 1 -> Nat]
    /\ \A i \in 0 .. ldevices - 1 : /\ Near(f[i], unit, i * devices, ldevices)
                                    /\ ldevices = devices => f[i] = i * unit

Root2(n) == CHOOSE k \in 0 .. n : k * k >= n /\ \A l \in 0 .. k - 1 : l * l < n
Factors[n \in Nat] ==
    LET divisors == {k \in 2 .. Root2(n) : n % k = 0}
    IN  IF divisors = {} THEN <<n>> ELSE <<Min(divisors)>> \o Factors[n \div Min(divisors)]

Product(s) == FoldSeq(LAMBDA a, b : a * b, 1, s)

\* the grid of physical devices
SplitNumber(n) ==
    LET f == IF Len(Factors[n]) = 1 THEN Append(Factors[n], 1) ELSE Factors[n]
        half == Len(f) \div 2
    IN  <<Product(SubSeq(f, 1, half)), Product(SubSeq(f, half + 1, Len(f)))>>

GridBlockedDevice(i, j, nx, ny, devices) ==
    LET split == SplitNumber(devices)
    IN  ((i * split[1]) \div nx) * split[2] + (j * split[2]) \div ny

\* the row length used is the number of rows
RavelIndex(i, j, nx) == i * nx + j
GridRaveledDevice(i, j, nx, ny, devices) == SequenceDevice(RavelIndex(i, j, nx), nx * ny, devices)

\* the vertices a partition of a graph holds, in the order of its local IDs
GlobalIds(edges, owner, p) ==
    SetToSortSeq(UNION {{e[1], e[2]} : e \in {f \in edges : owner[f] = p}}, LAMBDA a, b : a < b)

\* global_ids.searchsorted
LocalId(ids, v) == Cardinality({k \in DOMAIN ids : ids[k] < v}) + 1
=============================================================================
