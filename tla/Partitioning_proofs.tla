------------------------ MODULE Partitioning_proofs ------------------------
(***************************************************************************)
(* What the index arithmetic of parla/ldevice.py does for every length and *)
(* every number of partitions and devices, in floating point, where TLC    *)
(* tries exact arithmetic on small ones.  A rounded multiple of the        *)
(* partition size is on the right side of every whole number other than    *)
(* its exact value (NearSide).                                             *)
(***************************************************************************)
EXTENDS Partitioning, TLAPS

LEMMA MultiplyMonotone ==
    ASSUME NEW a \in Int, NEW b \in Int, NEW c \in Nat, a <= b
    PROVE  a * c <= b * c
  BY SMT

LEMMA MultiplyNat == ASSUME NEW a \in Nat, NEW b \in Nat PROVE a * b \in Nat
  BY SMT

\* a quotient rounded down: the multiples of b not above a
LEMMA DivFloor ==
    ASSUME NEW a \in Nat, NEW b \in Nat \ {0}, NEW q \in Int
    PROVE  q <= a \div b <=> q * b <= a
  <1> DEFINE d == a \div b
  <1>1. d \in Nat /\ d * b <= a /\ a < (d + 1) * b
    BY SMT
  <1>2. ASSUME q <= d PROVE q * b <= a
    BY <1>1, <1>2, MultiplyMonotone, SMT
  <1>3. ASSUME d < q PROVE a < q * b
    <2>1. (d + 1) * b <= q * b
      BY <1>1, <1>3, MultiplyMonotone, SMT
    <2> QED BY <1>1, <2>1, SMT
  <1> QED BY <1>1, <1>2, <1>3, SMT

\* a quotient rounded up: the multiples of b not below a
LEMMA CeilDivCeil ==
    ASSUME NEW a \in Nat, NEW b \in Nat \ {0}, NEW q \in Int
    PROVE  CeilDiv(a, b) \in Nat /\ (CeilDiv(a, b) <= q <=> a <= q * b)
  <1> DEFINE e == a + b - 1
  <1>1. e \in Nat /\ e \div b \in Nat
    BY SMT
  <1>2. q + 1 <= e \div b <=> (q + 1) * b <= e
    BY <1>1, DivFloor
  <1>3. (q + 1) * b = q * b + b /\ q * b \in Int
    BY SMT
  <1>4. (q + 1) * b <= e <=> ~(a <= q * b)
    BY <1>3, SMT
  <1> QED BY <1>1, <1>2, <1>4, SMT DEF CeilDiv

\* Max and Min choose one of the two
LEMMA MaxOfTwo ==
    ASSUME NEW a \in Int, NEW b \in Int, NEW x \in Int
    PROVE  Max({a, b}) \in Int /\ (Max({a, b}) <= x <=> a <= x /\ b <= x)
  <1>1. \E m \in {a, b} : \A y \in {a, b} : m >= y
    BY SMT
  <1>2. Max({a, b}) \in {a, b} /\ \A y \in {a, b} : Max({a, b}) >= y
    BY <1>1 DEF Max
  <1> QED BY <1>2, SMT

LEMMA MinOfTwo ==
    ASSUME NEW a \in Int, NEW b \in Int, NEW x \in Int
    PROVE  Min({a, b}) \in Int /\ (x < Min({a, b}) <=> x < a /\ x < b)
  <1>1. \E m \in {a, b} : \A y \in {a, b} : m <= y
    BY SMT
  <1>2. Min({a, b}) \in {a, b} /\ \A y \in {a, b} : Min({a, b}) <= y
    BY <1>1 DEF Min
  <1> QED BY <1>2, SMT

\* A number of units near a / b is on the same side of x as a / b.
LEMMA NearSide ==
    ASSUME NEW f \in Nat, NEW unit \in Nat \ {0}, NEW a \in Nat, NEW b \in Nat \ {0}, NEW x \in Nat,
           Near(f, unit, a, b)
    PROVE  /\ a < x * b => f < x * unit
           /\ x * b < a => x * unit < f
  <1> DEFINE fb == f * b
             au == a * unit
             xb == x * b
             xu == x * unit
  <1>1. fb \in Nat /\ au \in Nat /\ xb \in Nat /\ xu \in Nat
    BY MultiplyNat, SMT
  <1>2. fb - au < unit /\ au - fb < unit
    BY <1>1, SMT DEF Near
  <1>3. xb * unit = xu * b
    BY SMT
  <1>4. ASSUME a < xb PROVE f < xu
    <2>1. (a + 1) * unit <= xb * unit /\ (a + 1) * unit = au + unit
      BY <1>1, <1>4, MultiplyMonotone, SMT
    <2>2. fb < xu * b
      BY <1>1, <1>2, <1>3, <2>1, MultiplyNat, SMT
    <2>3. ASSUME xu <= f PROVE FALSE
      <3>1. xu * b <= fb /\ xu * b \in Nat
        BY <1>1, <2>3, MultiplyMonotone, MultiplyNat, SMT
      <3> QED BY <1>1, <2>2, <3>1, SMT
    <2> QED BY <1>1, <2>3, SMT
  <1>5. ASSUME xb < a PROVE xu < f
    <2>1. (xb + 1) * unit <= au /\ (xb + 1) * unit = xb * unit + unit /\ xb * unit \in Nat
      BY <1>1, <1>5, MultiplyMonotone, MultiplyNat, SMT
    <2>2. xu * b < fb
      BY <1>1, <1>2, <1>3, <2>1, SMT
    <2>3. ASSUME f <= xu PROVE FALSE
      <3>1. fb <= xu * b /\ xu * b \in Nat
        BY <1>1, <2>3, MultiplyMonotone, MultiplyNat, SMT
      <3> QED BY <1>1, <2>2, <3>1, SMT
    <2> QED BY <1>1, <2>3, SMT
  <1> QED BY <1>4, <1>5

-----------------------------------------------------------------------------
(* Partitions of a range.                                                  *)

\* Where the bounds of a slice are.
LEMMA InSlice ==
    ASSUME NEW n \in Nat \ {0}, NEW unit \in Nat \ {0}, NEW f \in Nat, NEW g \in Nat, NEW x \in 0 .. n - 1
    PROVE  x \in SliceBetween(f, g, unit, n, 0) <=> f <= x * unit /\ ~(g <= x * unit)
  <1> DEFINE from == CeilDiv(f, unit)
             to == CeilDiv(g, unit)
  <1>1. x \in Int /\ n \in Int
    BY SMT
  <1>2. from \in Nat /\ (from <= x <=> f <= x * unit)
    BY <1>1, CeilDivCeil
  <1>3. to \in Nat /\ (to <= x <=> g <= x * unit)
    BY <1>1, CeilDivCeil
  <1>4. Max({0, from - 0}) \in Int /\ (Max({0, from - 0}) <= x <=> from <= x)
    <2>1. 0 \in Int /\ from - 0 \in Int /\ from - 0 = from /\ 0 <= x
      BY <1>2, SMT
    <2> QED BY <2>1, <1>1, MaxOfTwo
  <1>5. Min({n, to + 0}) \in Int /\ (x < Min({n, to + 0}) <=> x < to)
    <2>1. n \in Int /\ to + 0 \in Int /\ to + 0 = to /\ x < n
      BY <1>3, SMT
    <2> QED BY <2>1, <1>1, MinOfTwo
  <1>6. x \in SliceBetween(f, g, unit, n, 0) <=> Max({0, from - 0}) <= x /\ x < Min({n, to + 0})
    BY <1>1, <1>4, <1>5, SMT DEF SliceBetween
  <1> HIDE DEF from, to
  <1> QED BY <1>1, <1>2, <1>3, <1>4, <1>5, <1>6, SMT

\* The quotient of an element, and what each rounded bound is to it.
LEMMA BoundsOfElement ==
    ASSUME NEW n \in Nat \ {0}, NEW p \in Nat \ {0}, NEW unit \in Nat \ {0}, NEW f,
           FloatProducts(f, unit, n, p), NEW x \in 0 .. n - 1, NEW k \in 0 .. p
    PROVE  /\ f[k] \in Nat /\ SequenceDevice(x, n, p) \in Nat
           /\ k <= SequenceDevice(x, n, p) <=> k * n <= x * p
           /\ k * n < x * p => f[k] <= x * unit
           /\ x * p < k * n => ~(f[k] <= x * unit)
           /\ n % p = 0 /\ k * n = x * p => f[k] <= x * unit
  <1> DEFINE o == SequenceDevice(x, n, p)
  <1>1. k \in Nat /\ x \in Nat /\ k * n \in Nat /\ x * p \in Nat
    BY MultiplyNat, SMT
  <1>2. f[k] \in Nat /\ Near(f[k], unit, k * n, p)
    BY DEF FloatProducts
  <1>3. o \in Nat /\ (k <= o <=> k * n <= x * p)
    <2>1. (x * p) \div n \in Nat
      BY <1>1, SMT
    <2> QED BY <1>1, <2>1, DivFloor DEF SequenceDevice, DeviceAt
  <1>4. /\ k * n < x * p => f[k] < x * unit
        /\ x * p < k * n => x * unit < f[k]
    BY <1>1, <1>2, NearSide
  <1>5. ASSUME n % p = 0, k * n = x * p PROVE f[k] = x * unit
    <2>1. f[k] * p = k * n * unit
      BY <1>5 DEF FloatProducts
    <2>2. f[k] * p = (x * unit) * p
      BY <1>1, <1>5, <2>1, SMT
    <2>3. x * unit \in Nat
      BY <1>1, MultiplyNat
    <2>4. ASSUME f[k] < x * unit PROVE FALSE
      <3>1. (f[k] + 1) * p <= (x * unit) * p
        BY <1>2, <2>3, <2>4, MultiplyMonotone, SMT
      <3> QED BY <1>2, <2>2, <3>1, SMT
    <2>5. ASSUME x * unit < f[k] PROVE FALSE
      <3>1. (x * unit + 1) * p <= f[k] * p
        BY <1>2, <2>3, <2>5, MultiplyMonotone, SMT
      <3> QED BY <1>2, <2>2, <2>3, <3>1, SMT
    <2> QED BY <1>2, <2>3, <2>4, <2>5, SMT
  <1>6. x * unit \in Nat
    BY <1>1, MultiplyNat
  <1> QED BY <1>2, <1>3, <1>4, <1>5, <1>6, SMT

\* An element that the slice of partition i selects belongs there, i being
\* the quotient (x * p) \div n; only the first element of the next partition
\* may be selected too early, and only if the partition size is not whole.
THEOREM PartitionOwner ==
    ASSUME NEW n \in Nat \ {0}, NEW p \in Nat \ {0}, NEW unit \in Nat \ {0}, NEW f,
           FloatProducts(f, unit, n, p), NEW i \in 0 .. p - 1, NEW x \in 0 .. n - 1,
           x \in SliceBetween(f[i], f[i + 1], unit, n, 0)
    PROVE  \/ i = SequenceDevice(x, n, p)
           \/ i + 1 = SequenceDevice(x, n, p) /\ x * p = (i + 1) * n /\ n % p # 0
  <1> DEFINE o == SequenceDevice(x, n, p)
  <1>1. i \in 0 .. p /\ i + 1 \in 0 .. p /\ i \in Nat
    BY SMT
  <1>2. /\ f[i] \in Nat /\ o \in Nat
        /\ i <= o <=> i * n <= x * p
        /\ x * p < i * n => ~(f[i] <= x * unit)
    BY <1>1, BoundsOfElement
  <1>3. /\ f[i + 1] \in Nat
        /\ i + 1 <= o <=> (i + 1) * n <= x * p
        /\ (i + 1) * n < x * p => f[i + 1] <= x * unit
        /\ n % p = 0 /\ (i + 1) * n = x * p => f[i + 1] <= x * unit
    BY <1>1, BoundsOfElement
  <1>4. f[i] <= x * unit /\ ~(f[i + 1] <= x * unit)
    BY <1>2, <1>3, InSlice
  <1>5. i * n \in Nat /\ (i + 1) * n \in Nat /\ x * p \in Nat /\ (i + 1 + 1) * n = (i + 1) * n + n
    BY <1>1, MultiplyNat, SMT
  <1>6. i <= o
    BY <1>2, <1>4, <1>5, SMT
  <1>7. CASE ~(i + 1 <= o)
    BY <1>1, <1>2, <1>6, <1>7, SMT
  <1>8. CASE i + 1 <= o
    <2>1. (i + 1) * n = x * p /\ n % p # 0
      BY <1>3, <1>4, <1>5, <1>8, SMT
    <2>2. ~(i + 1 + 1 <= o)
      <3>1. i + 1 + 1 \in Int /\ x * p \in Nat
        BY <1>1, <1>5, SMT
      <3>2. i + 1 + 1 <= o <=> (i + 1 + 1) * n <= x * p
        BY <3>1, DivFloor DEF SequenceDevice, DeviceAt
      <3> QED BY <1>5, <2>1, <3>2, SMT
    <2> QED BY <1>1, <1>2, <1>8, <2>1, <2>2, SMT
  <1> QED BY <1>7, <1>8

\* The quotient is a partition, or a device, that exists, also if it is
\* computed in floating point.
THEOREM DeviceExists ==
    ASSUME NEW n \in Nat \ {0}, NEW p \in Nat \ {0}, NEW x \in 0 .. n - 1,
           NEW unit \in Nat \ {0}, NEW q \in Nat, Near(q, unit, x * p, n)
    PROVE  DeviceAt(q, unit) \in 0 .. p - 1
  <1>1. x * p \in Nat /\ p \in Nat /\ x \in Int /\ n \in Int /\ x + 1 <= n
    BY MultiplyNat, SMT
  <1>2. (x + 1) * p <= n * p /\ (x + 1) * p = x * p + p /\ n * p \in Nat /\ p * n = n * p
    BY <1>1, MultiplyMonotone, MultiplyNat, SMT
  <1>3. x * p < p * n
    BY <1>1, <1>2, SMT
  <1>4. q < p * unit
    BY <1>1, <1>3, NearSide
  <1>5. q \div unit \in Nat /\ (p <= q \div unit <=> p * unit <= q)
    <2>1. q \div unit \in Nat
      BY SMT
    <2> QED BY <1>1, <2>1, DivFloor
  <1>6. p * unit \in Nat
    BY MultiplyNat
  <1> QED BY <1>1, <1>4, <1>5, <1>6, SMT DEF DeviceAt

\* The exact quotients and products are among those of the theorems.
LEMMA ExactQuotient ==
    ASSUME NEW a \in Nat, NEW b \in Nat \ {0}
    PROVE  Near(a, b, a, b)
  <1>1. a * b \in Nat
    BY MultiplyNat
  <1> QED BY <1>1, SMT DEF Near

LEMMA ExactProducts ==
    ASSUME NEW n \in Nat \ {0}, NEW p \in Nat \ {0}
    PROVE  FloatProducts([i \in 0 .. p |-> i * n], p, n, p)
  <1> DEFINE f == [i \in 0 .. p |-> i * n]
  <1>1. f[0] = 0
    BY SMT
  <1>2. ASSUME NEW i \in 0 .. p PROVE f[i] \in Nat /\ f[i] = i * n
    BY MultiplyNat, SMT
  <1>3. ASSUME NEW i \in 0 .. p PROVE Near(f[i], p, i * n, p)
    BY <1>2, ExactQuotient
  <1>4. f \in [0 .. p -> Nat]
    BY <1>2
  <1> QED BY <1>1, <1>2, <1>3, <1>4 DEF FloatProducts

LEMMA ExactQuotients ==
    ASSUME NEW l \in Nat \ {0}, NEW d \in Nat \ {0}
    PROVE  FloatQuotients([i \in 0 .. l - 1 |-> i * d], l, l, d)
  <1> DEFINE f == [i \in 0 .. l - 1 |-> i * d]
  <1>1. ASSUME NEW i \in 0 .. l - 1 PROVE f[i] \in Nat /\ f[i] = i * d
    BY MultiplyNat, SMT
  <1>2. ASSUME NEW i \in 0 .. l - 1 PROVE Near(f[i], l, i * d, l)
    BY <1>1, ExactQuotient
  <1>3. f \in [0 .. l - 1 -> Nat]
    BY <1>1
  <1> QED BY <1>1, <1>2, <1>3 DEF FloatQuotients

\* The partitions of a range cover each of its elements exactly once,
\* however the bounds between them are rounded.
THEOREM PartitionsCover ==
    ASSUME NEW n \in Nat \ {0}, NEW p \in Nat \ {0}, NEW unit \in Nat \ {0}, NEW f,
           FloatProducts(f, unit, n, p), NEW x \in 0 .. n - 1
    PROVE  \E i \in 0 .. p - 1 : \A j \in 0 .. p - 1 :
               x \in SliceBetween(f[j], f[j + 1], unit, n, 0) <=> j = i
  <1> DEFINE o == SequenceDevice(x, n, p)
             In(j) == x \in SliceBetween(f[j], f[j + 1], unit, n, 0)
             Reached(k) == f[k] <= x * unit
  <1>1. o \in 0 .. p - 1 /\ x * p \in Nat
    <2>1. x * p \in Nat
      BY MultiplyNat, SMT
    <2> QED BY <2>1, ExactQuotient, DeviceExists DEF SequenceDevice
  <1>2. ASSUME NEW j \in 0 .. p - 1 PROVE In(j) <=> Reached(j) /\ ~Reached(j + 1)
    <2>1. j \in 0 .. p /\ j + 1 \in 0 .. p
      BY SMT
    <2>2. f[j] \in Nat /\ f[j + 1] \in Nat
      BY <2>1 DEF FloatProducts
    <2> QED BY <2>2, InSlice
  <1>3. ASSUME NEW j \in 0 .. p - 1, In(j) PROVE j = o \/ j + 1 = o
    BY <1>3, PartitionOwner
  <1>4. o \in 0 .. p /\ o + 1 \in 0 .. p
    BY <1>1, SMT
  <1>5. o * n <= x * p /\ (o * n < x * p => Reached(o))
    BY <1>4, BoundsOfElement, SMT
  <1>6. ~Reached(o + 1)
    <2>1. /\ o + 1 <= o <=> (o + 1) * n <= x * p
          /\ x * p < (o + 1) * n => ~Reached(o + 1)
      BY <1>4, BoundsOfElement
    <2>2. (o + 1) * n \in Nat
      BY <1>1, MultiplyNat, SMT
    <2> QED BY <1>1, <2>1, <2>2, SMT
  <1>7. CASE Reached(o)
    <2>1. ASSUME NEW j \in 0 .. p - 1, In(j) PROVE j = o
      BY <1>2, <1>3, <1>7, <2>1
    <2>2. In(o)
      BY <1>1, <1>2, <1>6, <1>7
    <2> QED BY <1>1, <2>1, <2>2
  <1>8. CASE ~Reached(o)
    <2>1. o # 0
      <3>1. ASSUME o = 0 PROVE Reached(o)
        BY <3>1, SMT DEF FloatProducts
      <3> QED BY <3>1, <1>8
    <2>2. o - 1 \in 0 .. p - 1 /\ o - 1 \in 0 .. p /\ o - 1 + 1 = o
      BY <1>1, <2>1, SMT
    <2>3. Reached(o - 1)
      <3>1. (o - 1) * n < x * p => Reached(o - 1)
        BY <2>2, BoundsOfElement
      <3>2. o * n \in Nat /\ (o - 1) * n = o * n - n
        BY <1>1, MultiplyNat, SMT
      <3> QED BY <1>1, <1>5, <3>1, <3>2, SMT
    <2>4. In(o - 1)
      BY <1>2, <1>8, <2>2, <2>3
    <2>5. ASSUME NEW j \in 0 .. p - 1, In(j) PROVE j = o - 1
      <3>1. j # o
        BY <1>2, <1>8, <2>5
      <3>2. j + 1 = o
        BY <1>3, <2>5, <3>1
      <3> QED BY <3>2, SMT
    <2> QED BY <2>2, <2>4, <2>5
  <1> QED BY <1>7, <1>8

-----------------------------------------------------------------------------
(* Physical devices.                                                       *)

\* Every physical device implements a logical one, if there are as many of
\* these, also in floating point: LDeviceSequence drops the devices that
\* would be left without.
THEOREM NoDeviceIdle ==
    ASSUME NEW l \in Nat \ {0}, NEW d \in Nat \ {0}, d <= l, NEW unit \in Nat \ {0}, NEW f,
           FloatQuotients(f, unit, l, d), NEW e \in 0 .. d - 1
    PROVE  \E i \in 0 .. l - 1 : DeviceAt(f[i], unit) = e
  <1>1. CASE l = d
    <2>1. e \in 0 .. l - 1 /\ e \in Nat
      BY <1>1, SMT
    <2>2. f[e] = e * unit
      BY <1>1, <2>1 DEF FloatQuotients
    <2>3. (e * unit) \div unit = e
      BY <2>1, SMT
    <2> QED BY <2>1, <2>2, <2>3 DEF DeviceAt
  <1>2. CASE d < l
    <2> DEFINE q == (e * l) \div d
               k == q + 1
    <2>1. e \in Nat /\ e * l \in Nat /\ (e + 1) * l = e * l + l /\ e + 1 <= d
      BY MultiplyNat, SMT
    <2>2. q \in Nat /\ q * d <= e * l /\ ~(k * d <= e * l)
      <3>1. q \in Nat
        BY <2>1, SMT
      <3>2. q <= q <=> q * d <= e * l
        BY <2>1, <3>1, DivFloor
      <3>3. k \in Int /\ ~(k <= q)
        BY <3>1, SMT
      <3>4. k <= q <=> k * d <= e * l
        BY <2>1, <3>3, DivFloor
      <3> QED BY <3>1, <3>2, <3>3, <3>4, SMT
    <2>3. k \in Nat /\ k * d \in Nat /\ k * d = q * d + d /\ q * d \in Nat
      BY <2>2, MultiplyNat, SMT
    <2> HIDE DEF q, k
    <2>4. e * l < k * d /\ k * d < (e + 1) * l
      BY <1>2, <2>1, <2>2, <2>3, SMT
    <2>5. k \in 0 .. l - 1
      <3>1. (e + 1) * l <= d * l /\ d * l \in Nat /\ l * d = d * l
        BY <2>1, MultiplyMonotone, MultiplyNat, SMT
      <3>2. ASSUME l <= k PROVE FALSE
        <4>1. l * d <= k * d
          BY <2>3, <3>2, MultiplyMonotone, SMT
        <4> QED BY <2>1, <2>3, <2>4, <3>1, <4>1, SMT
      <3> QED BY <2>3, <3>2, SMT
    <2>6. f[k] \in Nat /\ Near(f[k], unit, k * d, l)
      BY <2>5 DEF FloatQuotients
    <2>7. e * unit < f[k] /\ f[k] < (e + 1) * unit
      <3>1. e \in Nat /\ e + 1 \in Nat
        BY <2>1, SMT
      <3>2. e * l < k * d => e * unit < f[k]
        BY <2>3, <2>6, <3>1, NearSide
      <3>3. k * d < (e + 1) * l => f[k] < (e + 1) * unit
        BY <2>3, <2>6, <3>1, NearSide
      <3> QED BY <2>4, <3>2, <3>3
    <2>8. f[k] \div unit \in Int /\ e + 1 \in Int /\ e \in Int /\ e * unit \in Nat /\ (e + 1) * unit \in Nat
      BY <2>1, <2>6, MultiplyNat, SMT
    <2>9. e <= f[k] \div unit /\ ~(e + 1 <= f[k] \div unit)
      <3>1. e <= f[k] \div unit <=> e * unit <= f[k]
        BY <2>6, <2>8, DivFloor
      <3>2. e + 1 <= f[k] \div unit <=> (e + 1) * unit <= f[k]
        BY <2>6, <2>8, DivFloor
      <3> QED BY <2>6, <2>7, <2>8, <3>1, <3>2, SMT
    <2>10. f[k] \div unit = e
      BY <2>8, <2>9, SMT
    <2> QED BY <2>5, <2>10 DEF DeviceAt
  <1> QED BY <1>1, <1>2, SMT

\* LDeviceGridRaveled.device finds a device for every cell of a grid that has
\* no more rows than columns; the row length it uses is the number of rows,
\* so that with more rows the last ones would be beyond all devices.
THEOREM RaveledDeviceExists ==
    ASSUME NEW nx \in Nat \ {0}, NEW ny \in Nat \ {0}, nx <= ny, NEW d \in Nat \ {0},
           NEW i \in 0 .. nx - 1, NEW j \in 0 .. ny - 1,
           NEW unit \in Nat \ {0}, NEW q \in Nat, Near(q, unit, RavelIndex(i, j, nx) * d, nx * ny)
    PROVE  DeviceAt(q, unit) \in 0 .. d - 1
  <1> DEFINE x == RavelIndex(i, j, nx)
  <1>1. i * nx \in Nat /\ nx * ny \in Nat \ {0} /\ nx \in Int /\ ny \in Int /\ i \in Nat /\ i + 1 <= nx
    BY MultiplyNat, SMT
  <1>2. nx * i <= ny * i /\ nx * i = i * nx /\ ny * i \in Nat
    BY <1>1, MultiplyMonotone, MultiplyNat, SMT
  <1>3. (i + 1) * ny <= nx * ny /\ (i + 1) * ny = ny * i + ny
    BY <1>1, MultiplyMonotone, SMT
  <1>4. x \in 0 .. nx * ny - 1
    BY <1>1, <1>2, <1>3, SMT DEF RavelIndex
  <1> HIDE DEF x
  <1> QED BY <1>1, <1>4, DeviceExists DEF x
============================================================================
