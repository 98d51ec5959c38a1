--------------------------- MODULE Protocol_proofs ---------------------------
(***************************************************************************)
(* Lemmas about the operators of Protocol, and what its steps keep of an   *)
(* array that is accessed as a whole: the valid copies have the latest     *)
(* version and the latest content, and a modified one is alone             *)
(* (WholeCopies).                                                          *)
(***************************************************************************)
EXTENDS Protocol, FiniteSetTheorems, SequenceTheorems, WellFoundedInduction, TLAPS

(***************************************************************************)
(* Recursion over sequences.                                               *)
(***************************************************************************)

\* Induction with a set for the predicate, which the provers can instantiate.
LEMMA SetInduction ==
    ASSUME NEW T, 0 \in T, \A n \in Nat : n \in T => n + 1 \in T
    PROVE  Nat \subseteq T
  <1> DEFINE R == {p \in Nat \X Nat : p[1] < p[2]}
  <1>1. SUFFICES ASSUME Nat \ T # {} PROVE FALSE
    OBVIOUS
  <1>2. IsWellFoundedOn(R, Nat)
    BY NatLessThanWellFounded, Zenon DEF OpToRel
  <1>3. Nat \ T \subseteq Nat
    OBVIOUS
  <1> HIDE DEF R
  <1>4. PICK m \in Nat \ T : \A k \in Nat \ T : ~ (<<k, m>> \in R)
    BY <1>1, <1>2, <1>3, WFMin
  <1>5. m # 0 /\ m - 1 \in Nat
    BY <1>4
  <1>6. m - 1 \in T
    <2>1. <<m - 1, m>> \in R
      BY <1>5 DEF R
    <2> QED
      BY <1>4, <1>5, <2>1
  <1> QED
    BY <1>4, <1>5, <1>6

\* The loop over the operations of a list is well defined.
LEMMA PerformRuns ==
    ASSUME NEW b, NEW ops, Len(ops) \in Nat
    PROVE  \E r : /\ r = [n \in 0 .. Len(ops) |->
                            IF n = 0 THEN [buf |-> b, raised |-> FALSE]
                            ELSE Apply(r[n - 1], ops[n])]
                  /\ Perform(b, ops) = r[Len(ops)]
  <1> DEFINE start == [buf |-> b, raised |-> FALSE]
             Runs(r, m) == r = [n \in 0 .. m |-> IF n = 0 THEN start ELSE Apply(r[n - 1], ops[n])]
             T == {m \in Nat : \E r : Runs(r, m)}
  <1> HIDE DEF start
  <1>1. 0 \in T
    <2> DEFINE r == [n \in 0 .. 0 |-> start]
    <2>1. Runs(r, 0)
      OBVIOUS
    <2> QED
      BY <2>1
  <1>2. ASSUME NEW m \in Nat, m \in T PROVE m + 1 \in T
    <2>1. PICK r : Runs(r, m)
      BY <1>2
    <2> DEFINE q == [n \in 0 .. m + 1 |-> IF n = m + 1 THEN Apply(r[m], ops[m + 1]) ELSE r[n]]
    <2>2. \A n \in 0 .. m : q[n] = r[n]
      OBVIOUS
    <2>3. \A n \in 0 .. m : r[n] = IF n = 0 THEN start ELSE Apply(r[n - 1], ops[n])
      BY <2>1
    <2>4. q[m + 1] = Apply(r[m], ops[m + 1])
      OBVIOUS
    <2>5. q = [n \in 0 .. m + 1 |-> q[n]]
      OBVIOUS
    <2> HIDE DEF q
    <2>6. ASSUME NEW n \in 0 .. m + 1
          PROVE  q[n] = IF n = 0 THEN start ELSE Apply(q[n - 1], ops[n])
      <3>1. CASE n = m + 1
        <4>1. n # 0 /\ n - 1 = m /\ m \in 0 .. m
          BY <3>1
        <4> QED
          BY <2>2, <2>4, <3>1, <4>1
      <3>2. CASE n = 0
        BY <2>2, <2>3, <3>2
      <3>3. CASE n # 0 /\ n # m + 1
        <4>1. n \in 0 .. m /\ n - 1 \in 0 .. m
          BY <3>3
        <4> QED
          BY <2>2, <2>3, <3>3, <4>1
      <3> QED
        BY <3>1, <3>2, <3>3
    <2>7. Runs(q, m + 1)
      BY <2>5, <2>6
    <2> HIDE DEF Runs
    <2> QED
      BY <2>7
  <1> HIDE DEF T
  <1>3. Len(ops) \in T
    BY <1>1, <1>2, SetInduction
  <1> DEFINE f == CHOOSE r : Runs(r, Len(ops))
  <1>4. Runs(f, Len(ops))
    BY <1>3 DEF T
  <1>5. Perform(b, ops) = f[Len(ops)]
    BY DEF Perform, start
  <1> QED
    BY <1>4, <1>5 DEF start

\* An invariant of that loop: G[n] holds what may be after n operations.
LEMMA PerformKeeps ==
    ASSUME NEW b, NEW ops, Len(ops) \in Nat,
           NEW G, [buf |-> b, raised |-> FALSE] \in G[0],
           \A n \in 1 .. Len(ops) : \A r \in G[n - 1] : Apply(r, ops[n]) \in G[n]
    PROVE  Perform(b, ops) \in G[Len(ops)]
  <1> DEFINE start == [buf |-> b, raised |-> FALSE]
  <1>1. PICK r : /\ r = [n \in 0 .. Len(ops) |-> IF n = 0 THEN start ELSE Apply(r[n - 1], ops[n])]
                 /\ Perform(b, ops) = r[Len(ops)]
    BY PerformRuns
  <1> DEFINE T == {n \in Nat : n <= Len(ops) => r[n] \in G[n]}
  <1> HIDE DEF start
  <1>2. \A n \in 0 .. Len(ops) : r[n] = IF n = 0 THEN start ELSE Apply(r[n - 1], ops[n])
    BY <1>1
  <1>3. 0 \in T
    <2>1. r[0] = start
      BY <1>2
    <2> QED
      BY <2>1 DEF start
  <1>4. ASSUME NEW n \in Nat, n \in T PROVE n + 1 \in T
    BY <1>2, <1>4
  <1> HIDE DEF T
  <1>5. Len(ops) \in T
    BY <1>3, <1>4, SetInduction
  <1> QED
    BY <1>1, <1>5 DEF T

(***************************************************************************)
(* The order of the devices.                                               *)
(***************************************************************************)

\* DevSeq lists every device.
LEMMA DevSeqLists ==
    /\ DevSeq \in Seq(Dev)
    /\ Len(DevSeq) = Cardinality(Dev) /\ Cardinality(Dev) \in Nat
    /\ \A d \in Dev : \E i \in 1 .. Len(DevSeq) : DevSeq[i] = d
  <1> USE ProtocolAssumption
  <1> DEFINE N == Cardinality(Dev)
             G == Cardinality(GPU)
  <1>1. G \in Nat
    BY FS_CardinalityType
  <1>2. CPU \notin GPU
    BY <1>1 DEF CPU
  <1>3. N = G + 1
    BY <1>2, FS_AddElement DEF Dev
  <1> HIDE DEF N, G
  <1>4. DevSeq = [i \in 1 .. N |-> IF i = N THEN CPU ELSE i - 1]
    BY DEF DevSeq, N
  <1>5. Dev = (0 .. G - 1) \cup {CPU}
    BY DEF Dev, G
  <1>6. DevSeq \in Seq(Dev) /\ Len(DevSeq) = N
    BY <1>1, <1>3, <1>4, <1>5
  <1>7. ASSUME NEW d \in Dev PROVE \E i \in 1 .. N : DevSeq[i] = d
    <2>1. CASE d = CPU
      <3>1. N \in 1 .. N
        BY <1>1, <1>3
      <3> QED
        BY <1>4, <2>1, <3>1
    <2>2. CASE d \in 0 .. G - 1
      <3>1. d + 1 \in 1 .. N /\ d + 1 # N
        BY <1>1, <1>3, <2>2
      <3> QED
        BY <1>4, <2>2, <3>1
    <2> QED
      BY <1>5, <2>1, <2>2
  <1> QED
    BY <1>1, <1>3, <1>6, <1>7 DEF N

\* The walk over the devices is well defined.
LEMMA InOrderRuns ==
    ASSUME NEW S
    PROVE  \E q : /\ q = [n \in 0 .. Len(DevSeq) |->
                            IF n = 0 THEN <<>>
                            ELSE IF DevSeq[n] \in S THEN Append(q[n - 1], DevSeq[n])
                            ELSE q[n - 1]]
                  /\ InOrder(S) = q[Len(DevSeq)]
  <1> DEFINE Step(s, n) == IF DevSeq[n] \in S THEN Append(s, DevSeq[n]) ELSE s
             Runs(q, m) == q = [n \in 0 .. m |-> IF n = 0 THEN <<>> ELSE Step(q[n - 1], n)]
             T == {m \in Nat : \E q : Runs(q, m)}
  <1>1. 0 \in T
    <2> DEFINE q == [n \in 0 .. 0 |-> <<>>]
    <2>1. Runs(q, 0)
      OBVIOUS
    <2> QED
      BY <2>1
  <1> HIDE DEF Step
  <1>2. ASSUME NEW m \in Nat, m \in T PROVE m + 1 \in T
    <2>1. PICK r : Runs(r, m)
      BY <1>2
    <2> DEFINE q == [n \in 0 .. m + 1 |-> IF n = m + 1 THEN Step(r[m], m + 1) ELSE r[n]]
    <2>2. \A n \in 0 .. m : q[n] = r[n]
      OBVIOUS
    <2>3. \A n \in 0 .. m : r[n] = IF n = 0 THEN <<>> ELSE Step(r[n - 1], n)
      BY <2>1
    <2>4. q[m + 1] = Step(r[m], m + 1)
      OBVIOUS
    <2>5. q = [n \in 0 .. m + 1 |-> q[n]]
      OBVIOUS
    <2> HIDE DEF q
    <2>6. ASSUME NEW n \in 0 .. m + 1
          PROVE  q[n] = IF n = 0 THEN <<>> ELSE Step(q[n - 1], n)
      <3>1. CASE n = m + 1
        <4>1. n # 0 /\ n - 1 = m /\ m \in 0 .. m
          BY <3>1
        <4> QED
          BY <2>2, <2>4, <3>1, <4>1
      <3>2. CASE n = 0
        BY <2>2, <2>3, <3>2
      <3>3. CASE n # 0 /\ n # m + 1
        <4>1. n \in 0 .. m /\ n - 1 \in 0 .. m
          BY <3>3
        <4> QED
          BY <2>2, <2>3, <3>3, <4>1
      <3> QED
        BY <3>1, <3>2, <3>3
    <2>7. Runs(q, m + 1)
      BY <2>5, <2>6
    <2> HIDE DEF Runs
    <2> QED
      BY <2>7
  <1> HIDE DEF T
  <1>3. Len(DevSeq) \in T
    BY <1>1, <1>2, SetInduction, DevSeqLists
  <1> DEFINE f == CHOOSE q : Runs(q, Len(DevSeq))
  <1>4. Runs(f, Len(DevSeq))
    BY <1>3 DEF T
  <1>5. InOrder(S) = f[Len(DevSeq)]
    BY DEF InOrder, Step
  <1> QED
    BY <1>4, <1>5 DEF Step

\* InOrder lists members of S only, and at least one when there is a device in S.
LEMMA InOrderLists ==
    ASSUME NEW S \in SUBSET Dev
    PROVE  InOrder(S) \in Seq(S) /\ (S # {} => InOrder(S) # <<>>)
  <1>1. PICK q : /\ q = [n \in 0 .. Len(DevSeq) |->
                           IF n = 0 THEN <<>>
                           ELSE IF DevSeq[n] \in S THEN Append(q[n - 1], DevSeq[n])
                           ELSE q[n - 1]]
                 /\ InOrder(S) = q[Len(DevSeq)]
    BY InOrderRuns
  <1> DEFINE N == Len(DevSeq)
             Good(n) == /\ q[n] \in Seq(S)
                        /\ (\E i \in 1 .. n : DevSeq[i] \in S) => q[n] # <<>>
             T == {n \in Nat : n <= N => Good(n)}
  <1>2. N \in Nat
    BY DevSeqLists
  <1> HIDE DEF N
  <1>3. \A n \in 0 .. N : q[n] = IF n = 0 THEN <<>>
                                 ELSE IF DevSeq[n] \in S THEN Append(q[n - 1], DevSeq[n])
                                 ELSE q[n - 1]
    BY <1>1 DEF N
  <1>4. 0 \in T
    <2>1. q[0] = <<>> /\ <<>> \in Seq(S)
      BY <1>2, <1>3
    <2>2. ~ \E i \in 1 .. 0 : DevSeq[i] \in S
      OBVIOUS
    <2> QED
      BY <2>1, <2>2
  <1>5. ASSUME NEW n \in Nat, n \in T PROVE n + 1 \in T
    <2>1. SUFFICES ASSUME n + 1 <= N PROVE Good(n + 1)
      OBVIOUS
    <2>2. n <= N /\ n + 1 \in 0 .. N /\ n + 1 # 0 /\ (n + 1) - 1 = n
      BY <1>2, <2>1
    <2>3. Good(n)
      BY <1>5, <2>2
    <2>4. q[n + 1] = IF DevSeq[n + 1] \in S THEN Append(q[n], DevSeq[n + 1]) ELSE q[n]
      BY <1>3, <2>2
    <2>5. CASE DevSeq[n + 1] \in S
      <3>1. q[n + 1] = Append(q[n], DevSeq[n + 1]) /\ q[n] \in Seq(S)
        BY <2>3, <2>4, <2>5
      <3>2. q[n + 1] \in Seq(S) /\ Len(q[n + 1]) = Len(q[n]) + 1 /\ Len(q[n]) \in Nat
        BY <2>5, <3>1
      <3> QED
        BY <3>2
    <2>6. CASE DevSeq[n + 1] \notin S
      <3>1. q[n + 1] = q[n]
        BY <2>4, <2>6
      <3>2. \A i \in 1 .. n + 1 : DevSeq[i] \in S => i \in 1 .. n
        BY <2>6
      <3> QED
        BY <2>3, <3>1, <3>2
    <2> QED
      BY <2>5, <2>6
  <1>6. N \in T
    <2> HIDE DEF T
    <2> QED
      BY <1>2, <1>4, <1>5, SetInduction
  <1>7. Good(N)
    BY <1>2, <1>6
  <1>8. ASSUME S # {} PROVE \E i \in 1 .. N : DevSeq[i] \in S
    BY <1>8, DevSeqLists DEF N
  <1> QED
    BY <1>1, <1>7, <1>8 DEF N

\* The walk over no device is empty, and the last device of a walk over S is
\* in S.
LEMMA InOrderLast ==
    /\ InOrder({}) = <<>>
    /\ \A S \in SUBSET Dev : S # {} => Last(InOrder(S)) \in S
  <1>1. InOrder({}) = <<>>
    <2>1. InOrder({}) \in Seq({})
      BY InOrderLists
    <2> QED
      BY <2>1
  <1>2. ASSUME NEW S \in SUBSET Dev, S # {} PROVE Last(InOrder(S)) \in S
    <2>1. InOrder(S) \in Seq(S) /\ InOrder(S) # <<>>
      BY <1>2, InOrderLists
    <2>2. Len(InOrder(S)) \in 1 .. Len(InOrder(S))
      BY <2>1
    <2> QED
      BY <2>1, <2>2 DEF Last
  <1> QED
    BY <1>1, <1>2

(***************************************************************************)
(* Arrays that are accessed as a whole.                                    *)
(***************************************************************************)

NoParts(c) == c \in Protocols /\ \A d \in Dev : c.kind[d] # "part"
WholeBuffers == {b \in Buffers : \A d \in Dev : b.kind[d] # "part"}

\* the devices whose copy is valid
Valid(c) == {d \in Dev : c.state[d] # "I"}

\* f is the content of every valid copy; the owner's is one of them
WholeCopies(c, b, f) ==
    /\ NoParts(c)
    /\ b \in WholeBuffers
    /\ c.owner \in Valid(c)
    /\ \A d \in Valid(c) : /\ c.version[d] = c.last
                           /\ b.kind[d] = "whole" /\ b.data[d] = f
                           /\ c.state[d] = "M" => Valid(c) = {d}
    /\ \A d \in Dev \ Valid(c) : c.version[d] = -1

\* The latest complete copy has the highest version.
LEMMA LatestIsNewest ==
    ASSUME NEW c, NoParts(c), NEW o \in Dev, \A d \in Dev : c.version[d] <= c.version[o]
    PROVE  Latest(c) \in Dev /\ c.version[Latest(c)] = c.version[o]
  <1> DEFINE S == {d \in Dev : \A i \in Dev : c.version[i] <= c.version[d]}
  <1>1. Partial(c) = {}
    BY DEF NoParts, Partial
  <1>2. Latest(c) = Last(InOrder(S))
    BY <1>1 DEF Latest
  <1>3. o \in S
    OBVIOUS
  <1>4. Latest(c) \in S
    BY <1>2, <1>3, InOrderLast
  <1>5. \A d \in Dev : c.version[d] \in Int
    BY DEF NoParts, Protocols
  <1>6. Latest(c) \in Dev /\ c.version[o] <= c.version[Latest(c)]
    BY <1>4
  <1> QED
    BY <1>5, <1>6

\* The operations of a write back, for a device without a valid copy and for
\* one with the latest.
LEMMA WhatIsWrittenBack ==
    ASSUME NEW c, NoParts(c), NEW d \in Dev,
           NEW o \in Dev, \A i \in Dev : c.version[i] <= c.version[o]
    PROVE  WrittenBack(c, d) = IF c.version[d] < c.version[o] THEN <<Latest(c)>> ELSE <<>>
  <1>1. Partial(c) = {}
    BY DEF NoParts, Partial
  <1>2. c.version[Latest(c)] = c.version[o]
    BY LatestIsNewest
  <1>3. <<Latest(c)>> \o <<>> = <<Latest(c)>> /\ <<>> \o <<>> = <<>>
    OBVIOUS
  <1>4. InOrder(Partial(c)) = <<>>
    BY <1>1, InOrderLast
  <1> QED
    BY <1>2, <1>3, <1>4 DEF WrittenBack

\* What one operation does to buffers without subarrays.
Results == [buf : WholeBuffers, raised : {FALSE}]

LEMMA ApplyEvict ==
    ASSUME NEW r \in Results, NEW x \in Dev
    PROVE  LET q == Apply(r, Evict(x))
           IN  /\ q \in Results
               /\ \A e \in Dev \ {x} : q.buf.kind[e] = r.buf.kind[e] /\ q.buf.data[e] = r.buf.data[e]
  <1> DEFINE q == [buf |-> [kind |-> [r.buf.kind EXCEPT ![x] = "none"],
                            data |-> [r.buf.data EXCEPT ![x] = [s \in Slice |-> NoData]]],
                   raised |-> FALSE]
  <1>1. /\ r.raised = FALSE /\ r.buf \in WholeBuffers /\ r.buf \in Buffers
        /\ r = [buf |-> r.buf, raised |-> FALSE]
        /\ r.buf = [kind |-> r.buf.kind, data |-> r.buf.data]
    BY DEF Results, WholeBuffers, Buffers
  <1>2. Apply(r, Evict(x)) = [r EXCEPT !.buf.kind[x] = "none",
                                       !.buf.data[x] = [s \in Slice |-> NoData]]
    BY <1>1 DEF Apply, Evict
  <1>3. Apply(r, Evict(x)) = q
    BY <1>1, <1>2
  <1>4. q.buf \in WholeBuffers
    BY <1>1 DEF WholeBuffers, Buffers
  <1>5. q \in Results
    BY <1>4 DEF Results
  <1>6. ASSUME NEW e \in Dev \ {x}
        PROVE  q.buf.kind[e] = r.buf.kind[e] /\ q.buf.data[e] = r.buf.data[e]
    BY <1>1 DEF Buffers
  <1> QED
    BY <1>3, <1>5, <1>6

LEMMA ApplyLoad ==
    ASSUME NEW r \in Results, NEW dst \in Dev, NEW src \in Dev, r.buf.kind[src] = "whole"
    PROVE  LET q == Apply(r, Load(dst, src))
           IN  /\ q \in Results
               /\ q.buf.kind[dst] = "whole" /\ q.buf.data[dst] = r.buf.data[src]
               /\ \A e \in Dev \ {dst} : q.buf.kind[e] = r.buf.kind[e] /\ q.buf.data[e] = r.buf.data[e]
  <1> DEFINE q == [buf |-> [kind |-> [r.buf.kind EXCEPT ![dst] = "whole"],
                            data |-> [r.buf.data EXCEPT ![dst] = r.buf.data[src]]],
                   raised |-> FALSE]
  <1>1. /\ r.raised = FALSE /\ r.buf \in WholeBuffers /\ r.buf \in Buffers
        /\ r = [buf |-> r.buf, raised |-> FALSE]
        /\ r.buf = [kind |-> r.buf.kind, data |-> r.buf.data]
        /\ r.buf.kind[dst] # "part"
    BY DEF Results, WholeBuffers, Buffers
  <1>2. Apply(r, Load(dst, src)) = [r EXCEPT !.buf.kind[dst] = "whole",
                                             !.buf.data[dst] = r.buf.data[src]]
    BY <1>1 DEF Apply, Load
  <1>3. Apply(r, Load(dst, src)) = q
    BY <1>1, <1>2
  <1>4. q.buf \in WholeBuffers
    BY <1>1 DEF WholeBuffers, Buffers
  <1>5. q \in Results
    BY <1>4 DEF Results
  <1>6. q.buf.kind[dst] = "whole" /\ q.buf.data[dst] = r.buf.data[src]
    BY <1>1 DEF Buffers
  <1>7. ASSUME NEW e \in Dev \ {dst}
        PROVE  q.buf.kind[e] = r.buf.kind[e] /\ q.buf.data[e] = r.buf.data[e]
    BY <1>1 DEF Buffers
  <1> QED
    BY <1>3, <1>5, <1>6, <1>7

\* The operations of a write back: k loads of src into dst (k is 0 or 1), then
\* evictions of devices in X.
Asked(ops, dst, src, k, X) ==
    /\ Len(ops) \in Nat
    /\ k = 1 => Len(ops) > 0 /\ ops[1] = Load(dst, src)
    /\ \A n \in 1 .. Len(ops) : ~(k = 1 /\ n = 1) => \E x \in X : ops[n] = Evict(x)

\* What they make of buffers b.
Brought(b, r, dst, src, k, X) ==
    /\ r \in Results
    /\ \A e \in Dev \ X :
          IF k = 1 /\ e = dst THEN r.buf.kind[e] = "whole" /\ r.buf.data[e] = b.data[src]
          ELSE r.buf.kind[e] = b.kind[e] /\ r.buf.data[e] = b.data[e]

LEMMA LoadAndEvict ==
    ASSUME NEW b \in WholeBuffers, NEW dst \in Dev, NEW src \in Dev, NEW k \in {0, 1},
           NEW X \in SUBSET Dev, k = 1 => b.kind[src] = "whole",
           NEW ops, Asked(ops, dst, src, k, X)
    PROVE  Brought(b, Perform(b, ops), dst, src, k, X)
  <1> USE DEF Asked
  <1> DEFINE start == [buf |-> b, raised |-> FALSE]
             Good == {r \in Results : Brought(b, r, dst, src, k, X)}
             G == [n \in Nat |-> IF k = 1 /\ n = 0 THEN {start} ELSE Good]
  <1>1. start \in Results
    BY DEF Results
  <1>2. start \in G[0]
    <2>1. k = 0 => start \in Good
      BY <1>1 DEF Brought
    <2> QED
      BY <2>1
  <1>3. ASSUME NEW n \in 1 .. Len(ops), NEW r \in G[n - 1]
        PROVE  Apply(r, ops[n]) \in G[n]
    <2> DEFINE q == Apply(r, ops[n])
    <2>0. n \in Nat /\ n - 1 \in Nat /\ n # 0
      OBVIOUS
    <2> SUFFICES q \in Good
      BY <2>0
    <2>1. CASE k = 1 /\ n = 1
      <3>1. r = start /\ ops[n] = Load(dst, src)
        BY <2>1
      <3>2. start.buf.kind[src] = "whole" /\ start.buf = b
        BY <2>1
      <3>5. q = Apply(start, Load(dst, src))
        BY <3>1
      <3> HIDE DEF start
      <3>6. LET p == Apply(start, Load(dst, src))
            IN  /\ p \in Results
                /\ p.buf.kind[dst] = "whole" /\ p.buf.data[dst] = start.buf.data[src]
                /\ \A e \in Dev \ {dst} : /\ p.buf.kind[e] = start.buf.kind[e]
                                           /\ p.buf.data[e] = start.buf.data[e]
        BY <1>1, <3>2, ApplyLoad
      <3> HIDE DEF q
      <3>3. /\ q \in Results
            /\ q.buf.kind[dst] = "whole" /\ q.buf.data[dst] = b.data[src]
            /\ \A e \in Dev \ {dst} : q.buf.kind[e] = b.kind[e] /\ q.buf.data[e] = b.data[e]
        BY <3>2, <3>5, <3>6
      <3>4. q.buf \in WholeBuffers
        BY <3>3 DEF Results
      <3> QED
        BY <2>1, <3>3, <3>4 DEF Brought
    <2>2. CASE ~(k = 1 /\ n = 1)
      <3>1. PICK x \in X : ops[n] = Evict(x)
        BY <2>2
      <3>2. r \in Good
        BY <2>0, <2>2
      <3>3. r \in Results /\ Brought(b, r, dst, src, k, X)
        BY <3>2
      <3>4. /\ q \in Results
            /\ \A e \in Dev \ {x} : q.buf.kind[e] = r.buf.kind[e] /\ q.buf.data[e] = r.buf.data[e]
        BY <3>1, <3>3, ApplyEvict
      <3>5. q.buf \in WholeBuffers
        BY <3>4 DEF Results
      <3> HIDE DEF q
      <3>6. ASSUME NEW e \in Dev \ X
            PROVE  IF k = 1 /\ e = dst THEN q.buf.kind[e] = "whole" /\ q.buf.data[e] = b.data[src]
                   ELSE q.buf.kind[e] = b.kind[e] /\ q.buf.data[e] = b.data[e]
        BY <3>3, <3>4 DEF Brought
      <3> QED
        BY <3>4, <3>5, <3>6 DEF Brought
    <2> QED
      BY <2>1, <2>2
  <1> HIDE DEF G
  <1>4. Perform(b, ops) \in G[Len(ops)]
    BY <1>2, <1>3, PerformKeeps
  <1>5. Perform(b, ops) \in Good
    BY <1>4 DEF G
  <1> QED
    BY <1>5

\* The operations that a write back and an eviction ask for are of that form.
LEMMA LoadThenEvicts ==
    ASSUME NEW dst, NEW srcs, NEW src, NEW k \in {0, 1}, NEW X \in SUBSET Dev,
           srcs = IF k = 1 THEN <<src>> ELSE <<>>,
           NEW ops, ops = [i \in DOMAIN srcs |-> Load(dst, srcs[i])]
                          \o [i \in DOMAIN InOrder(X) |-> Evict(InOrder(X)[i])]
    PROVE  Asked(ops, dst, src, k, X)
  <1> DEFINE loads == [i \in DOMAIN srcs |-> Load(dst, srcs[i])]
             evicts == [i \in DOMAIN InOrder(X) |-> Evict(InOrder(X)[i])]
             L == k
             N == Len(InOrder(X))
  <1>2. InOrder(X) \in Seq(X) /\ N \in Nat
    BY InOrderLists
  <1>3. loads = [i \in 1 .. L |-> Load(dst, src)]
    <2>1. CASE k = 1
      <3>1. srcs = <<src>> /\ DOMAIN srcs = 1 .. L /\ \A i \in DOMAIN srcs : srcs[i] = src
        BY <2>1
      <3> QED
        BY <3>1
    <2>2. CASE k = 0
      <3>1. DOMAIN srcs = 1 .. L /\ 1 .. L = {}
        BY <2>2
      <3> QED
        BY <3>1
    <2> QED
      BY <2>1, <2>2
  <1>4. evicts = [i \in 1 .. N |-> Evict(InOrder(X)[i])]
    BY <1>2
  <1>5. \A i \in 1 .. N : InOrder(X)[i] \in X
    BY <1>2
  <1> DEFINE Z == {Load(dst, src)} \cup {Evict(x) : x \in X}
  <1>6. /\ loads \in Seq(Z) /\ Len(loads) = L
        /\ evicts \in Seq(Z) /\ Len(evicts) = N
    <2> HIDE DEF loads, evicts, N
    <2>1. \A i \in 1 .. N : Evict(InOrder(X)[i]) \in Z
      BY <1>5
    <2>2. Load(dst, src) \in Z /\ L \in Nat
      OBVIOUS
    <2> HIDE DEF Z
    <2> QED
      BY <1>2, <1>3, <1>4, <2>1, <2>2
  <1>0. ops = loads \o evicts
    OBVIOUS
  <1> HIDE DEF loads, evicts, N, Z
  <1>7. /\ Len(ops) = L + N
        /\ \A n \in 1 .. L + N : ops[n] = IF n <= L THEN loads[n] ELSE evicts[n - L]
    <2>1. L \in Nat
      OBVIOUS
    <2>2. /\ Len(loads \o evicts) = Len(loads) + Len(evicts)
          /\ \A n \in 1 .. Len(loads) + Len(evicts) :
                (loads \o evicts)[n] = IF n <= Len(loads) THEN loads[n] ELSE evicts[n - Len(loads)]
      BY <1>6, ConcatProperties
    <2> HIDE DEF L
    <2> QED
      BY <1>0, <1>6, <2>1, <2>2
  <1>8. k = 1 => ops[1] = Load(dst, src)
    BY <1>2, <1>3, <1>7
  <1>9. ASSUME NEW n \in 1 .. L + N, ~(k = 1 /\ n = 1) PROVE \E x \in X : ops[n] = Evict(x)
    <2>1. n - L \in 1 .. N /\ ~(n <= L)
      BY <1>2, <1>9
    <2>2. ops[n] = Evict(InOrder(X)[n - L])
      BY <1>4, <1>7, <2>1
    <2> QED
      BY <1>5, <2>1, <2>2
  <1>10. Len(ops) \in Nat /\ (k = 1 => Len(ops) > 0)
    BY <1>2, <1>7 DEF N
  <1> QED
    BY <1>7, <1>8, <1>9, <1>10 DEF Asked

\* the devices that a write back to d for a write makes invalid
Ousted(c, d, new) == {e \in Dev : new = "M" /\ e # d /\ c.state[e] # "I"}

\* Coherence._write_back_to without subarrays, X being those devices: what
\* becomes of the protocol.
WrittenTo(w, c, d, X) ==
    /\ w.raised = FALSE
    /\ NoParts(w.c)
    /\ w.c.owner = c.owner /\ w.c.last = c.last
    /\ \A e \in Dev :
          /\ w.c.state[e] = IF e \in X THEN "I"
                            ELSE IF e # d /\ c.state[e] = "M" THEN "S"
                            ELSE c.state[e]
          /\ w.c.kind[e] = IF e \in X THEN "none" ELSE c.kind[e]
          /\ w.c.version[e] = IF e = d THEN c.last ELSE IF e \in X THEN -1 ELSE c.version[e]

LEMMA WriteBackWhole ==
    ASSUME NEW c, NoParts(c), NEW d \in Dev, NEW new \in {"S", "M"}
    PROVE  WrittenTo(WriteBack(c, d, new), c, d, Ousted(c, d, new))
  <1> DEFINE X == Ousted(c, d, new)
             q == [state |-> [e \in Dev |-> IF e \in X THEN "I"
                                            ELSE IF e # d /\ c.state[e] = "M" THEN "S"
                                            ELSE c.state[e]],
                   kind |-> [e \in Dev |-> IF e \in X THEN "none" ELSE c.kind[e]],
                   sub |-> [e \in Dev |-> IF e \in X THEN NoSub
                              ELSE [s \in Slice |-> IF c.sub[e][s] = "none" THEN "none" ELSE "S"]],
                   version |-> [e \in Dev |-> IF e = d THEN c.last
                                              ELSE IF e \in X THEN -1 ELSE c.version[e]],
                   owner |-> c.owner, last |-> c.last]
  <1>1. /\ c = [state |-> c.state, kind |-> c.kind, sub |-> c.sub, version |-> c.version,
                owner |-> c.owner, last |-> c.last]
        /\ c.state \in [Dev -> {"I", "S", "M"}] /\ c.kind \in [Dev -> {"none", "whole", "part"}]
        /\ c.sub \in [Dev -> [Slice -> {"none", "S", "M"}]] /\ c.version \in [Dev -> Int]
        /\ c.owner \in Dev /\ c.last \in Nat
        /\ \A e \in Dev : c.kind[e] # "part"
    BY DEF NoParts, Protocols
  <1>2. Invalidated(c, d, new) = X
    BY <1>1 DEF Invalidated, Ousted
  <1> HIDE DEF X
  <1>3. WriteBack(c, d, new).c = q
    BY <1>1, <1>2 DEF WriteBack
  <1>4. WriteBack(c, d, new).raised = FALSE
    BY <1>1 DEF WriteBack
  <1>5. q \in Protocols
    <2>1. NoSub \in [Slice -> {"none", "S", "M"}]
      BY DEF NoSub
    <2>2. q.sub \in [Dev -> [Slice -> {"none", "S", "M"}]]
      BY <2>1
    <2>3. /\ q.state \in [Dev -> {"I", "S", "M"}] /\ q.kind \in [Dev -> {"none", "whole", "part"}]
          /\ q.version \in [Dev -> Int]
      BY <1>1
    <2> QED
      BY <1>1, <2>2, <2>3 DEF Protocols
  <1>6. NoParts(q)
    BY <1>1, <1>5 DEF NoParts
  <1> QED
    BY <1>3, <1>4, <1>6 DEF X, WrittenTo

\* ... and of the buffers.
LEMMA WriteBackBrings ==
    ASSUME NEW c, NoParts(c), NEW d \in Dev, NEW new \in {"S", "M"}, NEW b \in WholeBuffers,
           NEW o \in Dev, \A i \in Dev : c.version[i] <= c.version[o],
           NEW k \in {0, 1}, k = 1 <=> c.version[d] < c.version[o],
           k = 1 => b.kind[Latest(c)] = "whole"
    PROVE  Brought(b, Perform(b, WriteBack(c, d, new).ops), d, Latest(c), k, Ousted(c, d, new))
  <1> DEFINE X == Ousted(c, d, new)
             srcs == IF k = 1 THEN <<Latest(c)>> ELSE <<>>
             ops == [i \in DOMAIN srcs |-> Load(d, srcs[i])]
                      \o [i \in DOMAIN InOrder(X) |-> Evict(InOrder(X)[i])]
  <1>1. Latest(c) \in Dev
    BY LatestIsNewest
  <1>2. Invalidated(c, d, new) = X /\ X \in SUBSET Dev
    BY DEF Invalidated, Ousted, NoParts
  <1>3. WrittenBack(c, d) = srcs
    BY WhatIsWrittenBack
  <1> HIDE DEF X
  <1>4. WriteBack(c, d, new).ops = ops
    BY <1>2, <1>3 DEF WriteBack, Map
  <1>5. /\ srcs = IF k = 1 THEN <<Latest(c)>> ELSE <<>>
        /\ ops = [i \in DOMAIN srcs |-> Load(d, srcs[i])]
                   \o [i \in DOMAIN InOrder(X) |-> Evict(InOrder(X)[i])]
    OBVIOUS
  <1> HIDE DEF srcs, ops
  <1>6. Asked(ops, d, Latest(c), k, X)
    BY <1>2, <1>5, LoadThenEvicts
  <1>7. Brought(b, Perform(b, ops), d, Latest(c), k, X)
    BY <1>1, <1>2, <1>6, LoadAndEvict
  <1> QED
    BY <1>4, <1>7 DEF X

\* Nothing asked for, nothing changed.
LEMMA NothingAsked ==
    ASSUME NEW b \in WholeBuffers, NEW dst \in Dev
    PROVE  Brought(b, Perform(b, <<>>), dst, dst, 0, {})
  <1>1. Asked(<<>>, dst, dst, 0, {})
    BY DEF Asked
  <1> QED
    BY <1>1, LoadAndEvict

\* The owner has the highest version, and the latest complete copy is valid.
LEMMA OwnerIsNewest ==
    ASSUME NEW c, NEW b, NEW f, WholeCopies(c, b, f)
    PROVE  /\ c.owner \in Dev /\ \A i \in Dev : c.version[i] <= c.version[c.owner]
           /\ c.last \in Nat /\ \A i \in Dev : c.version[i] = IF i \in Valid(c) THEN c.last ELSE -1
           /\ Latest(c) \in Valid(c)
           /\ b.kind[Latest(c)] = "whole" /\ b.data[Latest(c)] = f
  <1>1. NoParts(c) /\ c.owner \in Dev /\ c.owner \in Valid(c) /\ c.last \in Nat
    BY DEF WholeCopies, NoParts, Protocols
  <1>2. \A i \in Dev : c.version[i] = IF i \in Valid(c) THEN c.last ELSE -1
    BY DEF WholeCopies
  <1>3. \A i \in Dev : c.version[i] <= c.version[c.owner]
    BY <1>1, <1>2
  <1>4. Latest(c) \in Dev /\ c.version[Latest(c)] = c.version[c.owner]
    BY <1>1, <1>3, LatestIsNewest
  <1>5. Latest(c) \in Valid(c)
    BY <1>1, <1>2, <1>4
  <1> QED
    BY <1>1, <1>2, <1>3, <1>5 DEF WholeCopies

\* An access to the complete array enters a complete copy and changes nothing
\* else.
LEMMA EnterWhole ==
    ASSUME NEW c, NEW d \in Dev, NoParts(c)
    PROVE  LET e == Enter(c, d, Slice)
           IN  /\ NoParts(e) /\ e.kind[d] = "whole"
               /\ \A i \in Dev \ {d} : e.kind[i] = c.kind[i]
               /\ e.state = c.state /\ e.version = c.version
               /\ e.owner = c.owner /\ e.last = c.last
               /\ Valid(e) = Valid(c)
               /\ \A b, f : WholeCopies(c, b, f) => WholeCopies(e, b, f)
  <1> DEFINE e == [state |-> c.state, kind |-> [c.kind EXCEPT ![d] = "whole"], sub |-> c.sub,
                   version |-> c.version, owner |-> c.owner, last |-> c.last]
  <1>1. /\ c = [state |-> c.state, kind |-> c.kind, sub |-> c.sub, version |-> c.version,
                owner |-> c.owner, last |-> c.last]
        /\ c.state \in [Dev -> {"I", "S", "M"}] /\ c.kind \in [Dev -> {"none", "whole", "part"}]
        /\ c.sub \in [Dev -> [Slice -> {"none", "S", "M"}]] /\ c.version \in [Dev -> Int]
        /\ c.owner \in Dev /\ c.last \in Nat
        /\ \A i \in Dev : c.kind[i] # "part"
    BY DEF NoParts, Protocols
  <1>2. Enter(c, d, Slice) = e
    BY <1>1 DEF Enter, Whole
  <1>3. e.kind \in [Dev -> {"none", "whole", "part"}]
    BY <1>1
  <1>4. e \in Protocols
    BY <1>1, <1>3 DEF Protocols
  <1>5. /\ e.kind[d] = "whole" /\ \A i \in Dev \ {d} : e.kind[i] = c.kind[i]
        /\ NoParts(e)
    BY <1>1, <1>4 DEF NoParts
  <1>6. /\ e.state = c.state /\ e.version = c.version /\ e.owner = c.owner /\ e.last = c.last
        /\ Valid(e) = Valid(c)
    BY DEF Valid
  <1> HIDE DEF e
  <1>7. ASSUME NEW b, NEW f, WholeCopies(c, b, f) PROVE WholeCopies(e, b, f)
    BY <1>5, <1>6, <1>7 DEF WholeCopies
  <1> QED
    BY <1>2, <1>5, <1>6, <1>7

(***************************************************************************)
(* The steps of the protocol keep WholeCopies.                             *)
(***************************************************************************)

\* Step result r, whose operations are performed on b, neither raises nor
\* breaks WholeCopies.
Keeps(b, f, r) ==
    LET p == Perform(b, r.ops)
    IN  ~r.raised /\ ~p.raised /\ WholeCopies(r.c, p.buf, f)

\* A step that asks for nothing keeps what holds of its protocol.
LEMMA PlainKeeps ==
    ASSUME NEW c, NEW b, NEW f, WholeCopies(c, b, f)
    PROVE  Keeps(b, f, Plain(c, <<>>))
  <1> DEFINE p == Perform(b, <<>>)
  <1>1. b \in WholeBuffers /\ c.owner \in Dev
    BY DEF WholeCopies, NoParts, Protocols
  <1>2. Brought(b, p, c.owner, c.owner, 0, {})
    BY <1>1, NothingAsked
  <1> HIDE DEF p
  <1>3. /\ p.raised = FALSE /\ p.buf \in WholeBuffers
        /\ \A i \in Dev : p.buf.kind[i] = b.kind[i] /\ p.buf.data[i] = b.data[i]
    <2>1. p.raised = FALSE /\ p.buf \in WholeBuffers
      BY <1>2 DEF Brought, Results
    <2>2. ASSUME NEW i \in Dev PROVE p.buf.kind[i] = b.kind[i] /\ p.buf.data[i] = b.data[i]
      <3>1. i \in Dev \ {}
        OBVIOUS
      <3> QED
        BY <1>2, <3>1 DEF Brought
    <2> QED
      BY <2>1, <2>2
  <1>4. WholeCopies(c, p.buf, f)
    BY <1>3 DEF WholeCopies, Valid
  <1> QED
    BY <1>3, <1>4 DEF Keeps, Plain, p

\* Coherence.read of the complete array: its device gets a valid copy, and no
\* valid copy is lost.
LEMMA ReadKeeps ==
    ASSUME NEW c, NEW b, NEW f, WholeCopies(c, b, f), NEW d \in Dev
    PROVE  LET r == Read(c, d, Slice)
           IN  Keeps(b, f, r) /\ Valid(r.c) = Valid(c) \cup {d}
  <1> DEFINE e == Enter(c, d, Slice)
             w == WriteBack(e, d, "S")
  <1>1. NoParts(c) /\ c.kind[d] # "part" /\ LocalState(c, d, Slice) = c.state[d] /\ Whole(Slice)
    BY DEF WholeCopies, NoParts, LocalState, Whole
  <1>2. /\ WholeCopies(e, b, f) /\ NoParts(e) /\ e.kind[d] = "whole"
        /\ e.state = c.state /\ e.owner = c.owner /\ Valid(e) = Valid(c)
    BY <1>1, EnterWhole
  <1>3. CASE d \in Valid(c)
    <2>1. Read(c, d, Slice) = Plain(e, <<>>)
      BY <1>1, <1>3 DEF Read, Valid
    <2>2. Valid(Plain(e, <<>>).c) = Valid(c) \cup {d}
      BY <1>2, <1>3 DEF Plain
    <2> HIDE DEF e
    <2> QED
      BY <1>2, <2>1, <2>2, PlainKeeps
  <1>4. CASE d \notin Valid(c)
    <2>1. c.state[d] = "I" /\ d # c.owner
      BY <1>4 DEF Valid, WholeCopies
    <2> DEFINE n == [w.c EXCEPT !.owner = NewOwner(w.c, d), !.version[d] = w.c.last,
                                !.state[d] = "S"]
    <2>2. Read(c, d, Slice) = [w EXCEPT !.c = n]
      BY <1>1, <1>2, <2>1 DEF Read
    <2>3. w = [c |-> w.c, ops |-> w.ops, raised |-> w.raised]
      BY DEF WriteBack
    <2>4. LET r == Read(c, d, Slice) IN r.c = n /\ r.ops = w.ops /\ r.raised = w.raised
      BY <2>2, <2>3
    <2> HIDE DEF e
    <2>5. Ousted(e, d, "S") = {}
      BY DEF Ousted
    <2>6. /\ ~w.raised /\ NoParts(w.c)
          /\ w.c.owner = e.owner /\ w.c.last = e.last
          /\ \A i \in Dev :
               /\ w.c.state[i] = IF i # d /\ e.state[i] = "M" THEN "S" ELSE e.state[i]
               /\ w.c.kind[i] = e.kind[i]
               /\ w.c.version[i] = IF i = d THEN e.last ELSE e.version[i]
      <3>1. WrittenTo(w, e, d, {})
        BY <1>2, <2>5, WriteBackWhole
      <3> HIDE DEF w
      <3> QED
        BY <3>1 DEF WrittenTo
    <2>7. /\ e.owner \in Dev /\ \A i \in Dev : e.version[i] <= e.version[e.owner]
          /\ e.last \in Nat /\ \A i \in Dev : e.version[i] = IF i \in Valid(e) THEN e.last ELSE -1
          /\ Latest(e) \in Valid(e)
          /\ b.kind[Latest(e)] = "whole" /\ b.data[Latest(e)] = f
      BY <1>2, OwnerIsNewest
    <2>8. e.version[d] < e.version[e.owner]
      <3>1. e.owner \in Valid(e) /\ d \notin Valid(e)
        BY <1>2, <1>4 DEF WholeCopies
      <3> QED
        BY <2>7, <3>1
    <2>9. b \in WholeBuffers
      BY <1>2 DEF WholeCopies
    <2> DEFINE p == Perform(b, w.ops)
    <2>10. Brought(b, p, d, Latest(e), 1, {})
      BY <1>2, <2>5, <2>7, <2>8, <2>9, WriteBackBrings
    <2> HIDE DEF p, w
    <2>11. /\ p.raised = FALSE /\ p.buf \in WholeBuffers
           /\ p.buf.kind[d] = "whole" /\ p.buf.data[d] = f
           /\ \A i \in Dev \ {d} : p.buf.kind[i] = b.kind[i] /\ p.buf.data[i] = b.data[i]
      BY <2>7, <2>10 DEF Brought, Results
    <2>12. /\ w.c \in Protocols
           /\ w.c = [state |-> w.c.state, kind |-> w.c.kind, sub |-> w.c.sub,
                     version |-> w.c.version, owner |-> w.c.owner, last |-> w.c.last]
      BY <2>6 DEF NoParts, Protocols
    <2>13. NewOwner(w.c, d) \in {d, e.owner}
      BY <2>6 DEF NewOwner
    <2> PICK o : o = NewOwner(w.c, d)
      OBVIOUS
    <2> PICK v : v = w.c
      OBVIOUS
    <2>14. n = [state |-> [w.c.state EXCEPT ![d] = "S"], kind |-> w.c.kind, sub |-> w.c.sub,
                version |-> [w.c.version EXCEPT ![d] = w.c.last], owner |-> o, last |-> w.c.last]
      <3>1. n = [v EXCEPT !.owner = o, !.version[d] = v.last, !.state[d] = "S"]
        OBVIOUS
      <3>2. v = [state |-> v.state, kind |-> v.kind, sub |-> v.sub,
                 version |-> v.version, owner |-> v.owner, last |-> v.last]
        BY <2>12
      <3> HIDE DEF n
      <3>3. n = [state |-> [v.state EXCEPT ![d] = "S"], kind |-> v.kind, sub |-> v.sub,
                 version |-> [v.version EXCEPT ![d] = v.last], owner |-> o, last |-> v.last]
        BY <3>1, <3>2
      <3> QED
        BY <3>3
    <2>15. /\ n \in Protocols /\ n.owner \in {d, e.owner} /\ n.last = e.last
           /\ \A i \in Dev : /\ n.kind[i] = e.kind[i]
                             /\ n.state[i] = IF i = d THEN "S"
                                             ELSE IF e.state[i] = "M" THEN "S" ELSE e.state[i]
                             /\ n.version[i] = IF i = d THEN e.last ELSE e.version[i]
      <3>1. n \in Protocols
        <4>1. /\ [w.c.state EXCEPT ![d] = "S"] \in [Dev -> {"I", "S", "M"}]
              /\ [w.c.version EXCEPT ![d] = w.c.last] \in [Dev -> Int]
          BY <2>12 DEF Protocols
        <4> QED
          BY <2>7, <2>12, <2>13, <2>14, <4>1 DEF Protocols
      <3>2. n.owner \in {d, e.owner} /\ n.last = e.last
        BY <2>6, <2>13, <2>14
      <3>3. ASSUME NEW i \in Dev
            PROVE  /\ n.kind[i] = e.kind[i]
                   /\ n.state[i] = IF i = d THEN "S"
                                   ELSE IF e.state[i] = "M" THEN "S" ELSE e.state[i]
                   /\ n.version[i] = IF i = d THEN e.last ELSE e.version[i]
        BY <2>6, <2>12, <2>14 DEF Protocols
      <3> QED
        BY <3>1, <3>2, <3>3
    <2> HIDE DEF n
    <2>16. Valid(n) = Valid(e) \cup {d}
      BY <2>15 DEF Valid
    <2>17. WholeCopies(n, p.buf, f)
      <3>1. NoParts(n)
        BY <1>2, <2>15 DEF NoParts
      <3>2. n.owner \in Valid(n)
        BY <1>2, <2>15, <2>16 DEF WholeCopies
      <3>3. ASSUME NEW i \in Valid(n)
            PROVE  /\ n.version[i] = n.last
                   /\ p.buf.kind[i] = "whole" /\ p.buf.data[i] = f
                   /\ n.state[i] # "M"
        <4>1. i \in Dev
          BY DEF Valid
        <4>2. CASE i = d
          BY <2>11, <2>15, <4>2
        <4>3. CASE i # d
          <5>1. i \in Valid(e)
            BY <2>16, <4>3
          <5> QED
            BY <1>2, <2>11, <2>15, <4>1, <4>3, <5>1 DEF WholeCopies
        <4> QED
          BY <4>2, <4>3
      <3>4. ASSUME NEW i \in Dev \ Valid(n) PROVE n.version[i] = -1
        BY <2>7, <2>15, <2>16
      <3> QED
        BY <2>11, <3>1, <3>2, <3>3, <3>4 DEF WholeCopies
    <2> QED
      BY <1>2, <2>4, <2>6, <2>11, <2>16, <2>17 DEF Keeps, p
  <1> QED
    BY <1>3, <1>4

\* NewVersion and SetLocal change the fields that they name.
LEMMA NewVersionFields ==
    ASSUME NEW v, NoParts(v), NEW d \in Dev
    PROVE  LET n == NewVersion(v, d)
           IN  /\ NoParts(n) /\ n.owner = d /\ n.last = v.last + 1
               /\ n.state = v.state /\ n.kind = v.kind
               /\ \A i \in Dev : n.version[i] = IF i = d THEN v.last + 1 ELSE v.version[i]
  <1> DEFINE n == [state |-> v.state, kind |-> v.kind, sub |-> v.sub,
                   version |-> [v.version EXCEPT ![d] = v.last + 1],
                   owner |-> d, last |-> v.last + 1]
  <1>1. /\ v = [state |-> v.state, kind |-> v.kind, sub |-> v.sub, version |-> v.version,
                owner |-> v.owner, last |-> v.last]
        /\ v.state \in [Dev -> {"I", "S", "M"}] /\ v.kind \in [Dev -> {"none", "whole", "part"}]
        /\ v.sub \in [Dev -> [Slice -> {"none", "S", "M"}]] /\ v.version \in [Dev -> Int]
        /\ v.last \in Nat
        /\ \A i \in Dev : v.kind[i] # "part"
    BY DEF NoParts, Protocols
  <1>2. NewVersion(v, d) = n
    <2> PICK l : l = v.last + 1
      OBVIOUS
    <2> PICK q : q = NewVersion(v, d)
      OBVIOUS
    <2>1. q = [v EXCEPT !.last = l, !.version[d] = l, !.owner = d]
      BY DEF NewVersion
    <2>2. q = [state |-> v.state, kind |-> v.kind, sub |-> v.sub,
               version |-> [v.version EXCEPT ![d] = l], owner |-> d, last |-> l]
      BY <1>1, <2>1
    <2> QED
      BY <2>2
  <1>3. [v.version EXCEPT ![d] = v.last + 1] \in [Dev -> Int]
    BY <1>1
  <1>4. NoParts(n)
    BY <1>1, <1>3 DEF NoParts, Protocols
  <1>5. \A i \in Dev : n.version[i] = IF i = d THEN v.last + 1 ELSE v.version[i]
    BY <1>1
  <1> QED
    BY <1>2, <1>4, <1>5

LEMMA SetLocalFields ==
    ASSUME NEW v, NoParts(v), NEW d \in Dev, v.kind[d] = "whole"
    PROVE  LET n == SetLocal(v, d, Slice, "M")
           IN  /\ NoParts(n) /\ n.owner = v.owner /\ n.last = v.last
               /\ n.version = v.version /\ n.kind = v.kind
               /\ \A i \in Dev : n.state[i] = IF i = d THEN "M" ELSE v.state[i]
  <1> DEFINE n == [state |-> [v.state EXCEPT ![d] = "M"], kind |-> v.kind, sub |-> v.sub,
                   version |-> v.version, owner |-> v.owner, last |-> v.last]
  <1>1. /\ v = [state |-> v.state, kind |-> v.kind, sub |-> v.sub, version |-> v.version,
                owner |-> v.owner, last |-> v.last]
        /\ v.state \in [Dev -> {"I", "S", "M"}] /\ v.kind \in [Dev -> {"none", "whole", "part"}]
        /\ v.sub \in [Dev -> [Slice -> {"none", "S", "M"}]] /\ v.version \in [Dev -> Int]
        /\ v.owner \in Dev /\ v.last \in Nat
        /\ \A i \in Dev : v.kind[i] # "part"
    BY DEF NoParts, Protocols
  <1>2. SetLocal(v, d, Slice, "M") = n
    BY <1>1 DEF SetLocal
  <1>3. [v.state EXCEPT ![d] = "M"] \in [Dev -> {"I", "S", "M"}]
    BY <1>1
  <1>4. NoParts(n)
    BY <1>1, <1>3 DEF NoParts, Protocols
  <1>5. \A i \in Dev : n.state[i] = IF i = d THEN "M" ELSE v.state[i]
    BY <1>1
  <1>6. n.owner = v.owner /\ n.last = v.last /\ n.version = v.version /\ n.kind = v.kind
    OBVIOUS
  <1> HIDE DEF n
  <1> QED
    BY <1>2, <1>4, <1>5, <1>6

\* After a write the copy at d is the only valid one, and it is the owner's.
LEMMA AloneIsWhole ==
    ASSUME NEW n, NEW q, NEW f, NEW d \in Dev, NoParts(n), q \in WholeBuffers,
           n.owner = d, n.version[d] = n.last, n.state[d] = "M",
           \A i \in Dev \ {d} : n.state[i] = "I" /\ n.version[i] = -1,
           q.kind[d] = "whole", q.data[d] = f
    PROVE  WholeCopies(n, q, f) /\ Valid(n) = {d}
  <1>1. Valid(n) = {d}
    BY DEF Valid
  <1> QED
    BY <1>1 DEF WholeCopies

\* A write back to d for a write, then a new version at d, or before it where d
\* already has a valid copy that is not the owner's.
LEMMA WriteBackThenNewVersion ==
    ASSUME NEW e, NEW b, NEW f, WholeCopies(e, b, f), NEW d \in Dev, e.kind[d] = "whole"
    PROVE  LET w == WriteBack(e, d, "M")
               n == SetLocal(NewVersion(w.c, d), d, Slice, "M")
               p == Perform(b, w.ops)
           IN  ~w.raised /\ ~p.raised /\ WholeCopies(n, p.buf, f) /\ Valid(n) = {d}
  <1> DEFINE w == WriteBack(e, d, "M")
             m == NewVersion(w.c, d)
             n == SetLocal(m, d, Slice, "M")
             p == Perform(b, w.ops)
             X == Ousted(e, d, "M")
             k == IF d \in Valid(e) THEN 0 ELSE 1
  <1>1. NoParts(e) /\ b \in WholeBuffers /\ e.owner \in Valid(e)
    BY DEF WholeCopies
  <1>2. /\ e.owner \in Dev /\ \A i \in Dev : e.version[i] <= e.version[e.owner]
        /\ e.last \in Nat /\ \A i \in Dev : e.version[i] = IF i \in Valid(e) THEN e.last ELSE -1
        /\ Latest(e) \in Valid(e)
        /\ b.kind[Latest(e)] = "whole" /\ b.data[Latest(e)] = f
    BY OwnerIsNewest
  <1>3. X = Valid(e) \ {d}
    BY DEF Ousted, Valid
  <1>4. WrittenTo(w, e, d, X)
    BY <1>1, WriteBackWhole
  <1>5. k \in {0, 1} /\ (k = 1 <=> e.version[d] < e.version[e.owner])
    BY <1>1, <1>2
  <1> HIDE DEF X, k
  <1>6. Brought(b, p, d, Latest(e), k, X)
    BY <1>1, <1>2, <1>5, WriteBackBrings DEF X
  <1> HIDE DEF w, p
  <1>7. /\ w.raised = FALSE /\ NoParts(w.c) /\ w.c.kind[d] = "whole" /\ w.c.last = e.last
        /\ \A i \in Dev \ {d} : w.c.state[i] = "I" /\ w.c.version[i] = -1
    <2>1. d \notin X
      BY <1>3
    <2>2. ASSUME NEW i \in Dev \ {d} PROVE w.c.state[i] = "I" /\ w.c.version[i] = -1
      <3>1. i \in X \/ (i \notin Valid(e) /\ e.state[i] = "I")
        BY <1>3 DEF Valid
      <3> QED
        BY <1>2, <1>4, <3>1 DEF WrittenTo
    <2> QED
      BY <1>4, <2>1, <2>2 DEF WrittenTo
  <1>8. /\ NoParts(m) /\ m.owner = d /\ m.last = e.last + 1
        /\ m.state = w.c.state /\ m.kind = w.c.kind
        /\ \A i \in Dev : m.version[i] = IF i = d THEN e.last + 1 ELSE w.c.version[i]
    BY <1>7, NewVersionFields
  <1> HIDE DEF m
  <1>9. /\ NoParts(n) /\ n.owner = m.owner /\ n.last = m.last
        /\ n.version = m.version /\ n.kind = m.kind
        /\ \A i \in Dev : n.state[i] = IF i = d THEN "M" ELSE m.state[i]
    BY <1>7, <1>8, SetLocalFields
  <1> HIDE DEF n
  <1>10. p.raised = FALSE /\ p.buf \in WholeBuffers /\ p.buf.kind[d] = "whole" /\ p.buf.data[d] = f
    <2>1. d \in Dev \ X
      BY <1>3
    <2>2. p.raised = FALSE /\ p.buf \in WholeBuffers
      BY <1>6 DEF Brought, Results
    <2>3. CASE k = 1
      BY <1>2, <1>6, <2>1, <2>2, <2>3 DEF Brought
    <2>4. CASE k = 0
      <3>1. d \in Valid(e)
        BY <2>4 DEF k
      <3>2. b.kind[d] = "whole" /\ b.data[d] = f
        BY <3>1 DEF WholeCopies
      <3> QED
        BY <1>6, <2>1, <2>2, <2>4, <3>2 DEF Brought
    <2> QED
      BY <1>5, <2>3, <2>4
  <1>11. WholeCopies(n, p.buf, f) /\ Valid(n) = {d}
    BY <1>7, <1>8, <1>9, <1>10, AloneIsWhole
  <1> QED
    BY <1>7, <1>10, <1>11 DEF n, m, w, p

\* Coherence.write of the complete array: its device gets the only valid copy.
LEMMA WriteKeeps ==
    ASSUME NEW c, NEW b, NEW f, WholeCopies(c, b, f), NEW d \in Dev
    PROVE  LET r == Write(c, d, Slice)
           IN  Keeps(b, f, r) /\ Valid(r.c) = {d}
  <1> PICK e : e = Enter(c, d, Slice)
    OBVIOUS
  <1>1. /\ NoParts(c) /\ c.kind[d] # "part" /\ Whole(Slice)
        /\ LocalState(c, d, Slice) = c.state[d] /\ c.state[d] \in {"I", "S", "M"}
    BY DEF WholeCopies, NoParts, LocalState, Whole, Protocols
  <1>2. /\ WholeCopies(e, b, f) /\ NoParts(e) /\ e.kind[d] = "whole"
        /\ e.state = c.state /\ e.owner = c.owner /\ Valid(e) = Valid(c)
    BY <1>1, EnterWhole
  <1>3. CASE c.state[d] = "M"
    <2>1. Write(c, d, Slice) = [Plain(e, <<>>) EXCEPT !.c = SetLocal(e, d, Slice, "M")]
      BY <1>1, <1>3 DEF Write, Plain
    <2>2. SetLocal(e, d, Slice, "M") = e
      <3>1. e.state \in [Dev -> {"I", "S", "M"}]
            /\ e = [state |-> e.state, kind |-> e.kind, sub |-> e.sub, version |-> e.version,
                    owner |-> e.owner, last |-> e.last]
        BY <1>2 DEF NoParts, Protocols
      <3>2. [e.state EXCEPT ![d] = "M"] = e.state
        BY <1>2, <1>3, <3>1
      <3> PICK n : n = SetLocal(e, d, Slice, "M")
        OBVIOUS
      <3>3. n = [e EXCEPT !.state[d] = "M"]
        BY <1>2 DEF SetLocal
      <3>4. n = [state |-> [e.state EXCEPT ![d] = "M"], kind |-> e.kind, sub |-> e.sub,
                 version |-> e.version, owner |-> e.owner, last |-> e.last]
        BY <3>1, <3>3
      <3> QED
        BY <3>1, <3>2, <3>4
    <2>3. Write(c, d, Slice) = Plain(e, <<>>)
      BY <2>1, <2>2 DEF Plain
    <2>4. Valid(e) = {d}
      BY <1>2, <1>3 DEF WholeCopies, Valid
    <2>5. Keeps(b, f, Plain(e, <<>>))
      BY <1>2, PlainKeeps
    <2> QED
      BY <2>3, <2>4, <2>5 DEF Plain
  <1>4. CASE c.state[d] # "M" /\ (d = c.owner \/ c.state[d] = "I")
    <2> PICK w : w = WriteBack(e, d, "M")
      OBVIOUS
    <2> PICK n : n = SetLocal(NewVersion(w.c, d), d, Slice, "M")
      OBVIOUS
    <2>1. Write(c, d, Slice) = [[w EXCEPT !.c = NewVersion(w.c, d)]
                                   EXCEPT !.c = SetLocal([w EXCEPT !.c = NewVersion(w.c, d)].c,
                                                         d, Slice, "M")]
      BY <1>1, <1>2, <1>4 DEF Write
    <2>2. w = [c |-> w.c, ops |-> w.ops, raised |-> w.raised]
      BY DEF WriteBack
    <2>3. Write(c, d, Slice) = [c |-> n, ops |-> w.ops, raised |-> w.raised]
      BY <2>1, <2>2
    <2>4. ~w.raised /\ ~Perform(b, w.ops).raised
          /\ WholeCopies(n, Perform(b, w.ops).buf, f) /\ Valid(n) = {d}
      BY <1>2, WriteBackThenNewVersion
    <2> QED
      BY <2>3, <2>4 DEF Keeps
  <1>5. CASE c.state[d] = "S" /\ d # c.owner
    <2> PICK v : v = NewVersion(e, d)
      OBVIOUS
    <2> PICK w : w = WriteBack(v, d, "M")
      OBVIOUS
    <2> PICK n : n = SetLocal(w.c, d, Slice, "M")
      OBVIOUS
    <2> PICK p : p = Perform(b, w.ops)
      OBVIOUS
    <2>1. Write(c, d, Slice) = [w EXCEPT !.c = n]
      BY <1>1, <1>2, <1>5 DEF Write
    <2>2. w = [c |-> w.c, ops |-> w.ops, raised |-> w.raised]
      BY DEF WriteBack
    <2>3. Write(c, d, Slice) = [c |-> n, ops |-> w.ops, raised |-> w.raised]
      BY <2>1, <2>2
    <2>4. /\ e.last \in Nat /\ \A i \in Dev : e.version[i] = IF i \in Valid(e) THEN e.last ELSE -1
          /\ b \in WholeBuffers
          /\ d \in Valid(e) /\ b.kind[d] = "whole" /\ b.data[d] = f
      <3>1. d \in Valid(e)
        BY <1>2, <1>5 DEF Valid
      <3> QED
        BY <1>2, <3>1, OwnerIsNewest DEF WholeCopies
    <2>5. /\ NoParts(v) /\ v.owner = d /\ v.last = e.last + 1
          /\ v.state = e.state /\ v.kind = e.kind
          /\ \A i \in Dev : v.version[i] = IF i = d THEN e.last + 1 ELSE e.version[i]
      BY <1>2, NewVersionFields
    <2>6. \A i \in Dev : v.version[i] <= v.version[d]
      BY <2>4, <2>5
    <2> PICK X : X = Ousted(v, d, "M")
      OBVIOUS
    <2>7. X = Valid(e) \ {d}
      BY <2>5 DEF Ousted, Valid
    <2>8. WrittenTo(w, v, d, X)
      BY <2>5, WriteBackWhole
    <2>9. Brought(b, p, d, Latest(v), 0, X)
      <3>1. ~(v.version[d] < v.version[d])
        BY <2>4, <2>5
      <3> QED
        BY <2>4, <2>5, <2>6, <3>1, WriteBackBrings
    <2>10. /\ w.raised = FALSE /\ NoParts(w.c) /\ w.c.kind[d] = "whole" /\ w.c.owner = d
           /\ w.c.last = v.last /\ w.c.version[d] = v.last
           /\ \A i \in Dev \ {d} : w.c.state[i] = "I" /\ w.c.version[i] = -1
      <3>1. d \notin X
        BY <2>7
      <3>2. ASSUME NEW i \in Dev \ {d} PROVE w.c.state[i] = "I" /\ w.c.version[i] = -1
        <4>1. i \in X \/ (i \notin Valid(e) /\ v.state[i] = "I")
          BY <2>5, <2>7 DEF Valid
        <4> QED
          BY <2>4, <2>5, <2>8, <4>1 DEF WrittenTo
      <3> QED
        BY <1>2, <2>5, <2>8, <3>1, <3>2 DEF WrittenTo
    <2>11. /\ NoParts(n) /\ n.owner = w.c.owner /\ n.last = w.c.last
           /\ n.version = w.c.version /\ n.kind = w.c.kind
           /\ \A i \in Dev : n.state[i] = IF i = d THEN "M" ELSE w.c.state[i]
      BY <2>10, SetLocalFields
    <2>12. p.raised = FALSE /\ p.buf \in WholeBuffers /\ p.buf.kind[d] = "whole" /\ p.buf.data[d] = f
      <3>1. d \in Dev \ X
        BY <2>7
      <3>2. p.raised = FALSE /\ p.buf \in WholeBuffers
        BY <2>9 DEF Brought, Results
      <3> QED
        BY <2>4, <2>9, <3>1, <3>2 DEF Brought
    <2>13. WholeCopies(n, p.buf, f) /\ Valid(n) = {d}
      BY <2>10, <2>11, <2>12, AloneIsWhole
    <2> QED
      BY <2>3, <2>10, <2>12, <2>13 DEF Keeps
  <1> QED
    BY <1>1, <1>3, <1>4, <1>5

\* The eviction of the last valid copy writes it back to the CPU first.
LEMMA CopyHomeKeeps ==
    ASSUME NEW c, NEW b, NEW f, WholeCopies(c, b, f), NEW d \in Dev, d # CPU, Valid(c) = {d}
    PROVE  Keeps(b, f, CopyHome(c, d))
  <1> PICK w : w = WriteBack(c, CPU, "M")
    OBVIOUS
  <1>0. PICK n : n = [w.c EXCEPT !.owner = CPU, !.state[CPU] = "M", !.kind[d] = "whole"]
    OBVIOUS
  <1> DEFINE srcs == <<Latest(c)>>
             ops == [i \in DOMAIN srcs |-> Load(CPU, srcs[i])]
                      \o [i \in DOMAIN InOrder({}) |-> Evict(InOrder({})[i])]
  <1>1. NoParts(c) /\ c.kind[d] # "part" /\ b \in WholeBuffers /\ CPU \in Dev
    BY DEF WholeCopies, NoParts, Dev
  <1>2. /\ c.owner \in Dev /\ \A i \in Dev : c.version[i] <= c.version[c.owner]
        /\ c.last \in Nat /\ \A i \in Dev : c.version[i] = IF i \in Valid(c) THEN c.last ELSE -1
        /\ Latest(c) \in Valid(c)
        /\ b.kind[Latest(c)] = "whole" /\ b.data[Latest(c)] = f
    BY OwnerIsNewest
  <1>3. Ousted(c, CPU, "M") = {d} /\ Invalidated(c, CPU, "M") = {d}
    BY <1>1 DEF Ousted, Invalidated, Valid, NoParts
  <1>4. WrittenTo(w, c, CPU, {d})
    BY <1>1, <1>3, WriteBackWhole
  <1>5. WrittenBack(c, CPU) = srcs
    <2>1. c.owner \in Valid(c)
      BY DEF WholeCopies
    <2>2. c.version[CPU] < c.version[c.owner]
      BY <1>1, <1>2, <2>1
    <2> QED
      BY <1>1, <1>2, <2>2, WhatIsWrittenBack
  <1>6. CopyHome(c, d) = [c |-> n, ops |-> ops, raised |-> w.raised]
    <2>1. {d} \ {d} = {}
      OBVIOUS
    <2> QED
      BY <1>0, <1>1, <1>3, <1>5, <2>1 DEF CopyHome, Map
  <1> PICK p : p = Perform(b, ops)
    OBVIOUS
  <1>7. Brought(b, p, CPU, Latest(c), 1, {})
    <2>1. /\ srcs = IF 1 = 1 THEN <<Latest(c)>> ELSE <<>>
          /\ ops = [i \in DOMAIN srcs |-> Load(CPU, srcs[i])]
                     \o [i \in DOMAIN InOrder({}) |-> Evict(InOrder({})[i])]
      OBVIOUS
    <2> HIDE DEF srcs, ops
    <2>2. Asked(ops, CPU, Latest(c), 1, {})
      BY <2>1, LoadThenEvicts
    <2>3. Latest(c) \in Dev
      BY <1>2 DEF Valid
    <2> QED
      BY <1>1, <1>2, <2>2, <2>3, LoadAndEvict
  <1> HIDE DEF srcs, ops
  <1>8. p.raised = FALSE /\ p.buf \in WholeBuffers /\ p.buf.kind[CPU] = "whole" /\ p.buf.data[CPU] = f
    <2>1. p.raised = FALSE /\ p.buf \in WholeBuffers
      BY <1>7 DEF Brought, Results
    <2>2. CPU \in Dev \ {}
      BY <1>1
    <2> QED
      BY <1>2, <1>7, <2>1, <2>2 DEF Brought
  <1> PICK v : v = w.c
    OBVIOUS
  <1>9. /\ v \in Protocols /\ NoParts(v) /\ v.last = c.last
        /\ v.state \in [Dev -> {"I", "S", "M"}] /\ v.kind \in [Dev -> {"none", "whole", "part"}]
        /\ v.version[CPU] = c.last
        /\ \A i \in Dev \ {CPU} : v.state[i] = "I" /\ v.version[i] = -1
    <2>1. ASSUME NEW i \in Dev \ {CPU} PROVE v.state[i] = "I" /\ v.version[i] = -1
      <3>1. i \in {d} \/ (i \notin Valid(c) /\ c.state[i] = "I")
        BY DEF Valid
      <3> QED
        BY <1>2, <1>4, <3>1 DEF WrittenTo
    <2> QED
      BY <1>1, <1>4, <2>1 DEF WrittenTo, NoParts, Protocols
  <1>10. n = [state |-> [v.state EXCEPT ![CPU] = "M"], kind |-> [v.kind EXCEPT ![d] = "whole"],
              sub |-> v.sub, version |-> v.version, owner |-> CPU, last |-> v.last]
    <2>1. n = [v EXCEPT !.owner = CPU, !.state[CPU] = "M", !.kind[d] = "whole"]
      BY <1>0
    <2>2. v = [state |-> v.state, kind |-> v.kind, sub |-> v.sub, version |-> v.version,
               owner |-> v.owner, last |-> v.last]
      BY <1>9 DEF Protocols
    <2> QED
      BY <2>1, <2>2
  <1>11. /\ NoParts(n) /\ n.owner = CPU /\ n.version[CPU] = n.last /\ n.state[CPU] = "M"
         /\ \A i \in Dev \ {CPU} : n.state[i] = "I" /\ n.version[i] = -1
    <2>1. /\ [v.state EXCEPT ![CPU] = "M"] \in [Dev -> {"I", "S", "M"}]
          /\ [v.kind EXCEPT ![d] = "whole"] \in [Dev -> {"none", "whole", "part"}]
      BY <1>9
    <2>2. n \in Protocols
      <3>1. /\ v.sub \in [Dev -> [Slice -> {"none", "S", "M"}]] /\ v.version \in [Dev -> Int]
            /\ v.last \in Nat
        BY <1>9 DEF Protocols
      <3> QED
        BY <1>1, <1>10, <2>1, <3>1 DEF Protocols
    <2>3. \A i \in Dev : n.kind[i] # "part"
      BY <1>9, <1>10 DEF NoParts
    <2>4. /\ n.owner = CPU /\ n.version[CPU] = n.last /\ n.state[CPU] = "M"
          /\ \A i \in Dev \ {CPU} : n.state[i] = "I" /\ n.version[i] = -1
      BY <1>1, <1>9, <1>10
    <2> QED
      BY <2>2, <2>3, <2>4 DEF NoParts
  <1>12. WholeCopies(n, p.buf, f)
    <2> PICK o \in Dev : o = CPU
      BY <1>1
    <2>1. /\ NoParts(n) /\ p.buf \in WholeBuffers
          /\ n.owner = o /\ n.version[o] = n.last /\ n.state[o] = "M"
          /\ \A i \in Dev \ {o} : n.state[i] = "I" /\ n.version[i] = -1
          /\ p.buf.kind[o] = "whole" /\ p.buf.data[o] = f
      BY <1>8, <1>11
    <2> QED
      BY <2>1, AloneIsWhole
  <1> QED
    BY <1>4, <1>6, <1>8, <1>12 DEF Keeps, WrittenTo

\* Coherence.evict: the last valid copy goes to the CPU, any other copy that is
\* not the owner's goes.
LEMMA EvictKeeps ==
    ASSUME NEW c, NEW b, NEW f, WholeCopies(c, b, f), NEW d \in Dev
    PROVE  Keeps(b, f, EvictCopy(c, d))
  <1>1. /\ NoParts(c) /\ c \in Protocols /\ c.kind[d] # "part" /\ b \in WholeBuffers
        /\ c.owner \in Valid(c)
        /\ \A i \in Dev : c.kind[i] # "part" /\ c.state[i] \in {"I", "S", "M"}
    BY DEF WholeCopies, NoParts, Protocols
  <1>2. CASE LastCopy(c, d) /\ d # CPU
    <2>1. Valid(c) = {d}
      <3>1. d \in Valid(c)
        BY <1>1, <1>2 DEF LastCopy, Valid
      <3>2. ASSUME NEW i \in Valid(c), i # d PROVE FALSE
        <4>1. i \in Dev /\ c.state[i] # "M" /\ c.state[d] # "M"
          BY <3>1, <3>2 DEF WholeCopies, Valid
        <4>2. c.state[i] = "S"
          BY <1>1, <4>1, <3>2 DEF Valid
        <4> QED
          BY <1>1, <1>2, <3>2, <4>1, <4>2 DEF LastCopy
      <3> QED
        BY <3>1, <3>2
    <2>2. EvictCopy(c, d) = CopyHome(c, d)
      BY <1>2 DEF EvictCopy
    <2> QED
      BY <1>2, <2>1, <2>2, CopyHomeKeeps
  <1>3. CASE ~LastCopy(c, d) /\ c.state[d] = "S" /\ d # c.owner
    <2> PICK n : n = [c EXCEPT !.state[d] = "I", !.version[d] = -1, !.kind[d] = "none"]
      OBVIOUS
    <2> PICK p : p = Perform(b, <<Evict(d)>>)
      OBVIOUS
    <2>1. EvictCopy(c, d) = Plain(n, <<Evict(d)>>)
      BY <1>3 DEF EvictCopy
    <2>2. Asked(<<Evict(d)>>, d, d, 0, {d})
      <3>1. Len(<<Evict(d)>>) = 1 /\ <<Evict(d)>>[1] = Evict(d)
        OBVIOUS
      <3> QED
        BY <3>1 DEF Asked
    <2>3. Brought(b, p, d, d, 0, {d})
      BY <1>1, <2>2, LoadAndEvict
    <2>4. /\ p.raised = FALSE /\ p.buf \in WholeBuffers
          /\ \A i \in Dev \ {d} : p.buf.kind[i] = b.kind[i] /\ p.buf.data[i] = b.data[i]
      BY <2>3 DEF Brought, Results
    <2>5. n = [state |-> [c.state EXCEPT ![d] = "I"], kind |-> [c.kind EXCEPT ![d] = "none"],
               sub |-> c.sub, version |-> [c.version EXCEPT ![d] = -1],
               owner |-> c.owner, last |-> c.last]
      <3>1. c = [state |-> c.state, kind |-> c.kind, sub |-> c.sub, version |-> c.version,
                 owner |-> c.owner, last |-> c.last]
        BY <1>1 DEF Protocols
      <3> QED
        BY <3>1
    <2>6. /\ c.state \in [Dev -> {"I", "S", "M"}] /\ c.kind \in [Dev -> {"none", "whole", "part"}]
          /\ c.version \in [Dev -> Int]
      BY <1>1 DEF Protocols
    <2>7. n \in Protocols
      <3>1. /\ [c.state EXCEPT ![d] = "I"] \in [Dev -> {"I", "S", "M"}]
            /\ [c.kind EXCEPT ![d] = "none"] \in [Dev -> {"none", "whole", "part"}]
            /\ [c.version EXCEPT ![d] = -1] \in [Dev -> Int]
        BY <2>6
      <3> QED
        BY <1>1, <2>5, <3>1 DEF Protocols
    <2>8. \A i \in Dev : /\ n.state[i] = IF i = d THEN "I" ELSE c.state[i]
                         /\ n.kind[i] = IF i = d THEN "none" ELSE c.kind[i]
                         /\ n.version[i] = IF i = d THEN -1 ELSE c.version[i]
      BY <2>5, <2>6
    <2>9. n.owner = c.owner /\ n.last = c.last
      BY <2>5
    <2>10. Valid(n) = Valid(c) \ {d}
      BY <2>8 DEF Valid
    <2>11. WholeCopies(n, p.buf, f)
      <3>1. NoParts(n)
        BY <1>1, <2>7, <2>8 DEF NoParts
      <3>2. n.owner \in Valid(n)
        BY <1>1, <1>3, <2>9, <2>10
      <3>3. ASSUME NEW i \in Valid(n)
            PROVE  /\ n.version[i] = n.last
                   /\ p.buf.kind[i] = "whole" /\ p.buf.data[i] = f
                   /\ n.state[i] # "M"
        <4>1. i \in Dev \ {d} /\ i \in Valid(c)
          BY <2>10 DEF Valid
        <4>2. c.state[i] # "M"
          <5>1. d \in Valid(c)
            BY <1>3 DEF Valid
          <5> QED
            BY <4>1, <5>1 DEF WholeCopies
        <4> QED
          BY <2>4, <2>8, <2>9, <4>1, <4>2 DEF WholeCopies
      <3>4. ASSUME NEW i \in Dev \ Valid(n) PROVE n.version[i] = -1
        BY <2>8, <2>10 DEF WholeCopies
      <3> QED
        BY <2>4, <3>1, <3>2, <3>3, <3>4 DEF WholeCopies
    <2> QED
      BY <2>1, <2>4, <2>11 DEF Keeps, Plain
  <1>4. CASE ~(LastCopy(c, d) /\ d # CPU) /\ ~(~LastCopy(c, d) /\ c.state[d] = "S" /\ d # c.owner)
    <2>1. EvictCopy(c, d) = Plain(c, <<>>)
      BY <1>4 DEF EvictCopy
    <2> QED
      BY <2>1, PlainKeeps
  <1> QED
    BY <1>2, <1>3, <1>4

\* A new array has one copy, which its home device owns.
LEMMA NewIsWhole ==
    ASSUME NEW o \in Dev, NEW c, NEW b, NEW f, c = NewProtocol(o), b = NewBuffer(o),
           f = [s \in Slice |-> 0]
    PROVE  c \in Protocols /\ b \in Buffers /\ WholeCopies(c, b, f)
  <1>1. /\ c.owner = o /\ c.last = 0
        /\ \A d \in Dev : /\ c.state[d] = IF d = o THEN "M" ELSE "I"
                          /\ c.kind[d] = IF d = o THEN "whole" ELSE "none"
                          /\ c.version[d] = IF d = o THEN 0 ELSE -1
    BY DEF NewProtocol
  <1>2. c \in Protocols /\ NoParts(c)
    <2>1. c \in Protocols
      BY DEF NewProtocol, Protocols, NoSub
    <2> QED
      BY <1>1, <2>1 DEF NoParts
  <1>3. /\ b.kind[o] = "whole" /\ b.data[o] = f
        /\ \A d \in Dev : b.kind[d] # "part"
    BY DEF NewBuffer
  <1>4. b \in Buffers /\ b \in WholeBuffers
    <2>1. b \in Buffers
      BY DEF NewBuffer, Buffers
    <2> QED
      BY <1>3, <2>1 DEF WholeBuffers
  <1>5. WholeCopies(c, b, f)
    BY <1>1, <1>2, <1>3, <1>4, AloneIsWhole
  <1> QED
    BY <1>2, <1>4, <1>5

\* A body that writes the only valid copy writes the whole array.
LEMMA BodyWritesWhole ==
    ASSUME NEW c, NEW b, NEW f, WholeCopies(c, b, f), NEW d \in Dev, Valid(c) = {d},
           NEW g \in [Slice -> Nat], NEW q, q = [b EXCEPT !.data[d] = g]
    PROVE  q \in Buffers /\ WholeCopies(c, q, g)
  <1>1. b \in WholeBuffers /\ b \in Buffers
    BY DEF WholeCopies, WholeBuffers
  <1>2. q = [kind |-> b.kind, data |-> [b.data EXCEPT ![d] = g]]
    <2>1. b = [kind |-> b.kind, data |-> b.data]
      BY <1>1 DEF Buffers
    <2> QED
      BY <2>1
  <1>3. q \in Buffers /\ q \in WholeBuffers /\ q.kind[d] = b.kind[d] /\ q.data[d] = g
    <2>1. g \in [Slice -> {NoData} \cup Nat]
      OBVIOUS
    <2>2. [b.data EXCEPT ![d] = g] \in [Dev -> [Slice -> {NoData} \cup Nat]]
      BY <1>1, <2>1 DEF Buffers
    <2> QED
      BY <1>1, <1>2, <2>2 DEF WholeBuffers, Buffers
  <1> QED
    BY <1>3 DEF WholeCopies
=============================================================================
