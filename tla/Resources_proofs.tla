--------------------------- MODULE Resources_proofs ---------------------------
(***************************************************************************)
(* Proofs about the resource pool: what it has given away on every device  *)
(* is what tasks and arrays hold there, and the mapper never waits for     *)
(* what the policy promised it, for every program and every machine that   *)
(* Fitting admits.                                                         *)
(***************************************************************************)
EXTENDS Resources, FiniteSetTheorems, WellFoundedInduction, TLAPS

-----------------------------------------------------------------------------
(* Sums over finite sets.                                                  *)

\* Induction over the subsets of a finite set, with a set for the predicate.
LEMMA SubsetInduction ==
  ASSUME NEW S, IsFiniteSet(S), NEW T, {} \in T,
         \A X \in SUBSET S : \A x \in X : X \ {x} \in T => X \in T
  PROVE  SUBSET S \subseteq T
<1> SUFFICES ASSUME (SUBSET S) \ T # {} PROVE FALSE
  OBVIOUS
<1>1. IsWellFoundedOn(StrictSubsetOrdering(S), SUBSET S)
  BY FS_StrictSubsetOrderingWellFounded, FS_FiniteSubsetsOfFinite
<1> DEFINE Bad == (SUBSET S) \ T
<1>a. Bad \subseteq SUBSET S /\ Bad # {} OBVIOUS
<1>2. PICK X \in Bad : \A Y \in Bad : <<Y, X>> \notin StrictSubsetOrdering(S)
  <2> HIDE DEF Bad
  <2> QED BY <1>1, <1>a, WFMin
<1>3. PICK x \in X : TRUE BY <1>2
<1>4. <<X \ {x}, X>> \in StrictSubsetOrdering(S) BY <1>2, <1>3 DEF StrictSubsetOrdering
<1>5. X \ {x} \in T BY <1>2, <1>4
<1> QED BY <1>2, <1>3, <1>5

\* g[X] is the sum of f over X, for every subset X of S.
SumsOf(g, f, S) ==
    /\ g \in [SUBSET S -> Int]
    /\ g[{}] = 0
    /\ \A X \in SUBSET S : \A x \in X : g[X] = f[x] + g[X \ {x}]

\* The sums exist, whatever the order: one element more adds its value.
LEMMA SumsExist ==
  ASSUME NEW S, IsFiniteSet(S), NEW f, \A x \in S : f[x] \in Int
  PROVE  \E g : SumsOf(g, f, S)
<1> DEFINE T == {X \in SUBSET S : \E g : SumsOf(g, f, X)}
<1>1. {} \in T
  <2> DEFINE g == [X \in {{}} |-> 0]
  <2>1. SumsOf(g, f, {}) BY DEF SumsOf
  <2> QED BY <2>1
<1>2. ASSUME NEW X \in SUBSET S, NEW y \in X, X \ {y} \in T PROVE X \in T
  <2>1. PICK h : SumsOf(h, f, X \ {y}) BY <1>2
  <2> DEFINE g == [Y \in SUBSET X |-> IF y \in Y THEN f[y] + h[Y \ {y}] ELSE h[Y]]
  <2>2. \A Y \in SUBSET X : Y \ {y} \in SUBSET (X \ {y}) OBVIOUS
  <2>3. \A Y \in SUBSET (X \ {y}) : h[Y] \in Int BY <2>1 DEF SumsOf
  <2>4. f[y] \in Int OBVIOUS
  <2>5. g \in [SUBSET X -> Int]
    <3> SUFFICES ASSUME NEW Y \in SUBSET X PROVE (IF y \in Y THEN f[y] + h[Y \ {y}] ELSE h[Y]) \in Int
      OBVIOUS
    <3>1. CASE y \in Y BY <2>2, <2>3, <2>4, <3>1
    <3>2. CASE y \notin Y
      <4>1. Y \in SUBSET (X \ {y}) BY <3>2
      <4> QED BY <2>3, <3>2, <4>1
    <3> QED BY <3>1, <3>2
  <2>6. g[{}] = 0 BY <2>1 DEF SumsOf
  <2>7. ASSUME NEW Y \in SUBSET X, NEW x \in Y PROVE g[Y] = f[x] + g[Y \ {x}]
    <3>1. CASE x = y
      <4>1. g[Y] = f[y] + h[Y \ {y}] /\ g[Y \ {x}] = h[Y \ {y}] BY <3>1
      <4> QED BY <3>1, <4>1
    <3>2. CASE x # y /\ y \notin Y
      <4>1. Y \in SUBSET (X \ {y}) BY <3>2
      <4>2. h[Y] = f[x] + h[Y \ {x}] BY <2>1, <4>1 DEF SumsOf
      <4>3. g[Y] = h[Y] /\ g[Y \ {x}] = h[Y \ {x}] BY <3>2
      <4> QED BY <4>2, <4>3
    <3>3. CASE x # y /\ y \in Y
      <4> DEFINE Z == Y \ {y}
      <4>1. Z \in SUBSET (X \ {y}) /\ x \in Z BY <3>3
      <4>2. h[Z] = f[x] + h[Z \ {x}] BY <2>1, <4>1 DEF SumsOf
      <4>3. (Y \ {x}) \ {y} = Z \ {x} OBVIOUS
      <4>4. g[Y] = f[y] + h[Z] /\ g[Y \ {x}] = f[y] + h[Z \ {x}] BY <3>3, <4>3
      <4>5. h[Z \ {x}] \in Int BY <2>3, <4>1
      <4>6. f[x] \in Int OBVIOUS
      <4> HIDE DEF Z, g
      <4> QED BY <2>4, <4>2, <4>4, <4>5, <4>6
    <3> QED BY <3>1, <3>2, <3>3
  <2> HIDE DEF g
  <2>8. SumsOf(g, f, X) BY <2>5, <2>6, <2>7 DEF SumsOf
  <2> QED BY <2>8
<1> HIDE DEF T
<1>3. SUBSET S \subseteq T BY <1>1, <1>2, SubsetInduction
<1>4. S \in T BY <1>3
<1> QED BY <1>4 DEF T

\* The library's sum, over any subset, is that one.
LEMMA SumIs ==
  ASSUME NEW S, IsFiniteSet(S), NEW f, NEW g, SumsOf(g, f, S)
  PROVE  SumFunctionOnSet(f, S) = g[S]
<1> DEFINE Pick(s) == CHOOSE x \in s : TRUE
           IsIter(h) == h = [s \in SUBSET S |-> IF s = {} THEN 0 ELSE f[Pick(s)] + h[s \ {Pick(s)}]]
           iter == CHOOSE h : IsIter(h)
<1>1. SumFunctionOnSet(f, S) = iter[S]
  BY DEF SumFunctionOnSet, FoldFunctionOnSet, MapThenFoldSet
<1>2. \A s \in SUBSET S : s # {} => Pick(s) \in s OBVIOUS
<1>3. IsIter(g)
  <2>1. \A s \in SUBSET S : g[s] = IF s = {} THEN 0 ELSE f[Pick(s)] + g[s \ {Pick(s)}]
    BY <1>2 DEF SumsOf
  <2>2. g = [s \in SUBSET S |-> g[s]] BY DEF SumsOf
  <2> QED BY <2>1, <2>2
<1> HIDE DEF Pick
<1>4. IsIter(iter)
  <2> HIDE DEF IsIter
  <2> QED BY <1>3
<1>5. \A s \in SUBSET S : iter[s] = IF s = {} THEN 0 ELSE f[Pick(s)] + iter[s \ {Pick(s)}]
  BY <1>4
<1> HIDE DEF iter, IsIter
<1> DEFINE T == {s \in SUBSET S : iter[s] = g[s]}
<1>6. {} \in T BY <1>5 DEF SumsOf
<1> SUFFICES ASSUME S \notin T PROVE FALSE
  BY <1>1
<1>7. IsWellFoundedOn(StrictSubsetOrdering(S), SUBSET S)
  BY FS_StrictSubsetOrderingWellFounded, FS_FiniteSubsetsOfFinite
<1>8. PICK X \in (SUBSET S) \ T :
        \A Y \in (SUBSET S) \ T : <<Y, X>> \notin StrictSubsetOrdering(S)
  <2>1. (SUBSET S) \ T \subseteq SUBSET S /\ (SUBSET S) \ T # {} OBVIOUS
  <2> HIDE DEF T
  <2> QED BY <1>7, <2>1, WFMin
<1>9. X # {} BY <1>6, <1>8
<1>10. <<X \ {Pick(X)}, X>> \in StrictSubsetOrdering(S)
  BY <1>2, <1>8, <1>9 DEF StrictSubsetOrdering
<1>11. iter[X \ {Pick(X)}] = g[X \ {Pick(X)}] BY <1>8, <1>10
<1>12. g[X] = f[Pick(X)] + g[X \ {Pick(X)}] BY <1>2, <1>8, <1>9 DEF SumsOf
<1>13. iter[X] = g[X] BY <1>5, <1>8, <1>9, <1>11, <1>12
<1> QED BY <1>8, <1>13

\* What is used of sums: one element more adds its value.
LEMMA SumSteps ==
  ASSUME NEW S, IsFiniteSet(S), NEW f, \A x \in S : f[x] \in Int
  PROVE  /\ SumFunctionOnSet(f, {}) = 0
         /\ \A X \in SUBSET S :
              /\ SumFunctionOnSet(f, X) \in Int
              /\ \A x \in X : SumFunctionOnSet(f, X) = f[x] + SumFunctionOnSet(f, X \ {x})
<1>1. PICK g : SumsOf(g, f, S) BY SumsExist
<1>2. ASSUME NEW X \in SUBSET S PROVE SumFunctionOnSet(f, X) = g[X]
  <2> DEFINE h == [Y \in SUBSET X |-> g[Y]]
  <2>1. SumsOf(h, f, X) BY <1>1 DEF SumsOf
  <2>2. IsFiniteSet(X) BY FS_Subset
  <2>3. SumFunctionOnSet(f, X) = h[X]
    <3> HIDE DEF h
    <3> QED BY <2>1, <2>2, SumIs
  <2> QED BY <2>3
<1>3. SumFunctionOnSet(f, {}) = 0 BY <1>1, <1>2 DEF SumsOf
<1>4. ASSUME NEW X \in SUBSET S PROVE SumFunctionOnSet(f, X) \in Int BY <1>1, <1>2 DEF SumsOf
<1>5. ASSUME NEW X \in SUBSET S, NEW x \in X
      PROVE  SumFunctionOnSet(f, X) = f[x] + SumFunctionOnSet(f, X \ {x})
  <2>1. X \ {x} \in SUBSET S OBVIOUS
  <2>2. g[X] = f[x] + g[X \ {x}] BY <1>1 DEF SumsOf
  <2> QED BY <1>2, <2>1, <2>2
<1> QED BY <1>3, <1>4, <1>5

\* Summing is additive and monotone, and what adds nothing can be left out.
LEMMA SumPlus ==
  ASSUME NEW S, IsFiniteSet(S), NEW f, NEW h, NEW k,
         \A x \in S : f[x] \in Int /\ h[x] \in Int /\ k[x] = f[x] + h[x]
  PROVE  SumFunctionOnSet(k, S) = SumFunctionOnSet(f, S) + SumFunctionOnSet(h, S)
<1> DEFINE T == {X \in SUBSET S :
                   SumFunctionOnSet(k, X) = SumFunctionOnSet(f, X) + SumFunctionOnSet(h, X)}
<1>1. {} \in T BY SumSteps
<1>2. ASSUME NEW X \in SUBSET S, NEW x \in X, X \ {x} \in T PROVE X \in T
  <2>1. X \ {x} \in SUBSET S /\ f[x] \in Int /\ h[x] \in Int /\ k[x] = f[x] + h[x] OBVIOUS
  <2>2. /\ SumFunctionOnSet(f, X) = f[x] + SumFunctionOnSet(f, X \ {x})
        /\ SumFunctionOnSet(f, X \ {x}) \in Int
    BY <2>1, SumSteps
  <2>3. /\ SumFunctionOnSet(h, X) = h[x] + SumFunctionOnSet(h, X \ {x})
        /\ SumFunctionOnSet(h, X \ {x}) \in Int
    BY <2>1, SumSteps
  <2>4. SumFunctionOnSet(k, X) = k[x] + SumFunctionOnSet(k, X \ {x})
    <3>1. \A y \in S : k[y] \in Int OBVIOUS
    <3> QED BY <3>1, SumSteps
  <2>5. SumFunctionOnSet(k, X) = SumFunctionOnSet(f, X) + SumFunctionOnSet(h, X)
    BY <1>2, <2>1, <2>2, <2>3, <2>4
  <2> QED BY <2>5
<1> HIDE DEF T
<1>3. SUBSET S \subseteq T BY <1>1, <1>2, SubsetInduction
<1>4. S \in T BY <1>3
<1> QED BY <1>4 DEF T

LEMMA SumAtMost ==
  ASSUME NEW S, IsFiniteSet(S), NEW f, NEW h,
         \A x \in S : f[x] \in Int /\ h[x] \in Int /\ f[x] <= h[x]
  PROVE  SumFunctionOnSet(f, S) <= SumFunctionOnSet(h, S)
<1> DEFINE T == {X \in SUBSET S : SumFunctionOnSet(f, X) <= SumFunctionOnSet(h, X)}
<1>1. {} \in T BY SumSteps
<1>2. ASSUME NEW X \in SUBSET S, NEW x \in X, X \ {x} \in T PROVE X \in T
  <2>1. X \ {x} \in SUBSET S /\ f[x] \in Int /\ h[x] \in Int /\ f[x] <= h[x] OBVIOUS
  <2>2. /\ SumFunctionOnSet(f, X) = f[x] + SumFunctionOnSet(f, X \ {x})
        /\ SumFunctionOnSet(f, X \ {x}) \in Int
    BY <2>1, SumSteps
  <2>3. /\ SumFunctionOnSet(h, X) = h[x] + SumFunctionOnSet(h, X \ {x})
        /\ SumFunctionOnSet(h, X \ {x}) \in Int
    BY <2>1, SumSteps
  <2>4. SumFunctionOnSet(f, X) <= SumFunctionOnSet(h, X) BY <1>2, <2>1, <2>2, <2>3
  <2> QED BY <2>4
<1> HIDE DEF T
<1>3. SUBSET S \subseteq T BY <1>1, <1>2, SubsetInduction
<1>4. S \in T BY <1>3
<1> QED BY <1>4 DEF T

LEMMA SumSame ==
  ASSUME NEW S, IsFiniteSet(S), NEW f, NEW h, \A x \in S : f[x] \in Int /\ h[x] = f[x]
  PROVE  SumFunctionOnSet(h, S) = SumFunctionOnSet(f, S)
<1>1. SumFunctionOnSet(f, S) <= SumFunctionOnSet(h, S) BY SumAtMost
<1>2. SumFunctionOnSet(h, S) <= SumFunctionOnSet(f, S) BY SumAtMost
<1>3. SumFunctionOnSet(f, S) \in Int /\ SumFunctionOnSet(h, S) \in Int BY SumSteps
<1> QED BY <1>1, <1>2, <1>3

LEMMA SumZero ==
  ASSUME NEW S, IsFiniteSet(S), NEW f, \A x \in S : f[x] = 0
  PROVE  SumFunctionOnSet(f, S) = 0
<1> DEFINE T == {X \in SUBSET S : SumFunctionOnSet(f, X) = 0}
<1>1. {} \in T BY SumSteps
<1>2. ASSUME NEW X \in SUBSET S, NEW x \in X, X \ {x} \in T PROVE X \in T
  <2>1. SumFunctionOnSet(f, X) = f[x] + SumFunctionOnSet(f, X \ {x}) BY SumSteps
  <2> QED BY <1>2, <2>1
<1> HIDE DEF T
<1>3. SUBSET S \subseteq T BY <1>1, <1>2, SubsetInduction
<1>4. S \in T BY <1>3
<1> QED BY <1>4 DEF T

LEMMA SumNat ==
  ASSUME NEW S, IsFiniteSet(S), NEW f, \A x \in S : f[x] \in Nat
  PROVE  /\ SumFunctionOnSet(f, S) \in Nat
         /\ \A x \in S : f[x] <= SumFunctionOnSet(f, S)
<1> DEFINE T == {X \in SUBSET S : SumFunctionOnSet(f, X) \in Nat}
<1>1. {} \in T BY SumSteps
<1>2. ASSUME NEW X \in SUBSET S, NEW x \in X, X \ {x} \in T PROVE X \in T
  <2>1. SumFunctionOnSet(f, X) = f[x] + SumFunctionOnSet(f, X \ {x}) BY SumSteps
  <2> QED BY <1>2, <2>1
<1> HIDE DEF T
<1>3. SUBSET S \subseteq T BY <1>1, <1>2, SubsetInduction
<1>4. S \in T BY <1>3
<1>5. ASSUME NEW x \in S PROVE f[x] <= SumFunctionOnSet(f, S)
  <2>1. SumFunctionOnSet(f, S) = f[x] + SumFunctionOnSet(f, S \ {x}) BY SumSteps
  <2>2. S \ {x} \in T BY <1>3
  <2>3. SumFunctionOnSet(f, S \ {x}) \in Nat BY <2>2 DEF T
  <2> QED BY <2>1, <2>3
<1> QED BY <1>4, <1>5 DEF T

LEMMA SumRestricted ==
  ASSUME NEW S, IsFiniteSet(S), NEW R \in SUBSET S, NEW f, NEW k, \A x \in R : f[x] \in Int,
         \A x \in S : k[x] = IF x \in R THEN f[x] ELSE 0
  PROVE  SumFunctionOnSet(k, S) = SumFunctionOnSet(f, R)
<1> DEFINE T == {X \in SUBSET S : SumFunctionOnSet(k, X) = SumFunctionOnSet(f, X \cap R)}
<1>a. IsFiniteSet(R) BY FS_Subset
<1>b. \A x \in S : k[x] \in Int OBVIOUS
<1>1. {} \in T
  <2>1. SumFunctionOnSet(k, {}) = 0 BY <1>b, SumSteps
  <2>2. SumFunctionOnSet(f, {}) = 0 BY <1>a, SumSteps
  <2>3. {} \cap R = {} OBVIOUS
  <2> QED BY <2>1, <2>2, <2>3
<1>2. ASSUME NEW X \in SUBSET S, NEW x \in X, X \ {x} \in T PROVE X \in T
  <2>1. SumFunctionOnSet(k, X) = k[x] + SumFunctionOnSet(k, X \ {x}) BY <1>b, SumSteps
  <2>2. SumFunctionOnSet(k, X \ {x}) = SumFunctionOnSet(f, (X \ {x}) \cap R) BY <1>2
  <2>3. SumFunctionOnSet(f, (X \ {x}) \cap R) \in Int
    <3>1. (X \ {x}) \cap R \in SUBSET R OBVIOUS
    <3> QED BY <1>a, <3>1, SumSteps
  <2>4. CASE x \in R
    <3>1. X \cap R \in SUBSET R /\ x \in X \cap R /\ (X \cap R) \ {x} = (X \ {x}) \cap R BY <2>4
    <3>2. SumFunctionOnSet(f, X \cap R) = f[x] + SumFunctionOnSet(f, (X \cap R) \ {x})
      BY <1>a, <3>1, SumSteps
    <3>3. k[x] = f[x] BY <2>4
    <3>4. SumFunctionOnSet(k, X) = SumFunctionOnSet(f, X \cap R)
      BY <2>1, <2>2, <3>1, <3>2, <3>3
    <3> QED BY <3>4
  <2>5. CASE x \notin R
    <3>1. X \cap R = (X \ {x}) \cap R /\ k[x] = 0 BY <2>5
    <3>2. SumFunctionOnSet(k, X) = SumFunctionOnSet(f, (X \ {x}) \cap R)
      BY <2>1, <2>2, <2>3, <3>1
    <3>3. SumFunctionOnSet(k, X) = SumFunctionOnSet(f, X \cap R) BY <3>1, <3>2
    <3> QED BY <3>3
  <2> QED BY <2>4, <2>5
<1> HIDE DEF T
<1>3. SUBSET S \subseteq T BY <1>1, <1>2, SubsetInduction
<1>4. S \in T BY <1>3
<1>5. S \cap R = R OBVIOUS
<1> QED BY <1>4, <1>5 DEF T

\* One value changes, and the sum by as much.
LEMMA SumChanged ==
  ASSUME NEW S, IsFiniteSet(S), NEW f, NEW h, NEW x \in S,
         \A y \in S : f[y] \in Int /\ h[y] \in Int, \A y \in S \ {x} : h[y] = f[y]
  PROVE  SumFunctionOnSet(h, S) = SumFunctionOnSet(f, S) - f[x] + h[x]
<1>1. IsFiniteSet(S \ {x}) BY FS_RemoveElement
<1>2. SumFunctionOnSet(h, S \ {x}) = SumFunctionOnSet(f, S \ {x}) BY <1>1, SumSame
<1>3. /\ SumFunctionOnSet(f, S) = f[x] + SumFunctionOnSet(f, S \ {x})
      /\ SumFunctionOnSet(f, S \ {x}) \in Int
  BY SumSteps
<1>4. SumFunctionOnSet(h, S) = h[x] + SumFunctionOnSet(h, S \ {x}) BY SumSteps
<1> QED BY <1>2, <1>3, <1>4

LEMMA SumSubset ==
  ASSUME NEW S, IsFiniteSet(S), NEW f, \A x \in S : f[x] \in Nat, NEW R \in SUBSET S
  PROVE  SumFunctionOnSet(f, R) \in Nat /\ SumFunctionOnSet(f, R) <= SumFunctionOnSet(f, S)
<1> DEFINE k == [x \in S |-> IF x \in R THEN f[x] ELSE 0]
<1>1. SumFunctionOnSet(k, S) = SumFunctionOnSet(f, R)
  <2>1. \A x \in S : k[x] = IF x \in R THEN f[x] ELSE 0 OBVIOUS
  <2> HIDE DEF k
  <2> QED BY <2>1, SumRestricted
<1>2. \A x \in S : k[x] \in Int /\ f[x] \in Int /\ k[x] <= f[x] OBVIOUS
<1>3. SumFunctionOnSet(k, S) <= SumFunctionOnSet(f, S)
  <2> HIDE DEF k
  <2> QED BY <1>2, SumAtMost
<1>4. IsFiniteSet(R) BY FS_Subset
<1>5. SumFunctionOnSet(f, R) \in Nat BY <1>4, SumNat
<1> QED BY <1>1, <1>3, <1>5

-----------------------------------------------------------------------------
(* The inductive invariant.                                                *)

Busy == mapper.pc \in {"policy", "register", "allocate"}

Types ==
    /\ avail \in [Dev -> [Names -> Nat]]
    /\ tracker \in [Array -> [on : SUBSET Dev, nbytes : Nat]]
    /\ place \in [Task -> {"unspawned", "spawned", "mapping", "mapped", "running", "done"}]
    /\ dev \in [Task -> Dev \cup {None}]
    /\ resumed \subseteq Awaiting
    /\ moving \in [Task -> Nat]
    /\ launched \in [Dev -> Int] /\ mapped \in [Dev -> Int]
    /\ queue \in [new : Seq(Task), curr : Seq(Task)]
    /\ DOMAIN mapper = DOMAIN Idle
    /\ mapper.pc \in {"idle", "loop", "policy", "register", "allocate"}
    /\ mapper.tries \in 0 .. MapLimit
    /\ mapper.taken \in 0 .. 2

\* the queues list spawned tasks, each once
QueueInv ==
    /\ \A s \in {queue.new, queue.curr} : \A i \in DOMAIN s :
          /\ place[s[i]] = "spawned"
          /\ \A j \in DOMAIN s : s[i] = s[j] => i = j
    /\ \A i \in DOMAIN queue.new, j \in DOMAIN queue.curr : queue.new[i] # queue.curr[j]

\* where a task is, and on which device
TaskInv(t) ==
    /\ place[t] \in {"unspawned", "spawned"} => dev[t] = None
    /\ place[t] \in {"unspawned", "spawned", "mapping"} => t \notin resumed
    /\ place[t] = "mapping" => Busy /\ t = mapper.task
    /\ place[t] \in {"mapped", "running", "done"} => dev[t] \in Placement[t]
    /\ place[t] # "unspawned" => \A a \in Uses[t] \cup Out[t] : Tracked(a)
    /\ moving[t] <= Cardinality(Uses[t]) + Cardinality(Out[t])

\* what the mapper is doing
MapperInv ==
    /\ Busy => mapper.task \in Task /\ place[mapper.task] = "mapping"
    /\ mapper.pc = "policy" => /\ dev[mapper.task] = None
                               /\ mapper.todo \subseteq Placement[mapper.task]
                               /\ mapper.best \in Placement[mapper.task] \cup {None}
    /\ mapper.pc \in {"register", "allocate"} => /\ mapper.best \in Placement[mapper.task]
                                                /\ dev[mapper.task] = mapper.best
    /\ mapper.pc = "register" => mapper.todo \subseteq Uses[mapper.task] \cup Out[mapper.task]
    /\ mapper.pc # "allocate" => mapper.taken = 0
    /\ ~Busy => mapper.best = None

\* what is recorded of an array
TrackerInv(a) ==
    /\ a \notin Empty => ~Tracked(a) \/ tracker[a].nbytes = Size[a]
    /\ a \in Empty => tracker[a].on \subseteq {Home[a]} /\ tracker[a].nbytes \in {0, Size[a]}

\* the arrays that the mapper has yet to register on the device it chose
ToCome == {a \in Array : /\ \/ mapper.pc = "policy" /\ a \in Uses[mapper.task]
                            \/ mapper.pc = "register" /\ a \in mapper.todo
                         /\ mapper.best \notin tracker[a].on}

\* what the policy found available still is
Promised == Busy /\ mapper.best # None =>
    /\ mapper.taken < 2 => Need[mapper.task]["vcus"] <= avail[mapper.best]["vcus"]
    /\ mapper.taken = 0 /\ ~RoomOn(mapper.best) =>
         Need[mapper.task]["memory"] + BytesOf(ToCome) <= avail[mapper.best]["memory"]

LaunchedExact == \A d \in Dev :
    launched[d] = Cardinality({t \in Task : place[t] = "running" /\ dev[t] = d})

IInv == /\ Types
        /\ QueueInv
        /\ \A t \in Task : TaskInv(t)
        /\ MapperInv
        /\ \A a \in Array : TrackerInv(a)
        /\ Promised
        /\ LaunchedExact
        /\ PoolExact

-----------------------------------------------------------------------------
(* The pool's sums, with one term for each task and for each array.         *)

HeldAt(d, r) == [t \in Task |-> IF dev[t] = d THEN Held(t, r) ELSE 0]
CopyAt(d) == [a \in Array |-> IF d \in tracker[a].on THEN Bytes(a) ELSE 0]
PlacedNeed(d) == [t \in Task |-> IF d \in Placement[t] THEN Need[t]["memory"] ELSE 0]

LEMMA Constants ==
  /\ IsFiniteSet(Task) /\ IsFiniteSet(Array) /\ IsFiniteSet(Dev)
  /\ Names = {"memory", "vcus"} /\ Resource = <<"memory", "vcus">> /\ Len(Resource) = 2
  /\ Capacity \in [Dev -> [Names -> Nat]] /\ Need \in [Task -> [Names -> Nat]]
  /\ Placement \in [Task -> SUBSET Dev]
  /\ Uses \in [Task -> SUBSET Array] /\ Out \in [Task -> SUBSET Array]
  /\ Awaiting \subseteq Task /\ Empty \subseteq Array
  /\ Home \in [Array -> Dev] /\ Size \in [Array -> Nat]
  /\ None \notin Task /\ None \notin Dev
BY ResourcesAssumption DEF ResourcesAssumption, Names, Resource

\* What a task holds of each resource.
LEMMA HeldIs ==
  ASSUME Types, NEW t \in Task
  PROVE  /\ Held(t, "memory") =
              IF \/ place[t] = "mapping" /\ mapper.taken > 0
                 \/ place[t] \in {"mapped", "running"} /\ t \notin resumed
              THEN Need[t]["memory"] ELSE 0
         /\ Held(t, "vcus") =
              IF \/ place[t] = "mapping" /\ mapper.taken > 1
                 \/ place[t] \in {"mapped", "running"} /\ t \notin resumed
              THEN Need[t]["vcus"] ELSE 0
         /\ \A r \in Names : Held(t, r) \in Nat /\ Held(t, r) <= Need[t][r]
<1>1. mapper.taken \in {0, 1, 2} BY DEF Types
<1>2. Resource[1] = "memory" /\ Resource[2] = "vcus" BY DEF Resource
<1>3. (\E i \in 1 .. mapper.taken : Resource[i] = "memory") <=> mapper.taken > 0
  BY <1>1, <1>2
<1>4. (\E i \in 1 .. mapper.taken : Resource[i] = "vcus") <=> mapper.taken > 1
  <2>1. CASE mapper.taken = 2 BY <1>2, <2>1
  <2>2. CASE mapper.taken \in {0, 1}
    <3>1. \A i \in 1 .. mapper.taken : i = 1 BY <2>2
    <3> QED BY <1>2, <2>2, <3>1
  <2> QED BY <1>1, <2>1, <2>2
<1>5. /\ Held(t, "memory") =
              IF \/ place[t] = "mapping" /\ mapper.taken > 0
                 \/ place[t] \in {"mapped", "running"} /\ t \notin resumed
              THEN Need[t]["memory"] ELSE 0
  <2>1. CASE place[t] = "mapping" BY <1>3, <2>1 DEF Held
  <2>2. CASE place[t] # "mapping" BY <2>2 DEF Held
  <2> QED BY <2>1, <2>2
<1>6. /\ Held(t, "vcus") =
              IF \/ place[t] = "mapping" /\ mapper.taken > 1
                 \/ place[t] \in {"mapped", "running"} /\ t \notin resumed
              THEN Need[t]["vcus"] ELSE 0
  <2>1. CASE place[t] = "mapping" BY <1>4, <2>1 DEF Held
  <2>2. CASE place[t] # "mapping" BY <2>2 DEF Held
  <2> QED BY <2>1, <2>2
<1>7. Need[t]["memory"] \in Nat /\ Need[t]["vcus"] \in Nat BY Constants
<1> QED BY <1>5, <1>6, <1>7, Constants

LEMMA BytesAtMost ==
  ASSUME Types, NEW a \in Array, TrackerInv(a)
  PROVE  Bytes(a) \in Nat /\ Bytes(a) <= Size[a]
BY Constants DEF Types, TrackerInv, Bytes

\* The sums of PoolExact are over all tasks and all arrays.
LEMMA PoolSums ==
  ASSUME Types, \A a \in Array : TrackerInv(a), NEW d
  PROVE  /\ \A r \in Names : HeldOn(d, r) = SumFunctionOnSet(HeldAt(d, r), Task)
         /\ CopiesOn(d) = SumFunctionOnSet(CopyAt(d), Array)
         /\ \A r \in Names : \A t \in Task : HeldAt(d, r)[t] \in Nat
         /\ \A a \in Array : CopyAt(d)[a] \in Nat /\ CopyAt(d)[a] <= Size[a]
         /\ \A r \in Names : SumFunctionOnSet(HeldAt(d, r), Task) \in Nat
         /\ SumFunctionOnSet(CopyAt(d), Array) \in Nat
<1>1. ASSUME NEW r \in Names
      PROVE  /\ HeldOn(d, r) = SumFunctionOnSet(HeldAt(d, r), Task)
             /\ \A t \in Task : HeldAt(d, r)[t] \in Nat
  <2> DEFINE R == {t \in Task : dev[t] = d}
             f == [t \in Task |-> Held(t, r)]
             k == HeldAt(d, r)
  <2>1. \A t \in R : f[t] \in Int BY HeldIs
  <2>2. \A t \in Task : k[t] = IF t \in R THEN f[t] ELSE 0 BY DEF HeldAt
  <2>3. HeldOn(d, r) = SumFunctionOnSet(f, R) BY DEF HeldOn
  <2>4. \A t \in Task : k[t] \in Nat BY HeldIs DEF HeldAt
  <2>5. R \in SUBSET Task OBVIOUS
  <2>6. IsFiniteSet(Task) BY Constants
  <2> HIDE DEF R, f, k
  <2>7. SumFunctionOnSet(k, Task) = SumFunctionOnSet(f, R) BY <2>1, <2>2, <2>5, <2>6, SumRestricted
  <2> QED BY <2>3, <2>4, <2>7 DEF k
<1>2. /\ CopiesOn(d) = SumFunctionOnSet(CopyAt(d), Array)
      /\ \A a \in Array : CopyAt(d)[a] \in Nat /\ CopyAt(d)[a] <= Size[a]
  <2> DEFINE R == {a \in Array : d \in tracker[a].on}
             f == [a \in Array |-> Bytes(a)]
             k == CopyAt(d)
  <2>1. \A a \in R : f[a] \in Int BY BytesAtMost
  <2>2. \A a \in Array : k[a] = IF a \in R THEN f[a] ELSE 0 BY DEF CopyAt
  <2>3. CopiesOn(d) = SumFunctionOnSet(f, R) BY DEF CopiesOn, BytesOf
  <2>4. \A a \in Array : k[a] \in Nat /\ k[a] <= Size[a] BY BytesAtMost, Constants DEF CopyAt
  <2>5. R \in SUBSET Array OBVIOUS
  <2>6. IsFiniteSet(Array) BY Constants
  <2> HIDE DEF R, f, k
  <2>7. SumFunctionOnSet(k, Array) = SumFunctionOnSet(f, R) BY <2>1, <2>2, <2>5, <2>6, SumRestricted
  <2> QED BY <2>3, <2>4, <2>7 DEF k
<1>3. \A r \in Names : SumFunctionOnSet(HeldAt(d, r), Task) \in Nat
  BY <1>1, SumNat, Constants
<1>4. SumFunctionOnSet(CopyAt(d), Array) \in Nat BY <1>2, SumNat, Constants
<1> QED BY <1>1, <1>2, <1>3, <1>4

Charged == \A d \in Dev :
    /\ Capacity[d]["memory"] - avail[d]["memory"] =
         SumFunctionOnSet(HeldAt(d, "memory"), Task) + SumFunctionOnSet(CopyAt(d), Array)
    /\ Capacity[d]["vcus"] - avail[d]["vcus"] = SumFunctionOnSet(HeldAt(d, "vcus"), Task)

LEMMA ExactIsCharged ==
  ASSUME Types, \A a \in Array : TrackerInv(a)
  PROVE  PoolExact <=> Charged
<1>1. "memory" \in Names /\ "vcus" \in Names BY Constants
<1> QED BY <1>1, PoolSums DEF PoolExact, Charged

-----------------------------------------------------------------------------
(* Where everything has room.                                              *)

\* A task holds memory only on a device it may be placed on.
LEMMA HeldWherePlaced ==
  ASSUME IInv, NEW d \in Dev, NEW t \in Task
  PROVE  HeldAt(d, "memory")[t] <= PlacedNeed(d)[t]
<1>1. Need[t]["memory"] \in Nat /\ Held(t, "memory") \in Nat /\ Held(t, "memory") <= Need[t]["memory"]
  BY HeldIs, Constants DEF IInv
<1>2. CASE dev[t] = d /\ Held(t, "memory") # 0
  <2>1. \/ place[t] = "mapping" /\ mapper.taken > 0
        \/ place[t] \in {"mapped", "running"}
    BY <1>2, HeldIs DEF IInv
  <2>2. place[t] = "mapping" /\ mapper.taken > 0 => t = mapper.task /\ mapper.pc = "allocate"
    BY DEF IInv, TaskInv, MapperInv
  <2>3. d \in Placement[t] BY <1>2, <2>1, <2>2 DEF IInv, TaskInv, MapperInv
  <2> QED BY <1>1, <1>2, <2>3 DEF HeldAt, PlacedNeed
<1>3. CASE ~(dev[t] = d /\ Held(t, "memory") # 0)
  <2>1. HeldAt(d, "memory")[t] = 0 BY <1>3 DEF HeldAt
  <2>2. PlacedNeed(d)[t] \in Nat BY <1>1 DEF PlacedNeed
  <2> QED BY <2>1, <2>2
<1> QED BY <1>2, <1>3

LEMMA RoomSums ==
  ASSUME IInv, NEW d \in Dev, RoomOn(d)
  PROVE  /\ SumFunctionOnSet(Size, Array) \in Nat /\ SumFunctionOnSet(PlacedNeed(d), Task) \in Nat
         /\ SumFunctionOnSet(Size, Array) + SumFunctionOnSet(PlacedNeed(d), Task)
              <= Capacity[d]["memory"]
<1>1. SumFunctionOnSet(Size, Array) \in Nat BY SumNat, Constants
<1>2. /\ \A t \in Task : PlacedNeed(d)[t] \in Nat
      /\ SumFunctionOnSet(PlacedNeed(d), Task) =
            SumFunctionOnSet([t \in Task |-> Need[t]["memory"]], {t \in Task : d \in Placement[t]})
  <2> DEFINE R == {t \in Task : d \in Placement[t]}
             f == [t \in Task |-> Need[t]["memory"]]
             k == PlacedNeed(d)
  <2>1. \A t \in Task : f[t] \in Nat /\ k[t] = IF t \in R THEN f[t] ELSE 0
    BY Constants DEF PlacedNeed
  <2>2. R \in SUBSET Task OBVIOUS
  <2> HIDE DEF R, f, k
  <2>3. SumFunctionOnSet(k, Task) = SumFunctionOnSet(f, R) BY <2>1, <2>2, Constants, SumRestricted
  <2>4. \A t \in Task : k[t] \in Nat BY <2>1
  <2> QED BY <2>3, <2>4 DEF R, f, k
<1>3. SumFunctionOnSet(PlacedNeed(d), Task) \in Nat BY <1>2, SumNat, Constants
<1> QED BY <1>1, <1>2, <1>3 DEF RoomOn

\* Arrays that grow to no more than their size find their memory.
LEMMA RoomForCopies ==
  ASSUME IInv, NEW d \in Dev, RoomOn(d), NEW more,
         \A a \in Array : more[a] \in Nat /\ CopyAt(d)[a] + more[a] <= Size[a]
  PROVE  SumFunctionOnSet(more, Array) \in Nat /\ SumFunctionOnSet(more, Array) <= avail[d]["memory"]
<1> DEFINE k == [a \in Array |-> CopyAt(d)[a] + more[a]]
<1>a. Types /\ (\A a \in Array : TrackerInv(a)) /\ "memory" \in Names BY Constants DEF IInv
<1>b. /\ SumFunctionOnSet(HeldAt(d, "memory"), Task) \in Nat
      /\ SumFunctionOnSet(CopyAt(d), Array) \in Nat
      /\ \A a \in Array : CopyAt(d)[a] \in Nat
      /\ \A t \in Task : HeldAt(d, "memory")[t] \in Nat
  BY <1>a, PoolSums
<1>1. \A a \in Array : k[a] \in Int /\ k[a] = CopyAt(d)[a] + more[a] /\ k[a] <= Size[a] BY <1>b
<1>2. SumFunctionOnSet(k, Array) = SumFunctionOnSet(CopyAt(d), Array) + SumFunctionOnSet(more, Array)
  <2>1. IsFiniteSet(Array) BY Constants
  <2>2. \A a \in Array : CopyAt(d)[a] \in Int /\ more[a] \in Int /\ k[a] = CopyAt(d)[a] + more[a]
    BY <1>1, <1>b
  <2> HIDE DEF k
  <2> QED BY <2>1, <2>2, SumPlus
<1>3. SumFunctionOnSet(k, Array) <= SumFunctionOnSet(Size, Array)
  <2>1. \A a \in Array : Size[a] \in Int BY Constants
  <2> HIDE DEF k
  <2> QED BY <1>1, <2>1, Constants, SumAtMost
<1>4. SumFunctionOnSet(HeldAt(d, "memory"), Task) <= SumFunctionOnSet(PlacedNeed(d), Task)
  <2>1. \A t \in Task : PlacedNeed(d)[t] \in Int BY Constants DEF PlacedNeed
  <2> QED BY <1>b, <2>1, HeldWherePlaced, Constants, SumAtMost
<1>5. SumFunctionOnSet(more, Array) \in Nat BY SumNat, Constants
<1>6. Charged BY <1>a, ExactIsCharged DEF IInv
<1>7. avail[d]["memory"] \in Nat /\ Capacity[d]["memory"] \in Nat BY <1>a, Constants DEF Types
<1> HIDE DEF k
<1> QED BY <1>b, <1>2, <1>3, <1>4, <1>5, <1>6, <1>7, RoomSums DEF Charged

\* A task that may be placed there finds the memory it asks for.
LEMMA RoomForTask ==
  ASSUME IInv, NEW d \in Dev, RoomOn(d), NEW t \in Task, d \in Placement[t],
         HeldAt(d, "memory")[t] = 0
  PROVE  Need[t]["memory"] <= avail[d]["memory"]
<1> DEFINE k == [HeldAt(d, "memory") EXCEPT ![t] = Need[t]["memory"]]
<1>a. Types /\ (\A a \in Array : TrackerInv(a)) /\ "memory" \in Names BY Constants DEF IInv
<1>b. /\ SumFunctionOnSet(HeldAt(d, "memory"), Task) \in Nat
      /\ SumFunctionOnSet(CopyAt(d), Array) \in Nat
      /\ \A a \in Array : CopyAt(d)[a] \in Nat /\ CopyAt(d)[a] <= Size[a]
      /\ \A u \in Task : HeldAt(d, "memory")[u] \in Nat
  BY <1>a, PoolSums
<1>c. Need[t]["memory"] \in Nat BY Constants
<1>1. /\ k[t] = Need[t]["memory"]
      /\ \A u \in Task \ {t} : k[u] = HeldAt(d, "memory")[u]
      /\ \A u \in Task : k[u] \in Int
  BY <1>b, <1>c DEF HeldAt
<1>2. SumFunctionOnSet(k, Task) = SumFunctionOnSet(HeldAt(d, "memory"), Task) + Need[t]["memory"]
  <2> HIDE DEF k
  <2>1. IsFiniteSet(Task) BY Constants
  <2>2. \A u \in Task : HeldAt(d, "memory")[u] \in Int /\ k[u] \in Int BY <1>1, <1>b
  <2> DEFINE f == HeldAt(d, "memory")
  <2>3. SumFunctionOnSet(k, Task) = SumFunctionOnSet(f, Task) - f[t] + k[t]
    <3>1. \A u \in Task : f[u] \in Int /\ k[u] \in Int BY <2>2
    <3>2. \A u \in Task \ {t} : k[u] = f[u] BY <1>1
    <3> HIDE DEF f
    <3> QED BY <2>1, <3>1, <3>2, SumChanged
  <2> QED BY <1>1, <1>b, <1>c, <2>3
<1>3. SumFunctionOnSet(k, Task) <= SumFunctionOnSet(PlacedNeed(d), Task)
  <2>1. \A u \in Task : PlacedNeed(d)[u] \in Int BY Constants DEF PlacedNeed
  <2>2. PlacedNeed(d)[t] = Need[t]["memory"] BY DEF PlacedNeed
  <2>3. \A u \in Task : k[u] <= PlacedNeed(d)[u] BY <1>1, <1>c, <2>2, HeldWherePlaced
  <2> HIDE DEF k
  <2> QED BY <1>1, <2>1, <2>3, Constants, SumAtMost
<1>4. SumFunctionOnSet(CopyAt(d), Array) <= SumFunctionOnSet(Size, Array)
  <2>1. \A a \in Array : Size[a] \in Int BY Constants
  <2> QED BY <1>b, <2>1, Constants, SumAtMost
<1>5. Charged BY <1>a, ExactIsCharged DEF IInv
<1>6. avail[d]["memory"] \in Nat /\ Capacity[d]["memory"] \in Nat BY <1>a, Constants DEF Types
<1> HIDE DEF k
<1> QED BY <1>b, <1>c, <1>2, <1>3, <1>4, <1>5, <1>6, RoomSums DEF Charged

-----------------------------------------------------------------------------
(* A run that ends fills the output arrays of its task one after the other. *)

LEMMA TakesAll ==
  ASSUME NEW av \in [Dev -> [Names -> Nat]], NEW d \in Dev, NEW S \in SUBSET Array,
         SumFunctionOnSet(Size, S) <= av[d]["memory"]
  PROVE  TakeEach(av, d, S)
           = [av EXCEPT ![d]["memory"] = @ - SumFunctionOnSet(Size, S)]
<1> DEFINE Less(n) == [av EXCEPT ![d]["memory"] = @ - n]
           Pick(s) == CHOOSE a \in s : TRUE
           g == [s \in SUBSET S |-> Less(SumFunctionOnSet(Size, s))]
           IsIter(h) == h = [s \in SUBSET S |-> IF s = {} THEN av
                                               ELSE TryTake(h[s \ {Pick(s)}], d, Size[Pick(s)])]
           iter == CHOOSE h : IsIter(h)
<1>a. IsFiniteSet(S) /\ (\A a \in S : Size[a] \in Nat) /\ "memory" \in Names BY FS_Subset, Constants
<1>b. \A n \in Int : /\ Less(n)[d]["memory"] = av[d]["memory"] - n
                     /\ \A m \in Int : [Less(n) EXCEPT ![d]["memory"] = @ - m] = Less(n + m)
  BY <1>a
<1>1. TakeEach(av, d, S) = iter[S]
  BY DEF TakeEach, FoldSet, MapThenFoldSet
<1>2. \A s \in SUBSET S : s # {} => Pick(s) \in s OBVIOUS
<1> HIDE DEF Pick
<1>3. \A s \in SUBSET S : s # {} => g[s] = TryTake(g[s \ {Pick(s)}], d, Size[Pick(s)])
  <2> SUFFICES ASSUME NEW s \in SUBSET S, s # {}
               PROVE  Less(SumFunctionOnSet(Size, s))
                        = TryTake(Less(SumFunctionOnSet(Size, s \ {Pick(s)})), d, Size[Pick(s)])
    OBVIOUS
  <2> DEFINE n == SumFunctionOnSet(Size, s \ {Pick(s)})
             m == Size[Pick(s)]
  <2>1. SumFunctionOnSet(Size, s) = m + n
    BY <1>a, <1>2, SumSteps
  <2>2. SumFunctionOnSet(Size, s) <= SumFunctionOnSet(Size, S) /\ SumFunctionOnSet(Size, S) \in Int
    BY <1>a, SumSubset, SumSteps
  <2>3. n \in Int /\ m \in Nat
    <3>1. s \ {Pick(s)} \in SUBSET S OBVIOUS
    <3> QED BY <1>a, <1>2, <3>1, SumSteps
  <2>4. av[d]["memory"] \in Nat BY <1>a
  <2> HIDE DEF n, m
  <2>5. m <= Less(n)[d]["memory"]
    <3>1. Less(n)[d]["memory"] = av[d]["memory"] - n BY <1>b, <2>3
    <3> HIDE DEF Less
    <3> QED BY <2>1, <2>2, <2>3, <2>4, <3>1
  <2>6. TryTake(Less(n), d, m) = [Less(n) EXCEPT ![d]["memory"] = @ - m]
    <3> HIDE DEF Less
    <3> QED BY <2>5 DEF TryTake
  <2>7. TryTake(Less(n), d, m) = Less(n + m)
    <3>1. n \in Int /\ m \in Int BY <2>3
    <3>2. [Less(n) EXCEPT ![d]["memory"] = @ - m] = Less(n + m) BY <1>b, <3>1
    <3> HIDE DEF Less
    <3> QED BY <2>6, <3>2
  <2>8. n + m = m + n BY <2>3
  <2> HIDE DEF Less
  <2> QED BY <2>1, <2>7, <2>8 DEF n, m
<1>4. g[{}] = av
  <2>1. SumFunctionOnSet(Size, {}) = 0 BY <1>a, SumSteps
  <2> QED BY <2>1
<1>5. IsIter(g)
  <2>1. g = [s \in SUBSET S |-> g[s]] OBVIOUS
  <2> HIDE DEF g
  <2> QED BY <1>3, <1>4, <2>1
<1>c. g[S] = Less(SumFunctionOnSet(Size, S)) OBVIOUS
<1> HIDE DEF g
<1>6. IsIter(iter)
  <2> HIDE DEF IsIter
  <2> QED BY <1>5
<1> HIDE DEF iter
<1>7. \A s \in SUBSET S : iter[s] = IF s = {} THEN av ELSE TryTake(iter[s \ {Pick(s)}], d, Size[Pick(s)])
  BY <1>6
<1>8. \A s \in SUBSET S : g[s] = IF s = {} THEN av ELSE TryTake(g[s \ {Pick(s)}], d, Size[Pick(s)])
  BY <1>3, <1>4
<1> HIDE DEF IsIter
<1>9. iter[S] = g[S]
  <2> SUFFICES ASSUME iter[S] # g[S] PROVE FALSE
    OBVIOUS
  <2> DEFINE Bad == {s \in SUBSET S : iter[s] # g[s]}
  <2>1. Bad \subseteq SUBSET S /\ Bad # {} OBVIOUS
  <2>2. IsWellFoundedOn(StrictSubsetOrdering(S), SUBSET S)
    BY <1>a, FS_StrictSubsetOrderingWellFounded, FS_FiniteSubsetsOfFinite
  <2>3. PICK X \in Bad : \A Y \in Bad : <<Y, X>> \notin StrictSubsetOrdering(S)
    <3> HIDE DEF Bad
    <3> QED BY <2>1, <2>2, WFMin
  <2>4. X # {} BY <1>7, <1>8
  <2>5. <<X \ {Pick(X)}, X>> \in StrictSubsetOrdering(S)
    BY <1>2, <2>3, <2>4 DEF StrictSubsetOrdering
  <2>6. iter[X \ {Pick(X)}] = g[X \ {Pick(X)}] BY <2>3, <2>5
  <2>7. iter[X] = g[X] BY <1>7, <1>8, <2>4, <2>6
  <2> QED BY <2>7
<1> QED BY <1>1, <1>9, <1>c

-----------------------------------------------------------------------------
(* Each step keeps the invariant.                                          *)

\* What is given back and taken at the end of a run.
FilledBytes(t) == SumFunctionOnSet(Size, Filled(t))

LEMMA FilledFacts ==
  ASSUME Fitting, IInv, NEW t \in Task, place[t] = "running"
  PROVE  /\ dev[t] \in Dev /\ dev[t] \in Placement[t]
         /\ Filled(t) \in SUBSET Array /\ FilledBytes(t) \in Nat
         /\ \A a \in Filled(t) \cap Empty : /\ Home[a] = dev[t] /\ tracker[a].on = {dev[t]}
                                           /\ tracker[a].nbytes = 0
         /\ \A a \in Filled(t) \ Empty : Size[a] = 0 /\ tracker[a].nbytes = 0
         /\ FilledBytes(t) <= avail[dev[t]]["memory"]
         /\ ~RoomOn(dev[t]) => FilledBytes(t) = 0
<1> DEFINE d == dev[t]
<1>1. d \in Placement[t] BY DEF IInv, TaskInv
<1>2. d \in Dev BY <1>1, Constants
<1>3. Filled(t) \in SUBSET Array BY Constants DEF Filled
<1>4. ASSUME NEW a \in Filled(t)
      PROVE  a \in Array /\ a \in Out[t] /\ tracker[a].nbytes = 0 /\ Tracked(a) /\ TrackerInv(a)
  <2>1. a \in Out[t] /\ tracker[a].nbytes = 0 BY DEF Filled
  <2> QED BY <1>3, <2>1 DEF IInv, TaskInv
<1>5. ASSUME NEW a \in Filled(t) \cap Empty
      PROVE  Home[a] = d /\ tracker[a].on = {d} /\ tracker[a].nbytes = 0
  <2>1. Placement[t] = {Home[a]} BY <1>4 DEF Fitting
  <2>2. tracker[a].on \subseteq {Home[a]} /\ tracker[a].on # {} BY <1>4 DEF TrackerInv, Tracked
  <2> QED BY <1>1, <1>4, <2>1, <2>2
<1>6. ASSUME NEW a \in Filled(t) \ Empty PROVE Size[a] = 0 /\ tracker[a].nbytes = 0
  BY <1>4 DEF TrackerInv
<1>7. IsFiniteSet(Filled(t)) /\ IsFiniteSet(Array) /\ (\A a \in Array : Size[a] \in Nat)
  BY <1>3, FS_Subset, Constants
<1>8. FilledBytes(t) \in Nat BY <1>3, <1>7, SumSubset DEF FilledBytes
<1>9. avail[d]["memory"] \in Nat BY <1>2, Constants DEF IInv, Types
<1>10. CASE RoomOn(d)
  <2> DEFINE more == [a \in Array |-> IF a \in Filled(t) THEN Size[a] ELSE 0]
  <2>1. ASSUME NEW a \in Array PROVE more[a] \in Nat /\ CopyAt(d)[a] + more[a] <= Size[a]
    <3>1. CopyAt(d)[a] \in Nat /\ CopyAt(d)[a] <= Size[a] /\ Size[a] \in Nat
      BY <1>7, PoolSums DEF IInv
    <3>2. CASE a \notin Filled(t) BY <3>1, <3>2
    <3>3. CASE a \in Filled(t) \cap Empty
      <4>1. CopyAt(d)[a] = 0 BY <1>5, <3>3 DEF CopyAt, Bytes
      <4> QED BY <3>1, <3>3, <4>1
    <3>4. CASE a \in Filled(t) \ Empty BY <1>6, <3>1, <3>4
    <3> QED BY <3>2, <3>3, <3>4
  <2>2. SumFunctionOnSet(more, Array) = SumFunctionOnSet(Size, Filled(t))
    <3>1. \A a \in Array : more[a] = IF a \in Filled(t) THEN Size[a] ELSE 0 OBVIOUS
    <3>2. \A a \in Filled(t) : Size[a] \in Int BY <1>3, <1>7
    <3> HIDE DEF more
    <3> QED BY <1>3, <1>7, <3>1, <3>2, SumRestricted
  <2> HIDE DEF more
  <2>3. SumFunctionOnSet(more, Array) <= avail[d]["memory"] BY <1>2, <1>10, <2>1, RoomForCopies
  <2>4. FilledBytes(t) <= avail[d]["memory"] BY <2>2, <2>3 DEF FilledBytes
  <2> QED BY <1>1, <1>2, <1>3, <1>5, <1>6, <1>8, <1>10, <2>4
<1>11. CASE ~RoomOn(d)
  <2>1. \A a \in Filled(t) : Size[a] = 0
    <3> SUFFICES ASSUME NEW a \in Filled(t), a \in Empty PROVE FALSE
      BY <1>6
    <3> QED BY <1>3, <1>5, <1>11 DEF Fitting
  <2>2. FilledBytes(t) = 0 BY <1>7, <2>1, SumZero DEF FilledBytes
  <2> QED BY <1>1, <1>2, <1>3, <1>5, <1>6, <1>8, <1>9, <2>2
<1> QED BY <1>10, <1>11

LEMMA FinishFacts ==
  ASSUME Fitting, IInv, NEW t \in Task, NEW next, FinishRun(t, next)
  PROVE  /\ avail' \in [Dev -> [Names -> Nat]]
         /\ avail'[dev[t]]["memory"]
               = avail[dev[t]]["memory"] + Need[t]["memory"] - FilledBytes(t)
         /\ avail'[dev[t]]["vcus"] = avail[dev[t]]["vcus"] + Need[t]["vcus"]
         /\ \A e \in Dev \ {dev[t]} : avail'[e] = avail[e]
<1> DEFINE d == dev[t]
           av == Return(d, t)
           n == FilledBytes(t)
<1>1. place[t] = "running" BY DEF FinishRun
<1>2. d \in Dev /\ Filled(t) \in SUBSET Array /\ n \in Nat /\ n <= avail[d]["memory"]
  BY <1>1, FilledFacts
<1>3. avail \in [Dev -> [Names -> Nat]] /\ Need[t] \in [Names -> Nat] BY Constants DEF IInv, Types
<1>4. /\ av \in [Dev -> [Names -> Nat]]
      /\ av[d]["memory"] = avail[d]["memory"] + Need[t]["memory"]
      /\ av[d]["vcus"] = avail[d]["vcus"] + Need[t]["vcus"]
      /\ \A e \in Dev \ {d} : av[e] = avail[e]
  BY <1>2, <1>3, Constants DEF Return
<1>5. avail' = TakeEach(av, d, Filled(t)) BY DEF FinishRun
<1> HIDE DEF av, d
<1>6. Need[t]["memory"] \in Nat /\ avail[d]["memory"] \in Nat BY <1>2, <1>3, Constants
<1>7. n <= av[d]["memory"] BY <1>2, <1>4, <1>6
<1>8. avail' = [av EXCEPT ![d]["memory"] = @ - n]
  BY <1>2, <1>4, <1>5, <1>7, TakesAll DEF FilledBytes
<1> HIDE DEF n
<1>9. /\ avail' \in [Dev -> [Names -> Nat]]
      /\ avail'[d]["memory"] = av[d]["memory"] - n
      /\ avail'[d]["vcus"] = av[d]["vcus"]
      /\ \A e \in Dev \ {d} : avail'[e] = av[e]
  BY <1>2, <1>4, <1>7, <1>8, Constants
<1>10. avail'[d]["memory"] = avail[d]["memory"] + Need[t]["memory"] - n
  BY <1>2, <1>4, <1>6, <1>9
<1>11. avail'[d]["vcus"] = avail[d]["vcus"] + Need[t]["vcus"] BY <1>4, <1>9
<1>12. \A e \in Dev \ {d} : avail'[e] = avail[e] BY <1>4, <1>9
<1> QED BY <1>9, <1>10, <1>11, <1>12 DEF d, n

LEMMA TryTakeFacts ==
  ASSUME NEW av \in [Dev -> [Names -> Nat]], NEW d \in Dev, NEW n \in Nat
  PROVE  /\ TryTake(av, d, n) \in [Dev -> [Names -> Nat]]
         /\ \A e \in Dev : TryTake(av, d, n)[e]["vcus"] = av[e]["vcus"]
         /\ \A e \in Dev \ {d} : TryTake(av, d, n)[e] = av[e]
         /\ n <= av[d]["memory"] => TryTake(av, d, n)[d]["memory"] = av[d]["memory"] - n
BY Constants DEF TryTake

\* Elements of the queues' sequences.
LEMMA Sequences ==
  ASSUME NEW s \in Seq(Task), NEW u \in Seq(Task), NEW t \in Task
  PROVE  /\ s \o u \in Seq(Task) /\ <<t>> \o s \in Seq(Task)
         /\ s # <<>> => /\ Front(s) \in Seq(Task) /\ Last(s) \in Task /\ Len(s) \in DOMAIN s
                       /\ Last(s) = s[Len(s)]
                       /\ \A i \in DOMAIN Front(s) : i \in DOMAIN s /\ Front(s)[i] = s[i] /\ i # Len(s)
         /\ \A i \in DOMAIN s : s[i] \in Task
         /\ \A i \in DOMAIN (s \o u) :
               \/ i \in DOMAIN s /\ (s \o u)[i] = s[i]
               \/ i \notin DOMAIN s /\ i - Len(s) \in DOMAIN u /\ (s \o u)[i] = u[i - Len(s)]
         /\ \A i \in DOMAIN (<<t>> \o s) :
               \/ i = 1 /\ (<<t>> \o s)[i] = t
               \/ i # 1 /\ i - 1 \in DOMAIN s /\ (<<t>> \o s)[i] = s[i - 1]
<1>1. s \o u \in Seq(Task) /\ <<t>> \o s \in Seq(Task) OBVIOUS
<1>2. ASSUME s # <<>>
      PROVE  /\ Front(s) \in Seq(Task) /\ Last(s) \in Task /\ Len(s) \in DOMAIN s
             /\ Last(s) = s[Len(s)]
             /\ \A i \in DOMAIN Front(s) : i \in DOMAIN s /\ Front(s)[i] = s[i] /\ i # Len(s)
  <2>1. Len(s) \in Nat /\ Len(s) > 0 /\ DOMAIN s = 1 .. Len(s) BY <1>2
  <2>2. Last(s) = s[Len(s)] /\ s[Len(s)] \in Task BY <2>1 DEF Last
  <2>3. Front(s) = [i \in 1 .. Len(s) - 1 |-> s[i]] BY <2>1 DEF Front
  <2>4. Front(s) \in Seq(Task) BY <2>1, <2>3
  <2> QED BY <2>1, <2>2, <2>3, <2>4
<1>3. \A i \in DOMAIN s : s[i] \in Task OBVIOUS
<1>4. Len(s) \in Nat /\ Len(u) \in Nat /\ DOMAIN s = 1 .. Len(s) /\ DOMAIN u = 1 .. Len(u) OBVIOUS
<1>5. \A i \in DOMAIN (s \o u) :
               \/ i \in DOMAIN s /\ (s \o u)[i] = s[i]
               \/ i \notin DOMAIN s /\ i - Len(s) \in DOMAIN u /\ (s \o u)[i] = u[i - Len(s)]
  <2>1. DOMAIN (s \o u) = 1 .. Len(s) + Len(u) OBVIOUS
  <2>2. ASSUME NEW i \in 1 .. Len(s) + Len(u)
        PROVE  (s \o u)[i] = IF i <= Len(s) THEN s[i] ELSE u[i - Len(s)]
    OBVIOUS
  <2> QED BY <1>4, <2>1, <2>2
<1>6. \A i \in DOMAIN (<<t>> \o s) :
               \/ i = 1 /\ (<<t>> \o s)[i] = t
               \/ i # 1 /\ i - 1 \in DOMAIN s /\ (<<t>> \o s)[i] = s[i - 1]
  <2>1. DOMAIN (<<t>> \o s) = 1 .. 1 + Len(s) OBVIOUS
  <2>2. ASSUME NEW i \in 1 .. 1 + Len(s)
        PROVE  (<<t>> \o s)[i] = IF i <= 1 THEN t ELSE s[i - 1]
    OBVIOUS
  <2> QED BY <1>4, <2>1, <2>2
<1> QED BY <1>1, <1>2, <1>3, <1>5, <1>6

LEMMA MapperFields ==
  /\ Idle.pc = "idle" /\ Idle.tries = 0 /\ Idle.taken = 0 /\ Idle.best = None
  /\ DOMAIN Idle = {"pc", "tries", "task", "todo", "total", "best", "score", "taken"}
BY DEF Idle

LEMMA InitIInv == Init => IInv
<1> SUFFICES ASSUME Init PROVE IInv
  OBVIOUS
<1> USE Constants DEF Init
<1>1. Types
  <2>1. MapLimit \in Nat BY ResourcesAssumption DEF ResourcesAssumption
  <2>2. mapper.pc = "idle" /\ mapper.tries = 0 /\ mapper.taken = 0 /\ DOMAIN mapper = DOMAIN Idle
    BY MapperFields
  <2>3. queue \in [new : Seq(Task), curr : Seq(Task)] OBVIOUS
  <2> QED BY <2>1, <2>2, <2>3 DEF Types
<1>2. QueueInv
  <2>1. queue.new = <<>> /\ queue.curr = <<>> OBVIOUS
  <2> QED BY <2>1 DEF QueueInv
<1>3. \A t \in Task : TaskInv(t)
  <2> SUFFICES ASSUME NEW t \in Task PROVE TaskInv(t)
    OBVIOUS
  <2>1. Uses[t] \in SUBSET Array /\ Out[t] \in SUBSET Array OBVIOUS
  <2>2. Cardinality(Uses[t]) \in Nat /\ Cardinality(Out[t]) \in Nat
    BY <2>1, FS_Subset, FS_CardinalityType
  <2>3. moving[t] = 0 OBVIOUS
  <2> QED BY <2>2, <2>3 DEF TaskInv
<1>4. MapperInv BY MapperFields DEF MapperInv, Busy
<1>5. \A a \in Array : TrackerInv(a) BY DEF TrackerInv, Tracked
<1>6. Promised BY MapperFields DEF Promised, Busy
<1>7. LaunchedExact
  <2> SUFFICES ASSUME NEW d \in Dev
               PROVE  launched[d] = Cardinality({t \in Task : place[t] = "running" /\ dev[t] = d})
    BY DEF LaunchedExact
  <2>1. {t \in Task : place[t] = "running" /\ dev[t] = d} = {} OBVIOUS
  <2> QED BY <2>1, FS_EmptySet
<1>8. Charged
  <2> SUFFICES ASSUME NEW d \in Dev
               PROVE  /\ \A r \in Names : SumFunctionOnSet(HeldAt(d, r), Task) = 0
                      /\ SumFunctionOnSet(CopyAt(d), Array) = 0
    <3>1. \A e \in Dev : Capacity[e]["memory"] \in Nat /\ Capacity[e]["vcus"] \in Nat OBVIOUS
    <3>2. "memory" \in Names /\ "vcus" \in Names OBVIOUS
    <3> HIDE DEF Init
    <3>3. avail = Capacity BY DEF Init
    <3> QED BY <3>1, <3>2, <3>3 DEF Charged
  <2>2. ASSUME NEW r \in Names, NEW t \in Task PROVE HeldAt(d, r)[t] = 0
    <3>1. dev[t] # d OBVIOUS
    <3> QED BY <3>1 DEF HeldAt
  <2>3. \A a \in Array : CopyAt(d)[a] = 0 BY DEF CopyAt
  <2> QED BY <2>2, <2>3, SumZero
<1>9. PoolExact BY <1>1, <1>5, <1>8, ExactIsCharged
<1> QED BY <1>1, <1>2, <1>3, <1>4, <1>5, <1>6, <1>7, <1>9 DEF IInv

\* The steps that change the local variables of the mapper.
LEMMA MapperFrame ==
  ASSUME [Next]_vars
  PROVE  MapperStep \/ mapper' = mapper
BY DEF Next, TaskStep, Track, Spawn, MoveEnds, Launch, Suspend, Complete, FinishRun, vars

\* The local variables of the mapper after each of its steps.
LEMMA MapperAfter ==
  ASSUME DOMAIN mapper = DOMAIN Idle
  PROVE  /\ BeginMapping => /\ DOMAIN mapper' = DOMAIN Idle /\ mapper'.pc = "loop"
                            /\ mapper'.tries = mapper.tries /\ mapper'.taken = mapper.taken
                            /\ mapper'.best = mapper.best
         /\ PolicyBegins => /\ DOMAIN mapper' = DOMAIN Idle /\ mapper'.pc = "policy"
                            /\ mapper'.tries = mapper.tries + 1 /\ mapper'.taken = mapper.taken
                            /\ mapper'.best = mapper.best /\ mapper'.task = Last(queue.curr)
                            /\ mapper'.todo = Placement[mapper'.task]
         /\ MappingEnds \/ AssignmentFails => mapper' = Idle
         /\ \A d \in Dev : Consider(d) =>
              /\ DOMAIN mapper' = DOMAIN Idle /\ mapper'.pc = mapper.pc /\ mapper'.task = mapper.task
              /\ mapper'.tries = mapper.tries /\ mapper'.taken = mapper.taken
              /\ mapper'.todo = mapper.todo \ {d}
              /\ \/ mapper'.best = mapper.best
                 \/ mapper'.best = d /\ Fits(mapper.task, d)
         /\ ConstructMoves =>
              /\ DOMAIN mapper' = DOMAIN Idle /\ mapper'.pc = "register" /\ mapper'.task = mapper.task
              /\ mapper'.tries = mapper.tries /\ mapper'.taken = mapper.taken /\ mapper'.best = mapper.best
              /\ mapper'.todo = Uses[mapper.task] \cup Out[mapper.task]
         /\ \A a \in Array : Register(a) =>
              /\ DOMAIN mapper' = DOMAIN Idle /\ mapper'.pc = mapper.pc /\ mapper'.task = mapper.task
              /\ mapper'.tries = mapper.tries /\ mapper'.taken = mapper.taken /\ mapper'.best = mapper.best
              /\ mapper'.todo = mapper.todo \ {a}
         /\ CountMapped =>
              /\ DOMAIN mapper' = DOMAIN Idle /\ mapper'.pc = "allocate" /\ mapper'.task = mapper.task
              /\ mapper'.tries = mapper.tries /\ mapper'.taken = mapper.taken /\ mapper'.best = mapper.best
         /\ Allocate =>
              /\ DOMAIN mapper' = DOMAIN Idle /\ mapper'.pc = mapper.pc /\ mapper'.task = mapper.task
              /\ mapper'.tries = mapper.tries /\ mapper'.taken = mapper.taken + 1
              /\ mapper'.best = mapper.best
         /\ Mapped =>
              /\ DOMAIN mapper' = DOMAIN Idle /\ mapper'.pc = "loop" /\ mapper'.tries = mapper.tries
              /\ mapper'.taken = 0 /\ mapper'.best = None
<1> USE MapperFields
<1>1. ASSUME BeginMapping
      PROVE  /\ DOMAIN mapper' = DOMAIN Idle /\ mapper'.pc = "loop"
             /\ mapper'.tries = mapper.tries /\ mapper'.taken = mapper.taken
             /\ mapper'.best = mapper.best
  BY <1>1 DEF BeginMapping
<1>2. ASSUME PolicyBegins
      PROVE  /\ DOMAIN mapper' = DOMAIN Idle /\ mapper'.pc = "policy"
             /\ mapper'.tries = mapper.tries + 1 /\ mapper'.taken = mapper.taken
             /\ mapper'.best = mapper.best /\ mapper'.task = Last(queue.curr)
             /\ mapper'.todo = Placement[mapper'.task]
  <2> DEFINE total == SumFunctionOnSet([d \in Dev |-> Load(d)], Placement[Last(queue.curr)])
  <2>1. mapper' = [mapper EXCEPT !.pc = "policy", !.tries = @ + 1, !.task = Last(queue.curr),
                                 !.todo = Placement[Last(queue.curr)], !.total = total]
    BY <1>2 DEF PolicyBegins
  <2> HIDE DEF total
  <2> QED BY <2>1
<1>3. ASSUME MappingEnds \/ AssignmentFails PROVE mapper' = Idle
  BY <1>3 DEF MappingEnds, AssignmentFails
<1>4. ASSUME NEW d \in Dev, Consider(d)
      PROVE  /\ DOMAIN mapper' = DOMAIN Idle /\ mapper'.pc = mapper.pc /\ mapper'.task = mapper.task
             /\ mapper'.tries = mapper.tries /\ mapper'.taken = mapper.taken
             /\ mapper'.todo = mapper.todo \ {d}
             /\ \/ mapper'.best = mapper.best
                \/ mapper'.best = d /\ Fits(mapper.task, d)
  <2> DEFINE score == Suitability(mapper.task, d, mapper.total)
             better == Fits(mapper.task, d) /\ (mapper.best = None \/ score > mapper.score)
  <2>1. mapper' = [mapper EXCEPT !.todo = @ \ {d},
                                 !.best = IF better THEN d ELSE @,
                                 !.score = IF better THEN score ELSE @]
    BY <1>4 DEF Consider
  <2>2. better => Fits(mapper.task, d) OBVIOUS
  <2> HIDE DEF score, better
  <2> QED BY <2>1, <2>2
<1>5. ASSUME ConstructMoves
      PROVE  /\ DOMAIN mapper' = DOMAIN Idle /\ mapper'.pc = "register" /\ mapper'.task = mapper.task
             /\ mapper'.tries = mapper.tries /\ mapper'.taken = mapper.taken /\ mapper'.best = mapper.best
             /\ mapper'.todo = Uses[mapper.task] \cup Out[mapper.task]
  BY <1>5 DEF ConstructMoves
<1>6. ASSUME NEW a \in Array, Register(a)
      PROVE  /\ DOMAIN mapper' = DOMAIN Idle /\ mapper'.pc = mapper.pc /\ mapper'.task = mapper.task
             /\ mapper'.tries = mapper.tries /\ mapper'.taken = mapper.taken /\ mapper'.best = mapper.best
             /\ mapper'.todo = mapper.todo \ {a}
  BY <1>6 DEF Register
<1>7. ASSUME CountMapped
      PROVE  /\ DOMAIN mapper' = DOMAIN Idle /\ mapper'.pc = "allocate" /\ mapper'.task = mapper.task
             /\ mapper'.tries = mapper.tries /\ mapper'.taken = mapper.taken /\ mapper'.best = mapper.best
  BY <1>7 DEF CountMapped
<1>8. ASSUME Allocate
      PROVE  /\ DOMAIN mapper' = DOMAIN Idle /\ mapper'.pc = mapper.pc /\ mapper'.task = mapper.task
             /\ mapper'.tries = mapper.tries /\ mapper'.taken = mapper.taken + 1
             /\ mapper'.best = mapper.best
  BY <1>8 DEF Allocate
<1>9. ASSUME Mapped
      PROVE  /\ DOMAIN mapper' = DOMAIN Idle /\ mapper'.pc = "loop" /\ mapper'.tries = mapper.tries
             /\ mapper'.taken = 0 /\ mapper'.best = None
  BY <1>9 DEF Mapped
<1> QED BY <1>1, <1>2, <1>3, <1>4, <1>5, <1>6, <1>7, <1>8, <1>9

LEMMA NextTypes ==
  ASSUME Fitting, IInv, [Next]_vars
  PROVE  Types'
<1>a. Types /\ (\A a \in Array : TrackerInv(a)) /\ MapperInv /\ (\A t \in Task : TaskInv(t)) BY DEF IInv
<1>b. "memory" \in Names /\ "vcus" \in Names BY Constants
<1>m. /\ DOMAIN mapper = DOMAIN Idle /\ mapper.tries \in 0 .. MapLimit /\ mapper.taken \in 0 .. 2
      /\ mapper.pc \in {"idle", "loop", "policy", "register", "allocate"} /\ MapLimit \in Nat
  BY <1>a, ResourcesAssumption DEF Types, ResourcesAssumption
\* the fields of the mapper
<1>1. /\ DOMAIN mapper' = DOMAIN Idle
      /\ mapper'.pc \in {"idle", "loop", "policy", "register", "allocate"}
      /\ mapper'.tries \in 0 .. MapLimit
      /\ mapper'.taken \in 0 .. 2
  <2>1. CASE mapper' = mapper BY <1>m, <2>1
  <2>2. CASE MapperStep
    <3>1. CASE BeginMapping BY <1>m, <3>1, MapperAfter
    <3>2. CASE PolicyBegins
      <4>1. mapper.tries < MapLimit BY <3>2 DEF PolicyBegins
      <4> QED BY <1>m, <3>2, <4>1, MapperAfter
    <3>3. CASE MappingEnds \/ AssignmentFails BY <1>m, <3>3, MapperAfter, MapperFields
    <3>4. CASE \E d \in Dev : Consider(d) BY <1>m, <3>4, MapperAfter
    <3>5. CASE ConstructMoves BY <1>m, <3>5, MapperAfter
    <3>6. CASE \E a \in Array : Register(a) BY <1>m, <3>6, MapperAfter
    <3>7. CASE CountMapped BY <1>m, <3>7, MapperAfter
    <3>8. CASE Allocate
      <4>1. mapper.taken < 2 BY <3>8, Constants DEF Allocate
      <4> QED BY <1>m, <3>8, <4>1, MapperAfter
    <3>9. CASE Mapped BY <1>m, <3>9, MapperAfter
    <3> QED BY <2>2, <3>1, <3>2, <3>3, <3>4, <3>5, <3>6, <3>7, <3>8, <3>9 DEF MapperStep
  <2> QED BY <2>1, <2>2, MapperFrame
\* the pool and the tracker
<1>c. avail \in [Dev -> [Names -> Nat]] /\ tracker \in [Array -> [on : SUBSET Dev, nbytes : Nat]]
  BY <1>a DEF Types
<1> DEFINE PoolTypes == avail' \in [Dev -> [Names -> Nat]] /\ tracker' \in [Array -> [on : SUBSET Dev, nbytes : Nat]]
<1>2. PoolTypes
  <2>1. CASE UNCHANGED <<avail, tracker>> BY <1>c, <2>1
  <2>2. ASSUME NEW a \in Array, Track(a) PROVE PoolTypes
    <3>1. Bytes(a) \in Nat /\ Home[a] \in Dev BY <1>a, BytesAtMost, Constants
    <3>2. avail' = TryTake(avail, Home[a], Bytes(a)) BY <2>2 DEF Track
    <3>3. tracker' = [tracker EXCEPT ![a] = [on |-> {Home[a]}, nbytes |-> Bytes(a)]] BY <2>2 DEF Track
    <3> QED BY <1>c, <3>1, <3>2, <3>3, TryTakeFacts
  <2>3. ASSUME NEW a \in Array, Register(a) PROVE PoolTypes
    <3>1. mapper.best \in Dev
      <4>1. mapper.pc = "register" BY <2>3 DEF Register
      <4>2. mapper.best \in Placement[mapper.task] /\ mapper.task \in Task
        BY <1>a, <4>1 DEF MapperInv, Busy
      <4> QED BY <4>2, Constants
    <3>2. Bytes(a) \in Nat BY <1>a, BytesAtMost
    <3>3. avail' \in [Dev -> [Names -> Nat]] BY <1>c, <2>3, <3>1, <3>2, TryTakeFacts DEF Register
    <3>4. tracker' = [tracker EXCEPT ![a].on = @ \cup {mapper.best}] BY <2>3 DEF Register
    <3> QED BY <1>c, <3>1, <3>3, <3>4
  <2>4. CASE Allocate
    <3>1. mapper.best \in Dev
      <4>1. mapper.pc = "allocate" BY <2>4 DEF Allocate
      <4>2. mapper.best \in Placement[mapper.task] /\ mapper.task \in Task
        BY <1>a, <4>1 DEF MapperInv, Busy
      <4> QED BY <4>2, Constants
    <3>2. PICK r \in Names : /\ avail' = [avail EXCEPT ![mapper.best][r] = @ - Need[mapper.task][r]]
                             /\ Need[mapper.task][r] <= avail[mapper.best][r]
      <4>1. mapper.taken \in {0, 1} BY <1>m, <2>4, Constants DEF Allocate
      <4>2. Resource[mapper.taken + 1] \in Names BY <4>1, Constants
      <4> QED BY <2>4, <4>2 DEF Allocate
    <3>3. mapper.task \in Task BY <1>a, <2>4 DEF MapperInv, Busy, Allocate
    <3>4. Need[mapper.task][r] \in Nat /\ avail[mapper.best][r] \in Nat BY <1>c, <3>1, <3>3, Constants
    <3>5. avail[mapper.best][r] - Need[mapper.task][r] \in Nat BY <3>2, <3>4
    <3>6. avail' \in [Dev -> [Names -> Nat]] BY <1>c, <3>1, <3>2, <3>5
    <3>7. tracker' = tracker BY <2>4 DEF Allocate
    <3> QED BY <1>c, <3>6, <3>7
  <2>5. ASSUME NEW t \in Task, Suspend(t) \/ Complete(t) PROVE PoolTypes
    <3>1. PICK next : FinishRun(t, next) BY <2>5 DEF Suspend, Complete
    <3>2. avail' \in [Dev -> [Names -> Nat]] BY <3>1, FinishFacts
    <3>3. tracker' = [a \in Array |-> IF a \in Filled(t) THEN [tracker[a] EXCEPT !.nbytes = Size[a]]
                                      ELSE tracker[a]]
      BY <3>1 DEF FinishRun
    <3>4. tracker' \in [Array -> [on : SUBSET Dev, nbytes : Nat]] BY <1>c, <3>3, Constants
    <3> QED BY <3>2, <3>4
  <2>6. \/ UNCHANGED <<avail, tracker>> \/ (\E a \in Array : Track(a) \/ Register(a)) \/ Allocate
        \/ \E t \in Task : Suspend(t) \/ Complete(t)
    BY DEF Next, TaskStep, MapperStep, Spawn, MoveEnds, Launch, BeginMapping, PolicyBegins, MappingEnds,
           Consider, AssignmentFails, ConstructMoves, CountMapped, Mapped, vars
  <2> QED BY <2>1, <2>2, <2>3, <2>4, <2>5, <2>6
\* the tasks
<1>d. /\ place \in [Task -> {"unspawned", "spawned", "mapping", "mapped", "running", "done"}]
      /\ dev \in [Task -> Dev \cup {None}] /\ resumed \subseteq Awaiting /\ moving \in [Task -> Nat]
      /\ launched \in [Dev -> Int] /\ mapped \in [Dev -> Int]
  BY <1>a DEF Types
<1> DEFINE Changes(u, p) == place' = [place EXCEPT ![u] = p]
           TaskTypes == /\ dev' \in [Task -> Dev \cup {None}] /\ resumed' \subseteq Awaiting
                        /\ moving' \in [Task -> Nat]
                        /\ launched' \in [Dev -> Int] /\ mapped' \in [Dev -> Int]
           Queues == queue' \in [new : Seq(Task), curr : Seq(Task)]
<1>e. queue \in [new : Seq(Task), curr : Seq(Task)] BY <1>a DEF Types
<1>s. Busy => /\ mapper.task \in Task
              /\ mapper.pc = "policy" => mapper.best \in Dev \cup {None}
              /\ mapper.pc = "register" => mapper.best \in Dev
  BY <1>a, Constants DEF MapperInv, Busy
<1>f. \A u \in Task, p \in {"spawned", "mapping", "mapped", "running", "done"} :
        Changes(u, p) => place' \in [Task -> {"unspawned", "spawned", "mapping", "mapped", "running", "done"}]
  BY <1>d
<1> DEFINE Places == \/ place' = place
                     \/ \E u \in Task, p \in {"spawned", "mapping", "mapped", "running", "done"} : Changes(u, p)
<1>3. Places /\ TaskTypes /\ Queues
  <2>1. ASSUME NEW a \in Array, Track(a) PROVE Places /\ TaskTypes /\ Queues BY <1>d, <1>e, <2>1 DEF Track
  <2>2. ASSUME NEW t \in Task, Spawn(t) PROVE Places /\ TaskTypes /\ Queues
    <3>1. Changes(t, "spawned") /\ UNCHANGED <<dev, resumed, moving, launched, mapped>>
          /\ queue' = [queue EXCEPT !.new = <<t>> \o @]
      BY <2>2 DEF Spawn
    <3>2. queue.new \in Seq(Task) BY <1>e
    <3>3. <<t>> \o queue.new \in Seq(Task) BY <3>2, Sequences
    <3> QED BY <1>d, <1>e, <3>1, <3>3
  <2>3. ASSUME NEW t \in Task, MoveEnds(t) PROVE Places /\ TaskTypes /\ Queues
    <3>1. moving[t] \in Nat /\ moving[t] > 0 BY <1>d, <2>3 DEF MoveEnds
    <3>2. moving[t] - 1 \in Nat BY <3>1
    <3> QED BY <1>d, <1>e, <2>3, <3>2 DEF MoveEnds
  <2>4. ASSUME NEW t \in Task, Launch(t) PROVE Places /\ TaskTypes /\ Queues
    <3>1. Changes(t, "running") BY <2>4 DEF Launch
    <3>2. launched' = [launched EXCEPT ![dev[t]] = @ + 1] BY <2>4 DEF Launch
    <3>a. dev[t] \in Dev BY <1>a, <2>4, Constants DEF TaskInv, Launch
    <3>3. launched' \in [Dev -> Int] BY <1>d, <3>2, <3>a
    <3> QED BY <1>d, <1>e, <2>4, <3>1, <3>3 DEF Launch
  <2>5. ASSUME NEW t \in Task, Suspend(t) \/ Complete(t) PROVE Places /\ TaskTypes /\ Queues
    <3>1. PICK p \in {"mapped", "done"} : FinishRun(t, p) BY <2>5 DEF Suspend, Complete
    <3>2. Changes(t, p) BY <3>1 DEF FinishRun
    <3>3. launched' = [launched EXCEPT ![dev[t]] = @ - 1] /\ mapped' = [mapped EXCEPT ![dev[t]] = @ - 1]
      BY <3>1 DEF FinishRun
    <3>4. launched' \in [Dev -> Int] /\ mapped' \in [Dev -> Int]
      <4>1. dev[t] \in Dev BY <1>a, <3>1, Constants DEF TaskInv, FinishRun
      <4> QED BY <1>d, <3>3, <4>1
    <3>5. UNCHANGED <<queue, dev, moving>> BY <3>1 DEF FinishRun
    <3>6. resumed' \subseteq Awaiting BY <1>d, <2>5 DEF Suspend, Complete
    <3> QED BY <1>d, <1>e, <3>2, <3>4, <3>5, <3>6
  <2>6. CASE BeginMapping
    <3>1. queue.curr \o queue.new \in Seq(Task) /\ <<>> \in Seq(Task) BY <1>e, Sequences
    <3>2. queue' = [new |-> <<>>, curr |-> queue.curr \o queue.new] \/ queue' = queue
      BY <2>6 DEF BeginMapping
    <3> QED BY <1>d, <1>e, <2>6, <3>1, <3>2 DEF BeginMapping
  <2>7. CASE PolicyBegins
    <3>1. queue.curr \in Seq(Task) /\ queue.curr # <<>> BY <1>e, <2>7 DEF PolicyBegins
    <3>2. Front(queue.curr) \in Seq(Task) /\ Last(queue.curr) \in Task
      <4>1. queue.curr[1] \in Task BY <3>1
      <4> QED BY <3>1, <4>1, Sequences
    <3>3. Changes(Last(queue.curr), "mapping") /\ queue' = [queue EXCEPT !.curr = Front(@)]
      BY <2>7 DEF PolicyBegins
    <3>4. Queues BY <1>e, <3>2, <3>3
    <3> QED BY <1>d, <2>7, <3>2, <3>3, <3>4 DEF PolicyBegins
  <2>8. CASE MappingEnds \/ \E d \in Dev : Consider(d) BY <1>d, <1>e, <2>8 DEF MappingEnds, Consider
  <2>9. CASE AssignmentFails
    <3>1. mapper.task \in Task BY <1>s, <2>9 DEF AssignmentFails, Busy
    <3>2. <<mapper.task>> \o queue.new \in Seq(Task) BY <1>e, <3>1, Sequences
    <3>3. Changes(mapper.task, "spawned") /\ queue' = [queue EXCEPT !.new = <<mapper.task>> \o @]
      BY <2>9 DEF AssignmentFails
    <3>4. Queues BY <1>e, <3>2, <3>3
    <3> QED BY <1>d, <2>9, <3>1, <3>3, <3>4 DEF AssignmentFails
  <2>10. CASE ConstructMoves
    <3>1. mapper.task \in Task /\ mapper.best \in Dev
      BY <1>s, <2>10 DEF ConstructMoves, Busy
    <3>2. Cardinality(Uses[mapper.task]) + Cardinality(Out[mapper.task]) \in Nat
      <4>1. IsFiniteSet(Uses[mapper.task]) /\ IsFiniteSet(Out[mapper.task]) BY <3>1, Constants, FS_Subset
      <4> QED BY <4>1, FS_CardinalityType
    <3>3. dev' = [dev EXCEPT ![mapper.task] = mapper.best] BY <2>10 DEF ConstructMoves
    <3>4. moving' = [moving EXCEPT ![mapper.task] = Cardinality(Uses[mapper.task]) + Cardinality(Out[mapper.task])]
      BY <2>10 DEF ConstructMoves
    <3>5. dev' \in [Task -> Dev \cup {None}] BY <1>d, <3>1, <3>3
    <3>6. moving' \in [Task -> Nat] BY <1>d, <3>2, <3>4
    <3> QED BY <1>d, <1>e, <2>10, <3>5, <3>6 DEF ConstructMoves
  <2>11. CASE \E a \in Array : Register(a) BY <1>d, <1>e, <2>11 DEF Register
  <2>12. CASE CountMapped
    <3>1. mapped' = [mapped EXCEPT ![mapper.best] = @ + 1] BY <2>12 DEF CountMapped
    <3>2. mapper.best \in Dev BY <1>s, <2>12 DEF CountMapped, Busy
    <3>3. mapped' \in [Dev -> Int] BY <1>d, <3>1, <3>2
    <3> QED BY <1>d, <1>e, <2>12, <3>3 DEF CountMapped
  <2>13. CASE Allocate BY <1>d, <1>e, <2>13 DEF Allocate
  <2>14. CASE Mapped
    <3>1. mapper.task \in Task BY <1>s, <2>14 DEF Mapped, Busy
    <3>2. Changes(mapper.task, "mapped") BY <2>14 DEF Mapped
    <3> QED BY <1>d, <1>e, <2>14, <3>1, <3>2 DEF Mapped
  <2>15. CASE UNCHANGED vars BY <1>d, <1>e, <2>15 DEF vars
  <2> HIDE DEF Places, TaskTypes, Queues
  <2> QED BY <2>1, <2>2, <2>3, <2>4, <2>5, <2>6, <2>7, <2>8, <2>9, <2>10, <2>11, <2>12, <2>13, <2>14, <2>15
          DEF Next, TaskStep, MapperStep
<1>4. place' \in [Task -> {"unspawned", "spawned", "mapping", "mapped", "running", "done"}]
  BY <1>d, <1>f, <1>3
<1> QED BY <1>1, <1>2, <1>3, <1>4 DEF Types

\* A task that was not spawned, or is no longer mapped, is put to the left.
LEMMA PutLeft ==
  ASSUME Types, QueueInv, NEW t \in Task, place[t] # "spawned",
         place' = [place EXCEPT ![t] = "spawned"],
         queue' = [queue EXCEPT !.new = <<t>> \o @]
  PROVE  QueueInv'
<1> DEFINE new == <<t>> \o queue.new
<1>1. queue.new \in Seq(Task) /\ queue.curr \in Seq(Task) BY DEF Types
<1>2. queue'.new = new /\ queue'.curr = queue.curr BY DEF Types
<1>3. \A i \in DOMAIN new : \/ i = 1 /\ new[i] = t
                            \/ i # 1 /\ i - 1 \in DOMAIN queue.new /\ new[i] = queue.new[i - 1]
  BY <1>1, Sequences
<1>4. DOMAIN new \subseteq Nat BY <1>1
<1>5. \A u \in Task : place[u] = "spawned" => u # t /\ place'[u] = "spawned" BY DEF Types
<1>6. place'[t] = "spawned" BY DEF Types
<1>7. \A s \in {queue.new, queue.curr} : \A i \in DOMAIN s : s[i] \in Task BY <1>1
<1> HIDE DEF new
<1>8. ASSUME NEW i \in DOMAIN new
      PROVE  /\ place'[new[i]] = "spawned"
             /\ \A j \in DOMAIN new : new[i] = new[j] => i = j
             /\ \A j \in DOMAIN queue.curr : new[i] # queue.curr[j]
  <2>1. CASE i = 1
    <3>1. new[i] = t BY <1>3, <2>1
    <3>2. \A j \in DOMAIN new : j # 1 => new[j] # t BY <1>3, <1>5, <1>7 DEF QueueInv
    <3>3. \A j \in DOMAIN queue.curr : queue.curr[j] # t BY <1>5, <1>7 DEF QueueInv
    <3> QED BY <1>6, <2>1, <3>1, <3>2, <3>3
  <2>2. CASE i # 1
    <3>1. i - 1 \in DOMAIN queue.new /\ new[i] = queue.new[i - 1] BY <1>3, <2>2
    <3>2. place[new[i]] = "spawned" /\ new[i] \in Task BY <1>7, <3>1 DEF QueueInv
    <3>3. place'[new[i]] = "spawned" /\ new[i] # t BY <1>5, <3>2
    <3>4. ASSUME NEW j \in DOMAIN new, new[i] = new[j] PROVE i = j
      <4>1. j # 1 BY <1>3, <3>3, <3>4
      <4>2. j - 1 \in DOMAIN queue.new /\ new[j] = queue.new[j - 1] BY <1>3, <4>1
      <4>3. i - 1 = j - 1 BY <3>1, <3>4, <4>2 DEF QueueInv
      <4> QED BY <1>4, <4>3
    <3>5. \A j \in DOMAIN queue.curr : new[i] # queue.curr[j] BY <3>1 DEF QueueInv
    <3> QED BY <3>3, <3>4, <3>5
  <2> QED BY <2>1, <2>2
<1>9. ASSUME NEW i \in DOMAIN queue.curr
      PROVE  /\ place'[queue.curr[i]] = "spawned"
             /\ \A j \in DOMAIN queue.curr : queue.curr[i] = queue.curr[j] => i = j
  BY <1>5, <1>7 DEF QueueInv
<1> QED BY <1>2, <1>8, <1>9 DEF QueueInv

\* The task that the policy is asked about next.
LEMMA NextIsSpawned ==
  ASSUME Types, QueueInv, PolicyBegins
  PROVE  /\ Last(queue.curr) \in Task /\ place[Last(queue.curr)] = "spawned"
         /\ Last(queue.curr) = queue.curr[Len(queue.curr)] /\ Len(queue.curr) \in DOMAIN queue.curr
         /\ \A i \in DOMAIN Front(queue.curr) :
               i \in DOMAIN queue.curr /\ Front(queue.curr)[i] = queue.curr[i] /\ i # Len(queue.curr)
<1>1. queue.curr \in Seq(Task) /\ queue.curr # <<>> BY DEF Types, PolicyBegins
<1> DEFINE v == queue.curr[1]
<1>2. v \in Task BY <1>1
<1> HIDE DEF v
<1>3. /\ Last(queue.curr) \in Task /\ Len(queue.curr) \in DOMAIN queue.curr
      /\ Last(queue.curr) = queue.curr[Len(queue.curr)]
      /\ \A i \in DOMAIN Front(queue.curr) :
            i \in DOMAIN queue.curr /\ Front(queue.curr)[i] = queue.curr[i] /\ i # Len(queue.curr)
  BY <1>1, <1>2, Sequences
<1> QED BY <1>3 DEF QueueInv

LEMMA NextQueueInv ==
  ASSUME IInv, [Next]_vars
  PROVE  QueueInv'
<1>a. Types /\ QueueInv /\ MapperInv BY DEF IInv
<1>b. queue.new \in Seq(Task) /\ queue.curr \in Seq(Task) BY <1>a DEF Types
<1>c. \A s \in {queue.new, queue.curr} : \A i \in DOMAIN s : s[i] \in Task BY <1>b
<1>1. ASSUME queue' = queue, NEW u \in Task, NEW p, place[u] # "spawned", place' = [place EXCEPT ![u] = p]
      PROVE  QueueInv'
  <2>1. \A t \in Task : place[t] = "spawned" => place'[t] = "spawned" BY <1>a, <1>1 DEF Types
  <2> QED BY <1>a, <1>c, <1>1, <2>1 DEF QueueInv
<1>2. CASE UNCHANGED <<queue, place>>
  BY <1>a, <1>2 DEF QueueInv
<1>3. ASSUME NEW t \in Task, Spawn(t) PROVE QueueInv'
  <2>1. place[t] # "spawned" /\ place' = [place EXCEPT ![t] = "spawned"]
        /\ queue' = [queue EXCEPT !.new = <<t>> \o @]
    BY <1>3 DEF Spawn
  <2> QED BY <1>a, <2>1, PutLeft
<1>4. ASSUME NEW t \in Task, Launch(t) PROVE QueueInv'
  BY <1>1, <1>4 DEF Launch
<1>5. ASSUME NEW t \in Task, Suspend(t) \/ Complete(t) PROVE QueueInv'
  <2>1. PICK p : FinishRun(t, p) BY <1>5 DEF Suspend, Complete
  <2> QED BY <1>1, <2>1 DEF FinishRun
<1>6. CASE BeginMapping
  <2>1. CASE UNCHANGED queue BY <1>2, <1>6, <2>1 DEF BeginMapping
  <2>2. CASE queue' = [new |-> <<>>, curr |-> queue.curr \o queue.new]
    <3> DEFINE s == queue.curr
               u == queue.new
               c == s \o u
    <3>1. \A i \in DOMAIN c : \/ i \in DOMAIN s /\ c[i] = s[i]
                              \/ i \notin DOMAIN s /\ i - Len(s) \in DOMAIN u /\ c[i] = u[i - Len(s)]
      <4>1. CASE Task = {}
        <5>1. s = <<>> /\ u = <<>> BY <1>b, <4>1
        <5> QED BY <5>1
      <4>2. CASE Task # {}
        <5>1. PICK t \in Task : TRUE BY <4>2
        <5> QED BY <1>b, <5>1, Sequences
      <4> QED BY <4>1, <4>2
    <3>a. c \in Seq(Task) BY <1>b
    <3>b. queue' = [new |-> <<>>, curr |-> c] BY <2>2
    <3> HIDE DEF c
    <3>c. queue'.new = <<>> /\ queue'.curr = c BY ONLY <3>b
    <3>d. place' = place BY <1>6 DEF BeginMapping
    <3>2. queue'.new = <<>> /\ queue'.curr = c /\ place' = place BY <3>c, <3>d
    <3>3. Len(s) \in Nat /\ DOMAIN c \subseteq Nat BY <1>b, <3>a
    <3>4. ASSUME NEW i \in DOMAIN c
          PROVE  place[c[i]] = "spawned" /\ \A j \in DOMAIN c : c[i] = c[j] => i = j
      <4>1. place[c[i]] = "spawned" BY <1>a, <3>1 DEF QueueInv
      <4>2. ASSUME NEW j \in DOMAIN c, c[i] = c[j] PROVE i = j
        <5>1. CASE i \in DOMAIN s /\ j \in DOMAIN s
          <6>1. c[i] = s[i] /\ c[j] = s[j] BY <3>1, <5>1
          <6> QED BY <1>a, <4>2, <5>1, <6>1 DEF QueueInv
        <5>2. CASE i \notin DOMAIN s /\ j \notin DOMAIN s
          <6>1. i - Len(s) \in DOMAIN u /\ c[i] = u[i - Len(s)] BY <3>1, <5>2
          <6>2. j - Len(s) \in DOMAIN u /\ c[j] = u[j - Len(s)] BY <3>1, <5>2
          <6>3. i - Len(s) = j - Len(s) BY <1>a, <4>2, <6>1, <6>2 DEF QueueInv
          <6> QED BY <3>3, <6>3
        <5>3. CASE i \in DOMAIN s /\ j \notin DOMAIN s
          <6>1. c[i] = s[i] BY <3>1, <5>3
          <6>2. j - Len(s) \in DOMAIN u /\ c[j] = u[j - Len(s)] BY <3>1, <5>3
          <6>3. u[j - Len(s)] # s[i] BY <1>a, <5>3, <6>2 DEF QueueInv
          <6> QED BY <4>2, <6>1, <6>2, <6>3
        <5>4. CASE i \notin DOMAIN s /\ j \in DOMAIN s
          <6>1. c[j] = s[j] BY <3>1, <5>4
          <6>2. i - Len(s) \in DOMAIN u /\ c[i] = u[i - Len(s)] BY <3>1, <5>4
          <6> QED BY <1>a, <4>2, <5>4, <6>1, <6>2 DEF QueueInv
        <5> QED BY <5>1, <5>2, <5>3, <5>4
      <4> QED BY <4>1, <4>2
    <3>5. DOMAIN <<>> = {} OBVIOUS
    <3> QED BY <3>2, <3>4, <3>5 DEF QueueInv
  <2> QED BY <1>6, <2>1, <2>2 DEF BeginMapping
<1>7. CASE PolicyBegins
  <2> DEFINE s == queue.curr
             t == Last(s)
  <2>3. /\ t \in Task /\ Len(s) \in DOMAIN s /\ t = s[Len(s)]
        /\ \A i \in DOMAIN Front(s) : i \in DOMAIN s /\ Front(s)[i] = s[i] /\ i # Len(s)
    BY <1>a, <1>7, NextIsSpawned
  <2>4. place' = [place EXCEPT ![t] = "mapping"] /\ queue' = [queue EXCEPT !.curr = Front(s)]
    BY <1>7 DEF PolicyBegins
  <2> HIDE DEF t
  <2>5. queue'.new = queue.new /\ queue'.curr = Front(s) BY <1>a, <2>4 DEF Types
  <2>6. \A u \in Task : u # t => place'[u] = place[u] BY <1>a, <2>4 DEF Types
  <2>7. ASSUME NEW i \in DOMAIN Front(s)
        PROVE  /\ place'[Front(s)[i]] = "spawned"
               /\ \A j \in DOMAIN Front(s) : Front(s)[i] = Front(s)[j] => i = j
               /\ \A j \in DOMAIN queue.new : queue.new[j] # Front(s)[i]
    <3>1. i \in DOMAIN s /\ Front(s)[i] = s[i] /\ s[i] # t /\ s[i] \in Task
      BY <1>a, <1>c, <2>3 DEF QueueInv
    <3> QED BY <1>a, <2>3, <2>6, <3>1 DEF QueueInv
  <2>8. ASSUME NEW i \in DOMAIN queue.new
        PROVE  /\ place'[queue.new[i]] = "spawned"
               /\ \A j \in DOMAIN queue.new : queue.new[i] = queue.new[j] => i = j
    <3>1. queue.new[i] # t /\ queue.new[i] \in Task BY <1>a, <1>c, <2>3 DEF QueueInv
    <3> QED BY <1>a, <2>6, <3>1 DEF QueueInv
  <2> QED BY <2>5, <2>7, <2>8 DEF QueueInv
<1>8. CASE AssignmentFails
  <2>1. mapper.task \in Task /\ place[mapper.task] # "spawned"
    BY <1>a, <1>8 DEF AssignmentFails, MapperInv, Busy
  <2>2. place' = [place EXCEPT ![mapper.task] = "spawned"]
        /\ queue' = [queue EXCEPT !.new = <<mapper.task>> \o @]
    BY <1>8 DEF AssignmentFails
  <2> QED BY <1>a, <2>1, <2>2, PutLeft
<1>9. CASE Mapped
  <2>1. mapper.task \in Task /\ place[mapper.task] # "spawned"
    BY <1>a, <1>9 DEF Mapped, MapperInv, Busy
  <2> QED BY <1>1, <1>9, <2>1 DEF Mapped
<1>10. \/ UNCHANGED <<queue, place>> \/ BeginMapping \/ PolicyBegins \/ AssignmentFails \/ Mapped
       \/ \E t \in Task : Spawn(t) \/ Launch(t) \/ Suspend(t) \/ Complete(t)
  BY DEF Next, TaskStep, MapperStep, Track, MoveEnds, MappingEnds, Consider, ConstructMoves, Register,
         CountMapped, Allocate, vars
<1> QED BY <1>2, <1>3, <1>4, <1>5, <1>6, <1>7, <1>8, <1>9, <1>10

\* An array stays known to the pool.
LEMMA TrackedStays ==
  ASSUME Types, [Next]_vars, NEW a \in Array, Tracked(a)
  PROVE  Tracked(a)'
<1>1. ASSUME NEW x \in Array, Track(x) PROVE Tracked(a)'
  <2>1. x # a /\ tracker' = [tracker EXCEPT ![x] = [on |-> {Home[x]}, nbytes |-> Bytes(x)]]
    BY <1>1 DEF Track
  <2>2. tracker'[a] = tracker[a] BY <2>1 DEF Types
  <2> QED BY <2>2 DEF Tracked
<1>2. ASSUME NEW x \in Array, Register(x) PROVE Tracked(a)'
  <2>1. tracker' = [tracker EXCEPT ![x].on = @ \cup {mapper.best}] BY <1>2 DEF Register
  <2>2. tracker[a].on \subseteq tracker'[a].on BY <2>1 DEF Types
  <2> QED BY <2>2 DEF Tracked
<1>3. ASSUME NEW t \in Task, Suspend(t) \/ Complete(t) PROVE Tracked(a)'
  <2>1. tracker' = [x \in Array |-> IF x \in Filled(t) THEN [tracker[x] EXCEPT !.nbytes = Size[x]] ELSE tracker[x]]
    BY <1>3 DEF Suspend, Complete, FinishRun
  <2>2. tracker'[a].on = tracker[a].on BY <2>1 DEF Types
  <2> QED BY <2>2 DEF Tracked
<1>4. CASE UNCHANGED tracker BY <1>4 DEF Tracked
<1>5. \/ UNCHANGED tracker \/ \E x \in Array : Track(x) \/ Register(x)
      \/ \E t \in Task : Suspend(t) \/ Complete(t)
  BY DEF Next, TaskStep, MapperStep, Spawn, MoveEnds, Launch, BeginMapping, PolicyBegins, MappingEnds,
         Consider, AssignmentFails, ConstructMoves, CountMapped, Allocate, Mapped, vars
<1> QED BY <1>1, <1>2, <1>3, <1>4, <1>5

LEMMA NextTaskInv ==
  ASSUME IInv, [Next]_vars, NEW t \in Task
  PROVE  TaskInv(t)'
<1>a. Types /\ QueueInv /\ MapperInv /\ (\A u \in Task : TaskInv(u)) BY DEF IInv
<1>t. Types BY <1>a
<1>i. TaskInv(t) BY <1>a
\* The operands: they stay known, and a task is spawned after they are.
<1>1. place'[t] # "unspawned" => \A a \in Uses[t] \cup Out[t] : Tracked(a)'
  <2>1. Uses[t] \cup Out[t] \subseteq Array BY Constants
  <2>2. ASSUME NEW a \in Uses[t] \cup Out[t], place'[t] # "unspawned" PROVE Tracked(a)
    <3>1. CASE place[t] # "unspawned" BY <1>i, <3>1 DEF TaskInv
    <3>2. CASE place[t] = "unspawned"
      <4>1. \/ \E u \in Task : place[u] # "unspawned" /\ \E p : place' = [place EXCEPT ![u] = p]
            \/ place' = place \/ \E v \in Task : Spawn(v)
        <5>1. \A u \in Task : mapper.task = u => (Busy => place[u] # "unspawned") BY <1>a DEF MapperInv
        <5>2. PolicyBegins => Last(queue.curr) \in Task /\ place[Last(queue.curr)] # "unspawned" BY <1>a, NextIsSpawned
        <5>3. Busy => mapper.task \in Task BY <1>a DEF MapperInv
        <5> DEFINE Known(u) == u \in Task /\ place[u] # "unspawned" /\ \E p : place' = [place EXCEPT ![u] = p]
        <5>4. ASSUME NEW u \in Task, Launch(u) \/ Suspend(u) \/ Complete(u) PROVE Known(u)
          BY <5>4 DEF Launch, Suspend, Complete, FinishRun
        <5>5. ASSUME PolicyBegins PROVE Known(Last(queue.curr)) BY <5>2, <5>5 DEF PolicyBegins
        <5>6. ASSUME AssignmentFails \/ Mapped PROVE Known(mapper.task)
          BY <5>1, <5>3, <5>6 DEF AssignmentFails, Mapped, Busy
        <5>7. place' = place \/ (\E v \in Task : Spawn(v) \/ Launch(v) \/ Suspend(v) \/ Complete(v))
              \/ PolicyBegins \/ AssignmentFails \/ Mapped
          BY DEF Next, TaskStep, MapperStep, Track, MoveEnds, BeginMapping, MappingEnds, Consider,
                 ConstructMoves, Register, CountMapped, Allocate, vars
        <5> QED BY <5>4, <5>5, <5>6, <5>7
      <4>2. CASE \E u \in Task : place[u] # "unspawned" /\ \E p : place' = [place EXCEPT ![u] = p]
        BY <1>t, <2>2, <3>2, <4>2 DEF Types
      <4>3. ASSUME NEW v \in Task, Spawn(v) PROVE Tracked(a)
        <5>1. v = t BY <1>t, <2>2, <3>2, <4>3 DEF Spawn, Types
        <5> QED BY <4>3, <5>1 DEF Spawn
      <4> QED BY <2>2, <3>2, <4>1, <4>2, <4>3
    <3> QED BY <3>1, <3>2
  <2> QED BY <1>t, <2>1, <2>2, TrackedStays
\* The rest, step by step.
<1> DEFINE Rest == /\ place'[t] \in {"unspawned", "spawned"} => dev'[t] = None
                   /\ place'[t] \in {"unspawned", "spawned", "mapping"} => t \notin resumed'
                   /\ place'[t] = "mapping" => Busy' /\ t = mapper'.task
                   /\ place'[t] \in {"mapped", "running", "done"} => dev'[t] \in Placement[t]
                   /\ moving'[t] <= Cardinality(Uses[t]) + Cardinality(Out[t])
<1>m. moving[t] <= Cardinality(Uses[t]) + Cardinality(Out[t]) /\ moving[t] \in Nat BY <1>i, <1>t DEF TaskInv, Types
<1>n. Cardinality(Uses[t]) + Cardinality(Out[t]) \in Nat
  <2>1. IsFiniteSet(Uses[t]) /\ IsFiniteSet(Out[t]) BY Constants, FS_Subset
  <2> QED BY <2>1, FS_CardinalityType
<1>d. DOMAIN mapper = DOMAIN Idle /\ DOMAIN place = Task /\ DOMAIN dev = Task /\ DOMAIN moving = Task
  BY <1>t DEF Types
<1>2. ASSUME UNCHANGED <<place, dev, resumed, mapper, moving>> PROVE Rest
  BY <1>i, <1>2 DEF TaskInv, Busy
<1>3. ASSUME NEW u \in Task, Spawn(u) PROVE Rest
  BY <1>i, <1>d, <1>m, <1>3 DEF TaskInv, Busy, Spawn
<1>4. ASSUME NEW u \in Task, MoveEnds(u) PROVE Rest
  <2>1. moving' = [moving EXCEPT ![u] = @ - 1] /\ UNCHANGED <<place, dev, resumed, mapper>> BY <1>4 DEF MoveEnds
  <2>2. moving'[t] <= moving[t] /\ moving'[t] \in Int BY <1>d, <1>m, <2>1
  <2>3. moving'[t] <= Cardinality(Uses[t]) + Cardinality(Out[t]) BY <1>m, <1>n, <2>2
  <2> QED BY <1>i, <2>1, <2>3 DEF TaskInv, Busy
<1>5. ASSUME NEW u \in Task, Launch(u) PROVE Rest
  <2>1. place[u] = "mapped" /\ place' = [place EXCEPT ![u] = "running"]
        /\ UNCHANGED <<dev, resumed, mapper, moving>>
    BY <1>5 DEF Launch
  <2> QED BY <1>i, <1>d, <1>m, <2>1 DEF TaskInv, Busy
<1>6. ASSUME NEW u \in Task, Suspend(u) \/ Complete(u) PROVE Rest
  <2>1. PICK p \in {"mapped", "done"} : FinishRun(u, p) BY <1>6 DEF Suspend, Complete
  <2>2. place[u] = "running" /\ place' = [place EXCEPT ![u] = p] /\ UNCHANGED <<dev, mapper, moving>>
    BY <2>1 DEF FinishRun
  <2>3. resumed' \subseteq resumed \cup {u} BY <1>6 DEF Suspend, Complete
  <2> QED BY <1>i, <1>d, <1>m, <2>2, <2>3 DEF TaskInv, Busy
<1>7. ASSUME BeginMapping \/ MappingEnds PROVE Rest
  <2>1. ~Busy BY <1>7 DEF BeginMapping, MappingEnds, Busy
  <2>2. place[t] # "mapping" BY <1>i, <2>1 DEF TaskInv
  <2>3. UNCHANGED <<place, dev, resumed, moving>> BY <1>7 DEF BeginMapping, MappingEnds
  <2> QED BY <1>i, <2>2, <2>3 DEF TaskInv
<1>8. ASSUME PolicyBegins PROVE Rest
  <2> DEFINE u == Last(queue.curr)
  <2>1. /\ place' = [place EXCEPT ![u] = "mapping"] /\ mapper'.pc = "policy" /\ mapper'.task = u
        /\ UNCHANGED <<dev, resumed, moving>>
    BY <1>8, <1>d, MapperAfter DEF PolicyBegins
  <2>2. place[u] = "spawned" BY <1>a, <1>8, NextIsSpawned
  <2>3. place[t] # "mapping" BY <1>8, <1>i DEF PolicyBegins, TaskInv, Busy
  <2> HIDE DEF u
  <2>4. CASE t = u BY <1>i, <1>d, <1>m, <2>1, <2>2, <2>4 DEF TaskInv, Busy
  <2>5. CASE t # u BY <1>i, <1>d, <1>m, <2>1, <2>3, <2>5 DEF TaskInv, Busy
  <2> QED BY <2>4, <2>5
<1>9. ASSUME \E d \in Dev : Consider(d) PROVE Rest
  <2>1. UNCHANGED <<place, dev, resumed, moving>> BY <1>9 DEF Consider
  <2>2. mapper'.pc = mapper.pc /\ mapper'.task = mapper.task BY <1>9, <1>d, MapperAfter
  <2> QED BY <1>i, <2>1, <2>2 DEF TaskInv, Busy
<1>10. ASSUME AssignmentFails PROVE Rest
  <2>1. /\ place' = [place EXCEPT ![mapper.task] = "spawned"] /\ UNCHANGED <<dev, resumed, moving>>
        /\ mapper.task \in Task /\ dev[mapper.task] = None /\ place[mapper.task] = "mapping"
    BY <1>a, <1>10 DEF AssignmentFails, MapperInv, Busy
  <2>2. CASE t = mapper.task BY <1>i, <1>d, <1>m, <2>1, <2>2 DEF TaskInv
  <2>3. CASE t # mapper.task BY <1>i, <1>d, <1>m, <2>1, <2>3 DEF TaskInv
  <2> QED BY <2>2, <2>3
<1>11. ASSUME ConstructMoves PROVE Rest
  <2>1. mapper'.pc = "register" /\ mapper'.task = mapper.task BY <1>11, <1>d, MapperAfter
  <2>2. /\ dev' = [dev EXCEPT ![mapper.task] = mapper.best] /\ UNCHANGED <<place, resumed>>
        /\ moving' = [moving EXCEPT ![mapper.task] = Cardinality(Uses[mapper.task]) + Cardinality(Out[mapper.task])]
        /\ place[mapper.task] = "mapping"
    BY <1>a, <1>11 DEF ConstructMoves, MapperInv, Busy
  <2>3. CASE t = mapper.task
    <3>1. moving'[t] = Cardinality(Uses[t]) + Cardinality(Out[t]) BY <1>d, <2>2, <2>3
    <3>2. moving'[t] <= Cardinality(Uses[t]) + Cardinality(Out[t]) BY <1>n, <3>1
    <3> QED BY <1>i, <2>1, <2>2, <2>3, <3>2 DEF TaskInv, Busy
  <2>4. CASE t # mapper.task
    <3>1. dev'[t] = dev[t] /\ moving'[t] = moving[t] BY <1>d, <2>2, <2>4
    <3> QED BY <1>i, <2>1, <2>2, <2>4, <3>1 DEF TaskInv, Busy
  <2> QED BY <2>3, <2>4
<1>12. ASSUME (\E a \in Array : Register(a)) \/ CountMapped \/ Allocate PROVE Rest
  <2>1. UNCHANGED <<place, dev, resumed, moving>> BY <1>12 DEF Register, CountMapped, Allocate
  <2>2. mapper'.task = mapper.task /\ (Busy => Busy')
    <3>1. CASE \E a \in Array : Register(a) BY <3>1, <1>d, MapperAfter DEF Busy
    <3>2. CASE CountMapped BY <3>2, <1>d, MapperAfter DEF Busy
    <3>3. CASE Allocate BY <3>3, <1>d, MapperAfter DEF Busy
    <3> QED BY <1>12, <3>1, <3>2, <3>3
  <2> QED BY <1>i, <2>1, <2>2 DEF TaskInv
<1>13. ASSUME Mapped PROVE Rest
  <2>1. /\ place' = [place EXCEPT ![mapper.task] = "mapped"] /\ UNCHANGED <<dev, resumed, moving>>
        /\ dev[mapper.task] \in Placement[mapper.task] /\ mapper.task \in Task
    BY <1>a, <1>13 DEF Mapped, MapperInv, Busy
  <2>2. CASE t = mapper.task BY <1>i, <1>d, <1>m, <2>1, <2>2 DEF TaskInv
  <2>3. CASE t # mapper.task BY <1>i, <1>d, <1>m, <2>1, <2>3 DEF TaskInv
  <2> QED BY <2>2, <2>3
<1> HIDE DEF Rest
<1>14. \/ UNCHANGED <<place, dev, resumed, mapper, moving>> \/ BeginMapping \/ MappingEnds \/ PolicyBegins
       \/ (\E d \in Dev : Consider(d)) \/ AssignmentFails \/ ConstructMoves
       \/ (\E a \in Array : Register(a)) \/ CountMapped \/ Allocate \/ Mapped
       \/ \E u \in Task : Spawn(u) \/ MoveEnds(u) \/ Launch(u) \/ Suspend(u) \/ Complete(u)
  BY DEF Next, TaskStep, MapperStep, Track, vars
<1>15. Rest
  BY <1>2, <1>3, <1>4, <1>5, <1>6, <1>7, <1>8, <1>9, <1>10, <1>11, <1>12, <1>13, <1>14
<1> QED BY <1>1, <1>15 DEF Rest, TaskInv

LEMMA NextMapperInv ==
  ASSUME IInv, [Next]_vars
  PROVE  MapperInv'
<1>a. Types /\ QueueInv /\ MapperInv /\ (\A u \in Task : TaskInv(u)) BY DEF IInv
<1>d. DOMAIN mapper = DOMAIN Idle /\ DOMAIN place = Task /\ DOMAIN dev = Task BY <1>a DEF Types
<1>n. None \notin Dev /\ Placement \in [Task -> SUBSET Dev] BY Constants
<1>1. ASSUME mapper' = mapper PROVE MapperInv'
  <2>1. ASSUME Busy PROVE place'[mapper.task] = "mapping" /\ dev'[mapper.task] = dev[mapper.task]
    <3>1. place[mapper.task] = "mapping" /\ mapper.task \in Task BY <1>a, <2>1 DEF MapperInv
    <3>2. CASE UNCHANGED <<place, dev>> BY <3>1, <3>2
    <3>3. ASSUME NEW t \in Task, Spawn(t) \/ Launch(t) \/ MoveEnds(t) \/ Suspend(t) \/ Complete(t)
          PROVE  place'[mapper.task] = "mapping" /\ dev'[mapper.task] = dev[mapper.task]
      <4>1. dev' = dev BY <3>3 DEF Spawn, Launch, MoveEnds, Suspend, Complete, FinishRun
      <4>2. place' = place \/ (place[t] # "mapping" /\ \E p : place' = [place EXCEPT ![t] = p])
        BY <3>3 DEF Spawn, Launch, MoveEnds, Suspend, Complete, FinishRun
      <4> QED BY <1>d, <3>1, <4>1, <4>2
    <3>4. ASSUME MapperStep PROVE UNCHANGED <<place, dev>>
      <4>1. mapper' # mapper
        <5>1. ASSUME BeginMapping PROVE mapper' # mapper BY <1>d, <5>1, MapperAfter DEF BeginMapping
        <5>2. ASSUME PolicyBegins PROVE mapper' # mapper BY <1>d, <5>2, MapperAfter DEF PolicyBegins
        <5>3. ASSUME MappingEnds \/ AssignmentFails PROVE mapper' # mapper
          BY <1>d, <5>3, MapperAfter, MapperFields DEF MappingEnds, AssignmentFails
        <5>4. ASSUME NEW d \in Dev, Consider(d) PROVE mapper' # mapper
          BY <1>d, <5>4, MapperAfter DEF Consider
        <5>5. ASSUME ConstructMoves PROVE mapper' # mapper BY <1>d, <5>5, MapperAfter DEF ConstructMoves
        <5>6. ASSUME NEW a \in Array, Register(a) PROVE mapper' # mapper
          BY <1>d, <5>6, MapperAfter DEF Register
        <5>7. ASSUME CountMapped PROVE mapper' # mapper BY <1>d, <5>7, MapperAfter DEF CountMapped
        <5>8. ASSUME Allocate PROVE mapper' # mapper
          <6>1. mapper.taken \in Int BY <1>a DEF Types
          <6> QED BY <1>d, <5>8, <6>1, MapperAfter
        <5>9. ASSUME Mapped PROVE mapper' # mapper BY <1>d, <5>9, MapperAfter DEF Mapped
        <5> QED BY <3>4, <5>1, <5>2, <5>3, <5>4, <5>5, <5>6, <5>7, <5>8, <5>9 DEF MapperStep
      <4> QED BY <1>1, <4>1
    <3>5. \/ UNCHANGED <<place, dev>> \/ MapperStep
          \/ \E t \in Task : Spawn(t) \/ Launch(t) \/ MoveEnds(t) \/ Suspend(t) \/ Complete(t)
      BY DEF Next, TaskStep, Track, vars
    <3> QED BY <3>2, <3>3, <3>4, <3>5
  <2> QED BY <1>a, <1>1, <2>1 DEF MapperInv, Busy
<1>2. ASSUME BeginMapping PROVE MapperInv'
  <2>1. mapper'.pc = "loop" /\ mapper'.taken = 0 /\ mapper'.best = None
    BY <1>a, <1>d, <1>2, MapperAfter DEF BeginMapping, MapperInv, Busy
  <2> QED BY <2>1 DEF MapperInv, Busy
<1>3. ASSUME PolicyBegins PROVE MapperInv'
  <2> DEFINE t == Last(queue.curr)
  <2>1. /\ mapper'.pc = "policy" /\ mapper'.task = t /\ mapper'.todo = Placement[t]
        /\ mapper'.taken = 0 /\ mapper'.best = None
    BY <1>a, <1>d, <1>3, MapperAfter DEF PolicyBegins, MapperInv, Busy
  <2>2. place[t] = "spawned" /\ t \in Task BY <1>a, <1>3, NextIsSpawned
  <2>3. place' = [place EXCEPT ![t] = "mapping"] /\ dev' = dev BY <1>3 DEF PolicyBegins
  <2>4. dev[t] = None BY <1>a, <2>2 DEF TaskInv
  <2> HIDE DEF t
  <2> QED BY <1>d, <2>1, <2>2, <2>3, <2>4 DEF MapperInv, Busy
<1>4. ASSUME MappingEnds \/ AssignmentFails PROVE MapperInv'
  <2>1. mapper' = Idle BY <1>d, <1>4, MapperAfter
  <2> QED BY <2>1, MapperFields DEF MapperInv, Busy
<1>5. ASSUME NEW d \in Dev, Consider(d) PROVE MapperInv'
  <2>1. /\ mapper.pc = "policy" /\ d \in mapper.todo /\ UNCHANGED <<place, dev>>
        /\ mapper'.pc = mapper.pc /\ mapper'.task = mapper.task /\ mapper'.taken = mapper.taken
        /\ mapper'.todo = mapper.todo \ {d} /\ mapper'.best \in {mapper.best, d}
    BY <1>d, <1>5, MapperAfter DEF Consider
  <2> QED BY <1>a, <2>1 DEF MapperInv, Busy
<1>6. ASSUME ConstructMoves PROVE MapperInv'
  <2>1. /\ mapper.pc = "policy" /\ mapper.best # None /\ UNCHANGED place
        /\ dev' = [dev EXCEPT ![mapper.task] = mapper.best]
        /\ mapper'.pc = "register" /\ mapper'.task = mapper.task /\ mapper'.taken = mapper.taken
        /\ mapper'.todo = Uses[mapper.task] \cup Out[mapper.task] /\ mapper'.best = mapper.best
    BY <1>d, <1>6, MapperAfter DEF ConstructMoves
  <2> QED BY <1>a, <1>d, <2>1 DEF MapperInv, Busy
<1>7. ASSUME NEW a \in Array, Register(a) PROVE MapperInv'
  <2>1. /\ mapper.pc = "register" /\ UNCHANGED <<place, dev>>
        /\ mapper'.pc = mapper.pc /\ mapper'.task = mapper.task /\ mapper'.taken = mapper.taken
        /\ mapper'.todo = mapper.todo \ {a} /\ mapper'.best = mapper.best
    BY <1>d, <1>7, MapperAfter DEF Register
  <2> QED BY <1>a, <2>1 DEF MapperInv, Busy
<1>8. ASSUME CountMapped \/ Allocate PROVE MapperInv'
  <2>1. /\ mapper.pc \in {"register", "allocate"} /\ UNCHANGED <<place, dev>>
        /\ mapper'.pc = "allocate" /\ mapper'.task = mapper.task /\ mapper'.best = mapper.best
    BY <1>d, <1>8, MapperAfter DEF CountMapped, Allocate
  <2> QED BY <1>a, <2>1 DEF MapperInv, Busy
<1>9. ASSUME Mapped PROVE MapperInv'
  <2>1. mapper'.pc = "loop" /\ mapper'.taken = 0 /\ mapper'.best = None BY <1>d, <1>9, MapperAfter
  <2> QED BY <2>1 DEF MapperInv, Busy
<1> QED BY <1>1, <1>2, <1>3, <1>4, <1>5, <1>6, <1>7, <1>8, <1>9, MapperFrame DEF MapperStep

LEMMA NextTrackerInv ==
  ASSUME Fitting, IInv, [Next]_vars, NEW a \in Array
  PROVE  TrackerInv(a)'
<1>a. Types /\ MapperInv /\ (\A x \in Array : TrackerInv(x)) BY DEF IInv
<1>d. DOMAIN tracker = Array /\ tracker[a].on \subseteq Dev /\ tracker[a].nbytes \in Nat
      /\ DOMAIN tracker[a] = {"on", "nbytes"}
  BY <1>a DEF Types
<1>i. TrackerInv(a) BY <1>a
<1>b. Bytes(a) \in Nat /\ Size[a] \in Nat BY <1>a, BytesAtMost, Constants
<1>1. ASSUME NEW x \in Array, Track(x) PROVE TrackerInv(a)'
  <2>1. tracker' = [tracker EXCEPT ![x] = [on |-> {Home[x]}, nbytes |-> Bytes(x)]] BY <1>1 DEF Track
  <2>2. CASE x = a
    <3>1. tracker'[a].on = {Home[a]} /\ tracker'[a].nbytes = Bytes(a) BY <1>d, <2>1, <2>2
    <3> QED BY <1>i, <3>1 DEF TrackerInv, Tracked, Bytes
  <2>3. CASE x # a
    <3>1. tracker'[a] = tracker[a] BY <1>d, <2>1, <2>3
    <3> QED BY <1>i, <3>1 DEF TrackerInv, Tracked
  <2> QED BY <2>2, <2>3
<1>2. ASSUME NEW x \in Array, Register(x) PROVE TrackerInv(a)'
  <2>1. tracker' = [tracker EXCEPT ![x].on = @ \cup {mapper.best}] /\ mapper.pc = "register" /\ x \in mapper.todo
    BY <1>2 DEF Register
  <2>2. CASE x = a
    <3>1. tracker'[a].on = tracker[a].on \cup {mapper.best} /\ tracker'[a].nbytes = tracker[a].nbytes
      BY <1>d, <2>1, <2>2
    <3>2. mapper.best \in Placement[mapper.task] /\ a \in Uses[mapper.task] \cup Out[mapper.task]
          /\ mapper.task \in Task /\ place[mapper.task] = "mapping"
      BY <1>a, <2>1, <2>2 DEF MapperInv, Busy
    <3>3. Tracked(a) BY <3>2 DEF IInv, TaskInv
    <3>4. a \in Empty => mapper.best = Home[a] BY <3>2 DEF Fitting
    <3> QED BY <1>i, <3>1, <3>3, <3>4 DEF TrackerInv, Tracked
  <2>3. CASE x # a
    <3>1. tracker'[a] = tracker[a] BY <1>d, <2>1, <2>3
    <3> QED BY <1>i, <3>1 DEF TrackerInv, Tracked
  <2> QED BY <2>2, <2>3
<1>3. ASSUME NEW t \in Task, Suspend(t) \/ Complete(t) PROVE TrackerInv(a)'
  <2>1. tracker' = [x \in Array |-> IF x \in Filled(t) THEN [tracker[x] EXCEPT !.nbytes = Size[x]] ELSE tracker[x]]
    BY <1>3 DEF Suspend, Complete, FinishRun
  <2>2. tracker'[a].on = tracker[a].on /\ tracker'[a].nbytes \in {tracker[a].nbytes, Size[a]}
    BY <1>d, <2>1
  <2> QED BY <1>i, <2>2 DEF TrackerInv, Tracked
<1>4. ASSUME UNCHANGED tracker PROVE TrackerInv(a)' BY <1>i, <1>4 DEF TrackerInv, Tracked
<1>5. \/ UNCHANGED tracker \/ \E x \in Array : Track(x) \/ Register(x)
      \/ \E t \in Task : Suspend(t) \/ Complete(t)
  BY DEF Next, TaskStep, MapperStep, Spawn, MoveEnds, Launch, BeginMapping, PolicyBegins, MappingEnds,
         Consider, AssignmentFails, ConstructMoves, CountMapped, Allocate, Mapped, vars
<1> QED BY <1>1, <1>2, <1>3, <1>4, <1>5

LEMMA NextLaunchedExact ==
  ASSUME IInv, [Next]_vars
  PROVE  LaunchedExact'
<1> DEFINE Running(d) == {t \in Task : place[t] = "running" /\ dev[t] = d}
<1>a. Types /\ QueueInv /\ MapperInv /\ (\A u \in Task : TaskInv(u)) BY DEF IInv
<1>d. /\ DOMAIN place = Task /\ DOMAIN dev = Task /\ launched \in [Dev -> Int]
      /\ \A d \in Dev : launched[d] = Cardinality(Running(d))
      /\ \A d \in Dev : IsFiniteSet(Running(d)) /\ Cardinality(Running(d)) \in Nat
  <2>1. \A d \in Dev : IsFiniteSet(Running(d)) BY Constants, FS_Subset
  <2>2. \A d \in Dev : Cardinality(Running(d)) \in Nat BY <2>1, FS_CardinalityType
  <2>3. \A d \in Dev : launched[d] = Cardinality(Running(d)) BY DEF IInv, LaunchedExact
  <2> QED BY <1>a, <2>1, <2>2, <2>3 DEF Types
<1>1. ASSUME NEW t \in Task, Launch(t) PROVE LaunchedExact'
  <2>1. /\ place[t] = "mapped" /\ place' = [place EXCEPT ![t] = "running"] /\ dev' = dev
        /\ launched' = [launched EXCEPT ![dev[t]] = @ + 1]
    BY <1>1 DEF Launch
  <2>2. dev[t] \in Dev BY <1>a, <2>1, Constants DEF TaskInv
  <2>3. ASSUME NEW d \in Dev PROVE launched'[d] = Cardinality(Running(d)')
    <3>1. CASE d = dev[t]
      <4>1. Running(d)' = Running(d) \cup {t} /\ t \notin Running(d) BY <1>d, <2>1, <3>1
      <4>2. launched'[d] = launched[d] + 1 BY <1>d, <2>1, <2>2, <3>1
      <4>3. Cardinality(Running(d) \cup {t}) = Cardinality(Running(d)) + 1
        <5> DEFINE R == Running(d)
        <5>1. IsFiniteSet(R) /\ (t \notin R) BY <1>d, <4>1
        <5> HIDE DEF R
        <5>2. Cardinality(R \cup {t}) = Cardinality(R) + 1 BY <5>1, FS_AddElement
        <5> QED BY <5>2 DEF R
      <4> QED BY <1>d, <4>1, <4>2, <4>3
    <3>2. CASE d # dev[t]
      <4>1. Running(d)' = Running(d) BY <1>d, <2>1, <3>2
      <4>2. launched'[d] = launched[d] BY <1>d, <2>1, <2>2, <3>2
      <4> QED BY <1>d, <4>1, <4>2
    <3> QED BY <3>1, <3>2
  <2> QED BY <2>3 DEF LaunchedExact
<1>2. ASSUME NEW t \in Task, Suspend(t) \/ Complete(t) PROVE LaunchedExact'
  <2>1. PICK p \in {"mapped", "done"} : FinishRun(t, p) BY <1>2 DEF Suspend, Complete
  <2>2. /\ place[t] = "running" /\ place' = [place EXCEPT ![t] = p] /\ dev' = dev
        /\ launched' = [launched EXCEPT ![dev[t]] = @ - 1]
    BY <2>1 DEF FinishRun
  <2>3. dev[t] \in Dev BY <1>a, <2>2, Constants DEF TaskInv
  <2>4. ASSUME NEW d \in Dev PROVE launched'[d] = Cardinality(Running(d)')
    <3>1. CASE d = dev[t]
      <4>1. Running(d)' = Running(d) \ {t} /\ t \in Running(d) BY <1>d, <2>2, <3>1
      <4>2. launched'[d] = launched[d] - 1 BY <1>d, <2>2, <2>3, <3>1
      <4>3. Cardinality(Running(d) \ {t}) = Cardinality(Running(d)) - 1
        <5> DEFINE R == Running(d)
        <5>1. IsFiniteSet(R) /\ (t \in R) BY <1>d, <4>1
        <5> HIDE DEF R
        <5>2. Cardinality(R \ {t}) = Cardinality(R) - 1 BY <5>1, FS_RemoveElement
        <5> QED BY <5>2 DEF R
      <4> QED BY <1>d, <4>1, <4>2, <4>3
    <3>2. CASE d # dev[t]
      <4>1. Running(d)' = Running(d) BY <1>d, <2>2, <3>2
      <4>2. launched'[d] = launched[d] BY <1>d, <2>2, <2>3, <3>2
      <4> QED BY <1>d, <4>1, <4>2
    <3> QED BY <3>1, <3>2
  <2> QED BY <2>4 DEF LaunchedExact
<1>3. ASSUME launched' = launched,
             \A t \in Task : (place'[t] = "running" <=> place[t] = "running"),
             \A t \in Task : place[t] = "running" => dev'[t] = dev[t]
      PROVE  LaunchedExact'
  <2>1. ASSUME NEW d \in Dev PROVE Running(d)' = Running(d) BY <1>3
  <2> QED BY <1>d, <1>3, <2>1 DEF LaunchedExact
<1>4. ASSUME UNCHANGED <<place, dev, launched>> PROVE LaunchedExact'
  BY <1>3, <1>4
<1>5. ASSUME NEW t \in Task, Spawn(t) PROVE LaunchedExact'
  BY <1>3, <1>5, <1>d DEF Spawn
<1>6. ASSUME PolicyBegins PROVE LaunchedExact'
  <2> DEFINE t == Last(queue.curr)
  <2>1. place[t] = "spawned" BY <1>a, <1>6, NextIsSpawned
  <2>2. place' = [place EXCEPT ![t] = "mapping"] /\ UNCHANGED <<dev, launched>> BY <1>6 DEF PolicyBegins
  <2> HIDE DEF t
  <2> QED BY <1>3, <1>d, <2>1, <2>2
<1>7. ASSUME AssignmentFails \/ Mapped \/ ConstructMoves PROVE LaunchedExact'
  <2>1. mapper.task \in Task /\ place[mapper.task] = "mapping"
    BY <1>a, <1>7 DEF AssignmentFails, Mapped, ConstructMoves, MapperInv, Busy
  <2>2. /\ place' = place \/ (\E p \in {"spawned", "mapped"} : place' = [place EXCEPT ![mapper.task] = p])
        /\ dev' = dev \/ dev' = [dev EXCEPT ![mapper.task] = mapper.best]
        /\ launched' = launched
    BY <1>7 DEF AssignmentFails, Mapped, ConstructMoves
  <2>3. \A t \in Task : (place'[t] = "running" <=> place[t] = "running") BY <1>d, <2>1, <2>2
  <2>4. \A t \in Task : place[t] = "running" => dev'[t] = dev[t] BY <1>d, <2>1, <2>2
  <2> QED BY <1>3, <2>2, <2>3, <2>4
<1>8. \/ UNCHANGED <<place, dev, launched>> \/ PolicyBegins \/ AssignmentFails \/ Mapped \/ ConstructMoves
      \/ \E t \in Task : Spawn(t) \/ Launch(t) \/ Suspend(t) \/ Complete(t)
  BY DEF Next, TaskStep, MapperStep, Track, MoveEnds, BeginMapping, MappingEnds, Consider, Register,
         CountMapped, Allocate, vars
<1> QED BY <1>1, <1>2, <1>4, <1>5, <1>6, <1>7, <1>8

\* HeldIs for one state and for the next.
HeldFacts ==
  \A t \in Task :
    /\ Held(t, "memory") =
         IF \/ place[t] = "mapping" /\ mapper.taken > 0
            \/ place[t] \in {"mapped", "running"} /\ t \notin resumed
         THEN Need[t]["memory"] ELSE 0
    /\ Held(t, "vcus") =
         IF \/ place[t] = "mapping" /\ mapper.taken > 1
            \/ place[t] \in {"mapped", "running"} /\ t \notin resumed
         THEN Need[t]["vcus"] ELSE 0

LEMMA HeldNow == Types => HeldFacts
BY HeldIs DEF HeldFacts

LEMMA HeldNext == Types' => HeldFacts'
BY HeldNow, PTL

Trackers == \A a \in Array : TrackerInv(a)

LEMMA ExactNext == Types' /\ Trackers' => (PoolExact' <=> Charged')
<1>1. Types /\ Trackers => (PoolExact <=> Charged) BY ExactIsCharged DEF Trackers
<1> QED BY <1>1, PTL

\* Only an allocation and the end of a run change what tasks hold.
LEMMA HeldStays ==
  ASSUME IInv, Types', [Next]_vars, ~Allocate, \A u \in Task : ~Suspend(u) /\ ~Complete(u),
         NEW d \in Dev, NEW r \in Names, NEW t \in Task
  PROVE  HeldAt(d, r)'[t] = HeldAt(d, r)[t]
<1>a. Types /\ QueueInv /\ MapperInv /\ (\A u \in Task : TaskInv(u)) BY DEF IInv
<1>d. /\ DOMAIN mapper = DOMAIN Idle /\ DOMAIN place = Task /\ DOMAIN dev = Task
      /\ mapper.taken \in 0 .. 2 /\ Resource[1] = "memory" /\ Resource[2] = "vcus"
  BY <1>a, Constants DEF Types
<1>h. HeldFacts /\ HeldFacts' /\ r \in {"memory", "vcus"} BY <1>a, HeldNow, HeldNext, Constants
<1>e. /\ HeldAt(d, r)[t] = IF dev[t] = d THEN Held(t, r) ELSE 0
      /\ HeldAt(d, r)'[t] = IF dev'[t] = d THEN Held(t, r)' ELSE 0
  BY DEF HeldAt
<1>1. ASSUME UNCHANGED <<place, dev, resumed>>, place[t] = "mapping" => mapper'.taken = mapper.taken
      PROVE  HeldAt(d, r)'[t] = HeldAt(d, r)[t]
  BY <1>h, <1>e, <1>1 DEF HeldFacts
<1>2. ASSUME place'[t] # "mapping", place[t] # "mapping", dev'[t] = dev[t], resumed' = resumed,
             place[t] \in {"mapped", "running"} <=> place'[t] \in {"mapped", "running"}
      PROVE  HeldAt(d, r)'[t] = HeldAt(d, r)[t]
  BY <1>h, <1>e, <1>2 DEF HeldFacts
<1>3. ASSUME UNCHANGED <<place, dev, resumed, mapper>> PROVE HeldAt(d, r)'[t] = HeldAt(d, r)[t]
  BY <1>1, <1>3
<1>4. ASSUME NEW u \in Task, Spawn(u) PROVE HeldAt(d, r)'[t] = HeldAt(d, r)[t]
  <2>1. place[u] = "unspawned" /\ place' = [place EXCEPT ![u] = "spawned"] /\ UNCHANGED <<dev, resumed, mapper>>
    BY <1>4 DEF Spawn
  <2>2. CASE t = u
    <3>1. place[t] = "unspawned" /\ place'[t] = "spawned" BY <1>d, <2>1, <2>2
    <3> QED BY <1>2, <2>1, <3>1
  <2>3. CASE t # u
    <3>1. place'[t] = place[t] BY <1>d, <2>1, <2>3
    <3> QED BY <1>h, <1>e, <2>1, <3>1 DEF HeldFacts
  <2> QED BY <2>2, <2>3
<1>5. ASSUME NEW u \in Task, Launch(u) PROVE HeldAt(d, r)'[t] = HeldAt(d, r)[t]
  <2>1. place[u] = "mapped" /\ place' = [place EXCEPT ![u] = "running"] /\ UNCHANGED <<dev, resumed, mapper>>
    BY <1>5 DEF Launch
  <2>2. CASE t = u
    <3>1. place[t] = "mapped" /\ place'[t] = "running" BY <1>d, <2>1, <2>2
    <3> QED BY <1>2, <2>1, <3>1
  <2>3. CASE t # u
    <3>1. place'[t] = place[t] BY <1>d, <2>1, <2>3
    <3> QED BY <1>h, <1>e, <2>1, <3>1 DEF HeldFacts
  <2> QED BY <2>2, <2>3
<1>6. ASSUME BeginMapping \/ MappingEnds PROVE HeldAt(d, r)'[t] = HeldAt(d, r)[t]
  <2>1. ~Busy /\ UNCHANGED <<place, dev, resumed>> BY <1>6 DEF BeginMapping, MappingEnds, Busy
  <2>2. place[t] # "mapping" BY <1>a, <2>1 DEF TaskInv
  <2> QED BY <1>1, <2>1, <2>2
<1>7. ASSUME PolicyBegins PROVE HeldAt(d, r)'[t] = HeldAt(d, r)[t]
  <2>1. mapper'.taken = 0
    <3>1. mapper'.taken = mapper.taken /\ mapper.pc = "loop" BY <1>d, <1>7, MapperAfter DEF PolicyBegins
    <3> QED BY <1>a, <3>1 DEF MapperInv
  <2> DEFINE u == Last(queue.curr)
  <2>2. place' = [place EXCEPT ![u] = "mapping"] /\ UNCHANGED <<dev, resumed>> BY <1>7 DEF PolicyBegins
  <2>3. place[u] = "spawned" /\ place[t] # "mapping"
    BY <1>a, <1>7, NextIsSpawned DEF PolicyBegins, TaskInv, Busy
  <2> HIDE DEF u
  <2>4. CASE t = u
    <3>1. place[t] = "spawned" /\ place'[t] = "mapping" BY <1>d, <2>2, <2>3, <2>4
    <3>2. Held(t, r) = 0 /\ Held(t, r)' = 0 BY <1>h, <2>1, <3>1 DEF HeldFacts
    <3> QED BY <1>e, <3>2
  <2>5. CASE t # u
    <3>1. place'[t] = place[t] BY <1>d, <2>2, <2>5
    <3> QED BY <1>h, <1>e, <2>2, <2>3, <3>1 DEF HeldFacts
  <2> QED BY <2>4, <2>5
<1>8. ASSUME \E e \in Dev : Consider(e) PROVE HeldAt(d, r)'[t] = HeldAt(d, r)[t]
  <2>1. UNCHANGED <<place, dev, resumed>> /\ mapper'.taken = mapper.taken
    BY <1>d, <1>8, MapperAfter DEF Consider
  <2> QED BY <1>1, <2>1
<1>9. ASSUME (\E a \in Array : Register(a)) \/ CountMapped PROVE HeldAt(d, r)'[t] = HeldAt(d, r)[t]
  <2>1. UNCHANGED <<place, dev, resumed>> BY <1>9 DEF Register, CountMapped
  <2>2. mapper'.taken = mapper.taken BY <1>d, <1>9, MapperAfter
  <2> QED BY <1>1, <2>1, <2>2
<1>10. ASSUME AssignmentFails \/ ConstructMoves PROVE HeldAt(d, r)'[t] = HeldAt(d, r)[t]
  <2>1. /\ mapper.pc = "policy" /\ mapper.task \in Task /\ mapper.taken = 0
        /\ place[mapper.task] = "mapping" /\ resumed' = resumed
    BY <1>a, <1>10 DEF AssignmentFails, ConstructMoves, MapperInv, Busy
  <2>2. mapper'.taken = 0
    <3>1. AssignmentFails => mapper'.taken = 0 BY <1>d, MapperAfter, MapperFields
    <3>2. ConstructMoves => mapper'.taken = mapper.taken BY <1>d, MapperAfter
    <3> QED BY <1>10, <2>1, <3>1, <3>2
  <2>3. /\ place' = place \/ place' = [place EXCEPT ![mapper.task] = "spawned"]
        /\ dev' = dev \/ dev' = [dev EXCEPT ![mapper.task] = mapper.best]
    BY <1>10 DEF AssignmentFails, ConstructMoves
  <2>4. CASE t = mapper.task
    <3>1. place[t] = "mapping" /\ place'[t] \in {"mapping", "spawned"} BY <1>d, <2>1, <2>3, <2>4
    <3>2. Held(t, r) = 0 /\ Held(t, r)' = 0 BY <1>h, <2>1, <2>2, <3>1 DEF HeldFacts
    <3> QED BY <1>e, <3>2
  <2>5. CASE t # mapper.task
    <3>1. place'[t] = place[t] /\ dev'[t] = dev[t] BY <1>d, <2>3, <2>5
    <3>2. place[t] # "mapping" BY <1>a, <2>5 DEF TaskInv
    <3> QED BY <1>h, <1>e, <2>1, <3>1, <3>2 DEF HeldFacts
  <2> QED BY <2>4, <2>5
<1>11. ASSUME Mapped PROVE HeldAt(d, r)'[t] = HeldAt(d, r)[t]
  <2>1. /\ mapper.taken = 2 /\ place' = [place EXCEPT ![mapper.task] = "mapped"]
        /\ UNCHANGED <<dev, resumed>> /\ mapper.task \in Task /\ place[mapper.task] = "mapping"
    BY <1>a, <1>11, Constants DEF Mapped, MapperInv, Busy
  <2>2. CASE t = mapper.task
    <3>1. place[t] = "mapping" /\ place'[t] = "mapped" /\ t \notin resumed'
      BY <1>a, <1>d, <2>1, <2>2 DEF TaskInv
    <3> QED BY <1>h, <1>e, <2>1, <3>1 DEF HeldFacts
  <2>3. CASE t # mapper.task
    <3>1. place'[t] = place[t] BY <1>d, <2>1, <2>3
    <3>2. place[t] # "mapping" BY <1>a, <2>3 DEF TaskInv
    <3> QED BY <1>h, <1>e, <2>1, <3>1, <3>2 DEF HeldFacts
  <2> QED BY <2>2, <2>3
<1>12. \/ UNCHANGED <<place, dev, resumed, mapper>> \/ BeginMapping \/ MappingEnds \/ PolicyBegins
       \/ (\E e \in Dev : Consider(e)) \/ AssignmentFails \/ ConstructMoves
       \/ (\E a \in Array : Register(a)) \/ CountMapped \/ Mapped
       \/ \E u \in Task : Spawn(u) \/ Launch(u)
  BY DEF Next, TaskStep, MapperStep, Track, MoveEnds, vars
<1> QED BY <1>3, <1>4, <1>5, <1>6, <1>7, <1>8, <1>9, <1>10, <1>11, <1>12

\* An array gets a copy on one more device.
LEMMA CopyAdds ==
  ASSUME IInv, NEW a \in Array, NEW d \in Dev, d \notin tracker[a].on,
         \A x \in Array \ {a} : tracker'[x] = tracker[x],
         tracker'[a].on = tracker[a].on \cup {d}, Bytes(a)' = Bytes(a)
  PROVE  \A e \in Dev : SumFunctionOnSet(CopyAt(e)', Array)
                          = SumFunctionOnSet(CopyAt(e), Array) + IF e = d THEN Bytes(a) ELSE 0
<1>1. Types /\ (\A x \in Array : TrackerInv(x)) BY DEF IInv
<1>2. Bytes(a) \in Nat BY <1>1, BytesAtMost
<1> SUFFICES ASSUME NEW e \in Dev
             PROVE  SumFunctionOnSet(CopyAt(e)', Array)
                          = SumFunctionOnSet(CopyAt(e), Array) + IF e = d THEN Bytes(a) ELSE 0
  OBVIOUS
<1> DEFINE f == CopyAt(e)
           h == CopyAt(e)'
<1>3. \A x \in Array : f[x] \in Int BY <1>1, PoolSums
<1>4. \A x \in Array \ {a} : h[x] = f[x] BY DEF CopyAt, Bytes
<1>5. /\ h[a] = IF e \in tracker'[a].on THEN Bytes(a) ELSE 0
      /\ f[a] = IF e \in tracker[a].on THEN Bytes(a) ELSE 0
  BY DEF CopyAt
<1>6. h[a] = f[a] + IF e = d THEN Bytes(a) ELSE 0 BY <1>2, <1>5
<1>7. h[a] \in Int BY <1>2, <1>5
<1>8. IsFiniteSet(Array) BY Constants
<1>9. SumFunctionOnSet(f, Array) \in Int BY <1>1, PoolSums
<1> HIDE DEF f, h
<1>10. SumFunctionOnSet(h, Array) = SumFunctionOnSet(f, Array) - f[a] + h[a]
  <2>1. \A x \in Array : f[x] \in Int /\ h[x] \in Int BY <1>3, <1>4, <1>7
  <2> QED BY <1>4, <1>8, <2>1, SumChanged
<1>11. f[a] \in Int BY <1>3
<1>12. SumFunctionOnSet(h, Array) = SumFunctionOnSet(f, Array) + IF e = d THEN Bytes(a) ELSE 0
  BY <1>2, <1>6, <1>9, <1>10, <1>11
<1> QED BY <1>12 DEF f, h

\* There is memory for a new array, and for a copy that is registered.
LEMMA RoomForOne ==
  ASSUME IInv, NEW d \in Dev, RoomOn(d), NEW a \in Array, d \notin tracker[a].on
  PROVE  Bytes(a) <= avail[d]["memory"]
<1> DEFINE more == [x \in Array |-> IF x = a THEN Bytes(a) ELSE 0]
<1>1. Types /\ (\A x \in Array : TrackerInv(x)) BY DEF IInv
<1>2. Bytes(a) \in Nat /\ Bytes(a) <= Size[a] BY <1>1, BytesAtMost
<1>3. \A x \in Array : more[x] \in Nat /\ CopyAt(d)[x] + more[x] <= Size[x]
  <2>1. \A x \in Array : CopyAt(d)[x] \in Nat /\ CopyAt(d)[x] <= Size[x] BY <1>1, PoolSums
  <2>2. CopyAt(d)[a] = 0 BY DEF CopyAt
  <2>3. \A x \in Array : Size[x] \in Nat BY Constants
  <2> QED BY <1>2, <2>1, <2>2, <2>3
<1>4. more[a] = Bytes(a) OBVIOUS
<1>5. IsFiniteSet(Array) BY Constants
<1>6. avail[d]["memory"] \in Nat BY <1>1, Constants DEF Types
<1> HIDE DEF more
<1>7. SumFunctionOnSet(more, Array) \in Nat /\ SumFunctionOnSet(more, Array) <= avail[d]["memory"]
  BY <1>3, RoomForCopies
<1>8. more[a] <= SumFunctionOnSet(more, Array) BY <1>3, <1>5, SumNat
<1> QED BY <1>2, <1>4, <1>6, <1>7, <1>8

LEMMA RoomForMove ==
  ASSUME IInv, NEW a \in Array, mapper.pc = "register", a \in mapper.todo, mapper.best \notin tracker[a].on
  PROVE  mapper.best \in Dev /\ Bytes(a) <= avail[mapper.best]["memory"]
<1>1. Types /\ (\A x \in Array : TrackerInv(x)) /\ MapperInv /\ Promised BY DEF IInv
<1>2. /\ mapper.task \in Task /\ mapper.best \in Placement[mapper.task] /\ mapper.taken = 0
  BY <1>1 DEF MapperInv, Busy
<1>3. mapper.best \in Dev /\ mapper.best # None BY <1>2, Constants
<1>4. CASE RoomOn(mapper.best) BY <1>3, <1>4, RoomForOne
<1>5. CASE ~RoomOn(mapper.best)
  <2> DEFINE f == [x \in Array |-> Bytes(x)]
  <2>1. Need[mapper.task]["memory"] + BytesOf(ToCome) <= avail[mapper.best]["memory"]
    BY <1>1, <1>2, <1>3, <1>5 DEF Promised, Busy
  <2>2. a \in ToCome /\ ToCome \in SUBSET Array BY DEF ToCome
  <2>3. IsFiniteSet(ToCome) BY <2>2, Constants, FS_Subset
  <2>4. \A x \in ToCome : f[x] \in Nat BY <1>1, <2>2, BytesAtMost
  <2>5. f[a] = Bytes(a) /\ BytesOf(ToCome) = SumFunctionOnSet(f, ToCome) BY DEF BytesOf
  <2> HIDE DEF f
  <2>6. f[a] <= SumFunctionOnSet(f, ToCome) /\ SumFunctionOnSet(f, ToCome) \in Nat
    BY <2>2, <2>3, <2>4, SumNat
  <2>7. Need[mapper.task]["memory"] \in Nat /\ avail[mapper.best]["memory"] \in Nat
    <3>1. avail \in [Dev -> [Names -> Nat]] /\ Need \in [Task -> [Names -> Nat]] /\ "memory" \in Names
      BY <1>1, Constants DEF Types
    <3> QED BY <1>2, <1>3, <3>1
  <2>8. Bytes(a) \in Nat BY <1>1, BytesAtMost
  <2> QED BY <1>3, <2>1, <2>5, <2>6, <2>7, <2>8
<1> QED BY <1>4, <1>5

LEMMA NextCharged ==
  ASSUME Fitting, IInv, [Next]_vars, Types', Trackers'
  PROVE  Charged'
<1>a. Types /\ MapperInv /\ (\A u \in Task : TaskInv(u)) /\ (\A x \in Array : TrackerInv(x))
  BY DEF IInv
<1>b. Charged BY <1>a, ExactIsCharged DEF IInv
<1>c. "memory" \in Names /\ "vcus" \in Names /\ IsFiniteSet(Task) /\ IsFiniteSet(Array) BY Constants
<1>d. avail \in [Dev -> [Names -> Nat]] /\ Capacity \in [Dev -> [Names -> Nat]] BY <1>a, Constants DEF Types
<1> DEFINE HeldSum(d, r) == SumFunctionOnSet(HeldAt(d, r), Task)
           CopySum(d) == SumFunctionOnSet(CopyAt(d), Array)
<1>s. \A d : CopySum(d) \in Nat /\ \A r \in Names : HeldSum(d, r) \in Nat BY <1>a, PoolSums
<1>n. \A d \in Dev, r \in Names : avail[d][r] \in Nat /\ Capacity[d][r] \in Nat BY <1>d
\* how the pool changes, and the sums with it
<1>1. ASSUME NEW e \in Dev, NEW m \in Int, NEW v \in Int, NEW c \in Int,
             HeldSum(e, "memory")' = HeldSum(e, "memory") + m,
             HeldSum(e, "vcus")' = HeldSum(e, "vcus") + v,
             CopySum(e)' = CopySum(e) + c,
             avail'[e]["memory"] = avail[e]["memory"] - m - c,
             avail'[e]["vcus"] = avail[e]["vcus"] - v
      PROVE  /\ Capacity[e]["memory"] - avail'[e]["memory"] = HeldSum(e, "memory")' + CopySum(e)'
             /\ Capacity[e]["vcus"] - avail'[e]["vcus"] = HeldSum(e, "vcus")'
  <2>1. /\ Capacity[e]["memory"] - avail[e]["memory"] = HeldSum(e, "memory") + CopySum(e)
        /\ Capacity[e]["vcus"] - avail[e]["vcus"] = HeldSum(e, "vcus")
    BY <1>b DEF Charged
  <2>2. /\ HeldSum(e, "memory") \in Nat /\ HeldSum(e, "vcus") \in Nat /\ CopySum(e) \in Nat
        /\ avail[e]["memory"] \in Nat /\ avail[e]["vcus"] \in Nat
        /\ Capacity[e]["memory"] \in Nat /\ Capacity[e]["vcus"] \in Nat
    BY <1>c, <1>s, <1>n
  <2> HIDE DEF HeldSum, CopySum
  <2> QED BY <1>1, <2>1, <2>2
<1> DEFINE ExactAt(e) == /\ Capacity[e]["memory"] - avail'[e]["memory"] = HeldSum(e, "memory")' + CopySum(e)'
                         /\ Capacity[e]["vcus"] - avail'[e]["vcus"] = HeldSum(e, "vcus")'
<1>2. (\A e \in Dev : ExactAt(e)) => Charged' BY DEF Charged
<1>3. ASSUME ~Allocate, \A u \in Task : ~Suspend(u) /\ ~Complete(u), NEW e \in Dev, NEW r \in Names
      PROVE  HeldSum(e, r)' = HeldSum(e, r)
  <2> DEFINE f == HeldAt(e, r)
             h == HeldAt(e, r)'
  <2>1. \A t \in Task : h[t] = f[t] BY <1>3, HeldStays
  <2>2. \A t \in Task : f[t] \in Int BY <1>a, PoolSums
  <2> HIDE DEF f, h
  <2>3. SumFunctionOnSet(h, Task) = SumFunctionOnSet(f, Task) BY <1>c, <2>1, <2>2, SumSame
  <2> QED BY <2>3 DEF f, h
<1>4. ASSUME UNCHANGED tracker, NEW e \in Dev PROVE CopySum(e)' = CopySum(e)
  <2>1. CopyAt(e)' = CopyAt(e) BY <1>4 DEF CopyAt, Bytes
  <2> QED BY <2>1
<1>5. ASSUME ~Allocate, \A u \in Task : ~Suspend(u) /\ ~Complete(u), UNCHANGED <<avail, tracker>> PROVE Charged'
  <2>1. ASSUME NEW e \in Dev PROVE ExactAt(e)
    <3>1. HeldSum(e, "memory")' = HeldSum(e, "memory") /\ HeldSum(e, "vcus")' = HeldSum(e, "vcus")
      BY <1>c, <1>3, <1>5
    <3>2. CopySum(e)' = CopySum(e) BY <1>4, <1>5
    <3> HIDE DEF HeldSum, CopySum
    <3> QED BY <1>b, <1>5, <3>1, <3>2 DEF Charged, HeldSum, CopySum
  <2> QED BY <1>2, <2>1
\* an array is created, or a copy is registered
<1>6. ASSUME ~Allocate, \A u \in Task : ~Suspend(u) /\ ~Complete(u),
             NEW a \in Array, NEW d \in Dev, d \notin tracker[a].on,
             \A x \in Array \ {a} : tracker'[x] = tracker[x],
             tracker'[a].on = tracker[a].on \cup {d}, Bytes(a)' = Bytes(a),
             avail' = TryTake(avail, d, Bytes(a)), Bytes(a) <= avail[d]["memory"]
      PROVE  Charged'
  <2>1. Bytes(a) \in Nat BY <1>a, BytesAtMost
  <2> DEFINE b == Bytes(a)
  <2>2. /\ avail' \in [Dev -> [Names -> Nat]] /\ \A e \in Dev : avail'[e]["vcus"] = avail[e]["vcus"]
        /\ \A e \in Dev \ {d} : avail'[e] = avail[e]
        /\ avail'[d]["memory"] = avail[d]["memory"] - b
    <3>1. b \in Nat /\ b <= avail[d]["memory"] /\ avail' = TryTake(avail, d, b) BY <1>6, <2>1
    <3> HIDE DEF b
    <3>2. avail \in [Dev -> [Names -> Nat]] BY <1>d
    <3>3. /\ TryTake(avail, d, b) \in [Dev -> [Names -> Nat]]
          /\ \A e \in Dev : TryTake(avail, d, b)[e]["vcus"] = avail[e]["vcus"]
          /\ \A e \in Dev \ {d} : TryTake(avail, d, b)[e] = avail[e]
          /\ b <= avail[d]["memory"] => TryTake(avail, d, b)[d]["memory"] = avail[d]["memory"] - b
      BY <3>1, <3>2, TryTakeFacts
    <3> QED BY <3>1, <3>3
  <2>3. \A e \in Dev : CopySum(e)' = CopySum(e) + IF e = d THEN b ELSE 0 BY <1>6, CopyAdds
  <2>4. ASSUME NEW e \in Dev PROVE ExactAt(e)
    <3> DEFINE c == IF e = d THEN b ELSE 0
    <3>1. c \in Int BY <2>1
    <3>2. CopySum(e)' = CopySum(e) + c BY <2>3
    <3>3. HeldSum(e, "memory")' = HeldSum(e, "memory") /\ HeldSum(e, "vcus")' = HeldSum(e, "vcus")
      BY <1>c, <1>3, <1>6
    <3>4. HeldSum(e, "memory") \in Nat /\ HeldSum(e, "vcus") \in Nat BY <1>c, <1>s
    <3>5. avail[e]["memory"] \in Nat /\ avail[e]["vcus"] \in Nat BY <1>c, <1>n
    <3>6. avail'[e]["memory"] = avail[e]["memory"] - 0 - c /\ avail'[e]["vcus"] = avail[e]["vcus"] - 0
      <4>1. CASE e = d BY <2>1, <2>2, <3>5, <4>1
      <4>2. CASE e # d BY <2>2, <3>5, <4>2
      <4> QED BY <4>1, <4>2
    <3> HIDE DEF c, b, HeldSum, CopySum
    <3>7. HeldSum(e, "memory")' = HeldSum(e, "memory") + 0 /\ HeldSum(e, "vcus")' = HeldSum(e, "vcus") + 0
      BY <3>3, <3>4
    <3> QED BY <1>1, <3>1, <3>2, <3>6, <3>7
  <2> QED BY <1>2, <2>4
<1> HIDE DEF ExactAt
<1>t. tracker \in [Array -> [on : SUBSET Dev, nbytes : Nat]] BY <1>a DEF Types
<1>7. ASSUME NEW a \in Array, Track(a), ~Allocate, \A u \in Task : ~Suspend(u) /\ ~Complete(u) PROVE Charged'
  <2>1. /\ tracker[a].on = {} /\ tracker' = [tracker EXCEPT ![a] = [on |-> {Home[a]}, nbytes |-> Bytes(a)]]
        /\ avail' = TryTake(avail, Home[a], Bytes(a))
    BY <1>7 DEF Track, Tracked
  <2>2. Home[a] \in Dev /\ RoomOn(Home[a]) BY Constants DEF Fitting
  <2>3. Bytes(a) <= avail[Home[a]]["memory"] BY <2>1, <2>2, RoomForOne
  <2>4. tracker'[a].on = {Home[a]} /\ tracker'[a].nbytes = Bytes(a) BY <1>t, <2>1
  <2>5. \A x \in Array \ {a} : tracker'[x] = tracker[x] BY <1>t, <2>1
  <2>6. Bytes(a)' = Bytes(a) BY <2>4 DEF Bytes
  <2>7. tracker'[a].on = tracker[a].on \cup {Home[a]} /\ Home[a] \notin tracker[a].on BY <2>1, <2>4
  <2> QED BY <1>6, <1>7, <2>1, <2>2, <2>3, <2>5, <2>6, <2>7
<1>8. ASSUME NEW a \in Array, Register(a), ~Allocate, \A u \in Task : ~Suspend(u) /\ ~Complete(u) PROVE Charged'
  <2> DEFINE d == mapper.best
  <2>1. /\ mapper.pc = "register" /\ a \in mapper.todo
        /\ tracker' = [tracker EXCEPT ![a].on = @ \cup {d}]
        /\ avail' = IF d \in tracker[a].on THEN avail ELSE TryTake(avail, d, Bytes(a))
    BY <1>8 DEF Register
  <2>2. CASE d \in tracker[a].on
    <3>1. tracker[a].on \cup {d} = tracker[a].on BY <2>2
    <3>2. tracker' = tracker BY <1>t, <2>1, <3>1
    <3> QED BY <1>5, <1>8, <2>1, <2>2, <3>2
  <2>3. CASE d \notin tracker[a].on
    <3>1. d \in Dev /\ Bytes(a) <= avail[d]["memory"] BY <2>1, <2>3, RoomForMove
    <3>2. tracker'[a].on = tracker[a].on \cup {d} /\ tracker'[a].nbytes = tracker[a].nbytes BY <1>t, <2>1
    <3>3. \A x \in Array \ {a} : tracker'[x] = tracker[x] BY <1>t, <2>1
    <3>4. Bytes(a)' = Bytes(a) BY <3>2 DEF Bytes
    <3>5. avail' = TryTake(avail, d, Bytes(a)) BY <2>1, <2>3
    <3> HIDE DEF d
    <3> QED BY <1>6, <1>8, <2>3, <3>1, <3>2, <3>3, <3>4, <3>5
  <2> QED BY <2>2, <2>3
\* the mapper allocates, and a task gives back
<1>9. ASSUME NEW t \in Task, NEW d \in Dev, dev[t] = d, dev' = dev,
             NEW m \in Int, NEW v \in Int, NEW n \in [Dev -> Int],
             Held(t, "memory")' = Held(t, "memory") + m, Held(t, "vcus")' = Held(t, "vcus") + v,
             \A u \in Task \ {t}, r \in Names : Held(u, r)' = Held(u, r),
             \A e \in Dev \ {d} : n[e] = 0,
             \A e \in Dev : CopySum(e)' = CopySum(e) + n[e],
             avail'[d]["memory"] = avail[d]["memory"] - m - n[d], avail'[d]["vcus"] = avail[d]["vcus"] - v,
             \A e \in Dev \ {d} : avail'[e] = avail[e]
      PROVE  Charged'
  <2>1. ASSUME NEW e \in Dev, NEW r \in Names
        PROVE  HeldSum(e, r)' = HeldSum(e, r) + IF e = d THEN (IF r = "memory" THEN m ELSE v) ELSE 0
    <3> DEFINE f == HeldAt(e, r)
               h == HeldAt(e, r)'
    <3>1. \A u \in Task : f[u] \in Int BY <1>a, PoolSums
    <3>2. \A u \in Task \ {t} : h[u] = f[u] BY <1>9 DEF HeldAt
    <3>3. /\ f[t] = IF e = d THEN Held(t, r) ELSE 0
          /\ h[t] = IF e = d THEN Held(t, r)' ELSE 0
      BY <1>9 DEF HeldAt
    <3>4. h[t] = f[t] + IF e = d THEN (IF r = "memory" THEN m ELSE v) ELSE 0
      <4>1. CASE e = d
        <5>1. r \in {"memory", "vcus"} BY Constants
        <5>2. Held(t, r)' = Held(t, r) + IF r = "memory" THEN m ELSE v BY <1>9, <5>1
        <5> QED BY <3>3, <4>1, <5>2
      <4>2. CASE e # d BY <3>3, <4>2
      <4> QED BY <4>1, <4>2
    <3>5. f[t] \in Int /\ h[t] \in Int
      <4>1. f[t] \in Int BY <3>1
      <4>2. (IF e = d THEN (IF r = "memory" THEN m ELSE v) ELSE 0) \in Int BY <1>9
      <4> HIDE DEF f, h
      <4> QED BY <3>4, <4>1, <4>2
    <3>6. SumFunctionOnSet(f, Task) \in Int BY <1>a, PoolSums
    <3> HIDE DEF f, h
    <3>7. SumFunctionOnSet(h, Task) = SumFunctionOnSet(f, Task) - f[t] + h[t]
      <4>1. \A u \in Task : f[u] \in Int /\ h[u] \in Int BY <3>1, <3>2, <3>5
      <4> QED BY <1>c, <3>2, <4>1, SumChanged
    <3>8. SumFunctionOnSet(h, Task)
            = SumFunctionOnSet(f, Task) + IF e = d THEN (IF r = "memory" THEN m ELSE v) ELSE 0
      BY <1>9, <3>4, <3>5, <3>6, <3>7
    <3> QED BY <3>8 DEF f, h
  <2>2. ASSUME NEW e \in Dev PROVE ExactAt(e)
    <3>1. avail[e]["memory"] \in Nat /\ avail[e]["vcus"] \in Nat BY <1>c, <1>n
    <3>2. CASE e = d
      <4>1. HeldSum(e, "memory")' = HeldSum(e, "memory") + m BY <1>c, <2>1, <3>2
      <4>2. HeldSum(e, "vcus")' = HeldSum(e, "vcus") + v
        <5>1. HeldSum(e, "vcus")' = HeldSum(e, "vcus") + IF e = d THEN (IF "vcus" = "memory" THEN m ELSE v) ELSE 0
          BY <1>c, <2>1
        <5> HIDE DEF HeldSum
        <5> QED BY <3>2, <5>1
      <4>3. n[e] \in Int /\ CopySum(e)' = CopySum(e) + n[e] BY <1>9
      <4>4. avail'[e]["memory"] = avail[e]["memory"] - m - n[e] /\ avail'[e]["vcus"] = avail[e]["vcus"] - v
        BY <1>9, <3>2
      <4> HIDE DEF HeldSum, CopySum
      <4> QED BY <1>1, <1>9, <4>1, <4>2, <4>3, <4>4 DEF ExactAt
    <3>3. CASE e # d
      <4>1. HeldSum(e, "memory")' = HeldSum(e, "memory") + 0 BY <1>c, <2>1, <3>3
      <4>2. HeldSum(e, "vcus")' = HeldSum(e, "vcus") + 0 BY <1>c, <2>1, <3>3
      <4>3. CopySum(e)' = CopySum(e) + 0
        <5>1. n[e] = 0 /\ CopySum(e)' = CopySum(e) + n[e] BY <1>9, <3>3
        <5> QED BY <5>1
      <4>4. avail'[e]["memory"] = avail[e]["memory"] - 0 - 0 /\ avail'[e]["vcus"] = avail[e]["vcus"] - 0
        <5>1. avail'[e] = avail[e] BY <1>9, <3>3
        <5> QED BY <3>1, <5>1
      <4> HIDE DEF HeldSum, CopySum
      <4> QED BY <1>1, <4>1, <4>2, <4>3, <4>4 DEF ExactAt
    <3> QED BY <3>2, <3>3
  <2> QED BY <1>2, <2>2
<1>h. HeldFacts /\ HeldFacts' BY <1>a, HeldNow, HeldNext
<1>10. ASSUME Allocate PROVE Charged'
  <2>k. mapper.pc = "allocate" /\ mapper.taken \in {0, 1}
    <3>1. mapper.pc = "allocate" /\ mapper.taken < 2 BY <1>10, Constants DEF Allocate
    <3> QED BY <1>a, <3>1 DEF Types
  <2>t. PICK t \in Task : t = mapper.task BY <1>a, <2>k DEF MapperInv, Busy
  <2>d. PICK d \in Dev : d = mapper.best
    <3>1. mapper.best \in Placement[t] BY <1>a, <2>k, <2>t DEF MapperInv
    <3> QED BY <3>1, Constants
  <2>r. PICK r \in Names : r = Resource[mapper.taken + 1] BY <2>k, Constants
  <2> DEFINE n == [e \in Dev |-> 0]
             m == IF r = "memory" THEN Need[t]["memory"] ELSE 0
             v == IF r = "vcus" THEN Need[t]["vcus"] ELSE 0
  <2>1. /\ Need[t][r] <= avail[d][r] /\ avail' = [avail EXCEPT ![d][r] = @ - Need[t][r]]
        /\ UNCHANGED <<tracker, place, dev, resumed>>
    BY <1>10, <2>t, <2>d, <2>r DEF Allocate
  <2>2. place[t] = "mapping" /\ dev[t] = d
    BY <1>a, <2>k, <2>t, <2>d DEF MapperInv, Busy
  <2>3. mapper'.taken = mapper.taken + 1 BY <1>a, <1>10, MapperAfter DEF Types
  <2>4. \/ mapper.taken = 0 /\ mapper'.taken = 1 /\ r = "memory"
        \/ mapper.taken = 1 /\ mapper'.taken = 2 /\ r = "vcus"
    <3>2. Resource[1] = "memory" /\ Resource[2] = "vcus" BY Constants
    <3> QED BY <2>3, <2>k, <2>r, <3>2
  <2>5. Need[t]["memory"] \in Nat /\ Need[t]["vcus"] \in Nat BY Constants
  <2>6. m \in Int /\ v \in Int /\ n \in [Dev -> Int] /\ \A e \in Dev : n[e] = 0 BY <2>5
  <2>7. /\ avail'[d]["memory"] = avail[d]["memory"] - m /\ avail'[d]["vcus"] = avail[d]["vcus"] - v
        /\ \A e \in Dev \ {d} : avail'[e] = avail[e]
    <3>1. avail[d]["memory"] \in Nat /\ avail[d]["vcus"] \in Nat BY <1>c, <1>n, <2>2
    <3>2. \A e \in Dev \ {d} : avail'[e] = avail[e] BY <1>d, <2>1, <2>2
    <3>3. \A s \in Names : avail'[d][s] = IF s = r THEN avail[d][s] - Need[t][s] ELSE avail[d][s]
      BY <1>d, <2>1, <2>2
    <3> QED BY <1>c, <2>4, <2>5, <3>1, <3>2, <3>3
  <2>8. Held(t, "memory")' = Held(t, "memory") + m /\ Held(t, "vcus")' = Held(t, "vcus") + v
    <3>1. /\ Held(t, "memory") = IF mapper.taken > 0 THEN Need[t]["memory"] ELSE 0
          /\ Held(t, "vcus") = IF mapper.taken > 1 THEN Need[t]["vcus"] ELSE 0
      BY <1>h, <2>2 DEF HeldFacts
    <3>2. /\ Held(t, "memory")' = IF mapper'.taken > 0 THEN Need[t]["memory"] ELSE 0
          /\ Held(t, "vcus")' = IF mapper'.taken > 1 THEN Need[t]["vcus"] ELSE 0
      <4>1. place'[t] = "mapping" BY <2>1, <2>2
      <4> QED BY <1>h, <2>2, <4>1 DEF HeldFacts
    <3> QED BY <2>4, <2>5, <3>1, <3>2
  <2>9. \A u \in Task \ {t}, s \in Names : Held(u, s)' = Held(u, s)
    <3> SUFFICES ASSUME NEW u \in Task \ {t}, NEW s \in Names PROVE Held(u, s)' = Held(u, s)
      OBVIOUS
    <3>1. place[u] # "mapping" BY <1>a, <2>t DEF TaskInv
    <3>2. s \in {"memory", "vcus"} BY Constants
    <3> QED BY <1>h, <2>1, <3>1, <3>2 DEF HeldFacts
  <2>10. \A e \in Dev : CopySum(e)' = CopySum(e) + n[e]
    <3> SUFFICES ASSUME NEW e \in Dev PROVE CopySum(e)' = CopySum(e) + n[e]
      OBVIOUS
    <3>1. CopySum(e)' = CopySum(e) /\ CopySum(e) \in Nat BY <1>4, <1>s, <2>1
    <3> HIDE DEF CopySum
    <3> QED BY <2>6, <3>1
  <2>11. avail'[d]["memory"] = avail[d]["memory"] - m - n[d]
    <3>1. avail[d]["memory"] \in Nat /\ n[d] = 0 BY <1>c, <1>n, <2>2
    <3> HIDE DEF m, n
    <3> QED BY <2>6, <2>7, <3>1
  <2>e. \A e \in Dev \ {d} : n[e] = 0 OBVIOUS
  <2>f. dev' = dev BY <2>1
  <2> HIDE DEF m, v, n, CopySum
  <2> QED BY <1>9, <2>2, <2>e, <2>f, <2>6, <2>7, <2>8, <2>9, <2>10, <2>11
<1>11. ASSUME NEW t \in Task, Suspend(t) \/ Complete(t) PROVE Charged'
  <2>p. PICK p \in {"mapped", "done"} : FinishRun(t, p) /\ (p = "mapped" => t \in resumed')
    BY <1>11 DEF Suspend, Complete
  <2>1. /\ place[t] = "running" /\ place' = [place EXCEPT ![t] = p] /\ UNCHANGED <<dev, mapper>>
        /\ tracker' = [a \in Array |-> IF a \in Filled(t) THEN [tracker[a] EXCEPT !.nbytes = Size[a]]
                                       ELSE tracker[a]]
    BY <2>p DEF FinishRun
  <2>d. PICK d \in Dev : d = dev[t] BY <2>1, FilledFacts
  <2>F. PICK F \in SUBSET Array : F = Filled(t) BY <2>1, FilledFacts
  <2>k. PICK k \in Nat : k = FilledBytes(t) /\ k = SumFunctionOnSet(Size, F)
    <3>1. FilledBytes(t) \in Nat BY <2>1, FilledFacts
    <3> QED BY <3>1, <2>F DEF FilledBytes
  <2>f. /\ \A a \in F \cap Empty : tracker[a].on = {d} /\ tracker[a].nbytes = 0
        /\ \A a \in F \ Empty : Size[a] = 0
    BY <2>1, <2>d, <2>F, FilledFacts
  <2> DEFINE n == [e \in Dev |-> IF e = d THEN k ELSE 0]
             m == -Need[t]["memory"]
             v == -Need[t]["vcus"]
  <2>2. Need[t]["memory"] \in Nat /\ Need[t]["vcus"] \in Nat BY Constants
  <2>3. /\ avail'[d]["memory"] = avail[d]["memory"] + Need[t]["memory"] - k
        /\ avail'[d]["vcus"] = avail[d]["vcus"] + Need[t]["vcus"]
        /\ \A e \in Dev \ {d} : avail'[e] = avail[e]
    BY <2>p, <2>d, <2>k, FinishFacts
  <2>4. m \in Int /\ v \in Int /\ n \in [Dev -> Int] /\ n[d] = k /\ \A e \in Dev \ {d} : n[e] = 0 BY <2>2
  <2>5. avail'[d]["memory"] = avail[d]["memory"] - m - n[d] /\ avail'[d]["vcus"] = avail[d]["vcus"] - v
    <3>1. avail[d]["memory"] \in Nat /\ avail[d]["vcus"] \in Nat BY <1>c, <1>n
    <3> HIDE DEF n
    <3> QED BY <2>2, <2>3, <2>4, <3>1
  <2>6. Held(t, "memory")' = Held(t, "memory") + m /\ Held(t, "vcus")' = Held(t, "vcus") + v
    <3>1. Held(t, "memory") = Need[t]["memory"] /\ Held(t, "vcus") = Need[t]["vcus"]
      <4>1. CASE t \notin resumed BY <1>h, <2>1, <4>1 DEF HeldFacts
      <4>2. CASE t \in resumed
        <5>1. t \in Awaiting BY <1>a, <4>2 DEF Types
        <5>2. Need[t]["memory"] = 0 /\ Need[t]["vcus"] = 0 BY <1>c, <5>1 DEF Fitting
        <5> QED BY <1>h, <5>2 DEF HeldFacts
      <4> QED BY <4>1, <4>2
    <3>2. Held(t, "memory")' = 0 /\ Held(t, "vcus")' = 0
      <4>1. place'[t] = p BY <1>a, <2>1 DEF Types
      <4> QED BY <1>h, <2>p, <4>1 DEF HeldFacts
    <3> QED BY <2>2, <3>1, <3>2
  <2>7. \A u \in Task \ {t}, s \in Names : Held(u, s)' = Held(u, s)
    <3> SUFFICES ASSUME NEW u \in Task \ {t}, NEW s \in Names PROVE Held(u, s)' = Held(u, s)
      OBVIOUS
    <3>1. place'[u] = place[u] BY <1>a, <2>1 DEF Types
    <3>2. u \in resumed' <=> u \in resumed BY <1>11 DEF Suspend, Complete
    <3>3. s \in {"memory", "vcus"} BY Constants
    <3> QED BY <1>h, <2>1, <3>1, <3>2, <3>3 DEF HeldFacts
  <2>8. \A e \in Dev : CopySum(e)' = CopySum(e) + n[e]
    <3> SUFFICES ASSUME NEW e \in Dev PROVE CopySum(e)' = CopySum(e) + n[e]
      OBVIOUS
    <3>1. ASSUME NEW a \in Array
          PROVE  /\ a \in F => tracker'[a].on = tracker[a].on /\ tracker'[a].nbytes = Size[a]
                 /\ a \notin F => tracker'[a] = tracker[a]
      BY <1>t, <2>1, <2>F
    <3> DEFINE f == CopyAt(e)
               g == [a \in Array |-> IF a \in F THEN Size[a] ELSE 0]
               z == [a \in Array |-> 0]
               h == CopyAt(e)'
    <3>2. \A a \in Array : f[a] \in Int /\ Size[a] \in Int BY <1>a, PoolSums, Constants
    <3>3. \A a \in Array : h[a] = f[a] + IF e = d THEN g[a] ELSE 0
      <4> SUFFICES ASSUME NEW a \in Array PROVE h[a] = f[a] + IF e = d THEN g[a] ELSE 0
        OBVIOUS
      <4>a. /\ f[a] = IF e \in tracker[a].on THEN (IF a \in Empty THEN tracker[a].nbytes ELSE Size[a]) ELSE 0
            /\ h[a] = IF e \in tracker'[a].on THEN (IF a \in Empty THEN tracker'[a].nbytes ELSE Size[a]) ELSE 0
            /\ g[a] = IF a \in F THEN Size[a] ELSE 0
        BY DEF CopyAt, Bytes
      <4>b. f[a] \in Int /\ Size[a] \in Int BY <3>2
      <4> HIDE DEF f, g, h
      <4>1. CASE a \notin F BY <3>1, <4>1, <4>a, <4>b
      <4>2. CASE a \in F \ Empty BY <2>f, <3>1, <4>2, <4>a, <4>b
      <4>3. CASE a \in F \cap Empty BY <2>f, <3>1, <4>3, <4>a, <4>b
      <4> QED BY <4>1, <4>2, <4>3
    <3>4. SumFunctionOnSet(g, Array) = k
      <4>1. \A a \in Array : g[a] = IF a \in F THEN Size[a] ELSE 0 OBVIOUS
      <4>2. \A a \in F : Size[a] \in Int BY <3>2
      <4> HIDE DEF g
      <4>3. SumFunctionOnSet(g, Array) = SumFunctionOnSet(Size, F) BY <1>c, <4>1, <4>2, SumRestricted
      <4> QED BY <2>k, <4>3
    <3>5. \A a \in Array : g[a] \in Int BY <3>2
    <3>6. SumFunctionOnSet(f, Array) \in Int BY <1>a, PoolSums
    <3>7. SumFunctionOnSet(h, Array) = SumFunctionOnSet(f, Array) + n[e]
      <4>1. CASE e = d
        <5>1. \A a \in Array : h[a] = f[a] + g[a] BY <3>3, <4>1
        <5>2. n[e] = k BY <4>1
        <5> HIDE DEF f, g, h, n
        <5>3. \A a \in Array : f[a] \in Int /\ g[a] \in Int /\ h[a] = f[a] + g[a] BY <3>2, <3>5, <5>1
        <5>4. SumFunctionOnSet(h, Array) = SumFunctionOnSet(f, Array) + SumFunctionOnSet(g, Array)
          BY <1>c, <5>3, SumPlus
        <5> QED BY <3>4, <5>2, <5>4
      <4>2. CASE e # d
        <5>2. n[e] = 0 BY <4>2
        <5> HIDE DEF f, g, h, n
        <5>1. \A a \in Array : f[a] \in Int /\ h[a] = f[a] BY <3>2, <3>3, <4>2
        <5>3. SumFunctionOnSet(h, Array) = SumFunctionOnSet(f, Array) BY <1>c, <5>1, SumSame
        <5> QED BY <3>6, <5>2, <5>3
      <4> QED BY <4>1, <4>2
    <3> QED BY <3>7
  <2>9. dev' = dev BY <2>1
  <2> HIDE DEF m, v, n, CopySum
  <2> QED BY <1>9, <2>3, <2>4, <2>5, <2>6, <2>7, <2>8, <2>9, <2>d
<1>12. \/ UNCHANGED <<avail, tracker>> \/ Allocate \/ (\E a \in Array : Track(a) \/ Register(a))
       \/ \E t \in Task : Suspend(t) \/ Complete(t)
  BY DEF Next, TaskStep, MapperStep, Spawn, MoveEnds, Launch, BeginMapping, PolicyBegins, MappingEnds,
         Consider, AssignmentFails, ConstructMoves, CountMapped, Mapped, vars
<1> QED BY <1>5, <1>7, <1>8, <1>10, <1>11, <1>12

\* What is to come, in bytes, now and after a step.
LEMMA BytesStay ==
  ASSUME Types, Trackers, NEW S \in SUBSET Array, \A x \in S : Bytes(x)' = Bytes(x)
  PROVE  BytesOf(S)' = BytesOf(S) /\ BytesOf(S) \in Nat
<1> DEFINE f == [a \in Array |-> Bytes(a)]
           h == [a \in Array |-> Bytes(a)']
<1>1. BytesOf(S) = SumFunctionOnSet(f, S) /\ BytesOf(S)' = SumFunctionOnSet(h, S) BY DEF BytesOf
<1>2. IsFiniteSet(S) BY Constants, FS_Subset
<1>3. \A x \in S : f[x] \in Nat BY BytesAtMost DEF Trackers
<1>4. \A x \in S : h[x] = f[x] OBVIOUS
<1> HIDE DEF f, h
<1>5. SumFunctionOnSet(h, S) = SumFunctionOnSet(f, S) BY <1>2, <1>3, <1>4, SumSame
<1>6. SumFunctionOnSet(f, S) \in Nat BY <1>2, <1>3, SumNat
<1> QED BY <1>1, <1>5, <1>6

LEMMA BytesWithout ==
  ASSUME Types, Trackers, NEW S \in SUBSET Array, NEW a \in S
  PROVE  BytesOf(S) = Bytes(a) + BytesOf(S \ {a}) /\ Bytes(a) \in Nat /\ BytesOf(S \ {a}) \in Nat
<1> DEFINE f == [x \in Array |-> Bytes(x)]
<1>1. BytesOf(S) = SumFunctionOnSet(f, S) /\ BytesOf(S \ {a}) = SumFunctionOnSet(f, S \ {a}) /\ f[a] = Bytes(a)
  BY DEF BytesOf
<1>2. IsFiniteSet(S) /\ IsFiniteSet(S \ {a}) BY Constants, FS_Subset
<1>3. \A x \in S : f[x] \in Nat BY BytesAtMost DEF Trackers
<1> HIDE DEF f
<1>4. SumFunctionOnSet(f, S) = f[a] + SumFunctionOnSet(f, S \ {a}) BY <1>2, <1>3, SumSteps
<1>5. SumFunctionOnSet(f, S \ {a}) \in Nat BY <1>2, <1>3, SumNat
<1> QED BY <1>1, <1>3, <1>4, <1>5

\* The promise is kept as long as nothing is taken from what is available.
LEMMA PromiseKept ==
  ASSUME IInv, Busy' => Busy,
         mapper'.best = mapper.best, mapper'.task = mapper.task, mapper'.taken = mapper.taken,
         mapper.best \in Dev =>
           /\ avail[mapper.best]["vcus"] <= avail'[mapper.best]["vcus"]
           /\ avail'[mapper.best]["vcus"] \in Nat /\ avail'[mapper.best]["memory"] \in Nat
           /\ Busy /\ ~RoomOn(mapper.best) =>
                /\ avail[mapper.best]["memory"] <= avail'[mapper.best]["memory"]
                /\ ToCome' = ToCome
                /\ \A x \in ToCome : Bytes(x)' = Bytes(x)
  PROVE  Promised'
<1> SUFFICES ASSUME Busy', mapper'.best # None
             PROVE  /\ mapper'.taken < 2 => Need[mapper'.task]["vcus"] <= avail'[mapper'.best]["vcus"]
                    /\ mapper'.taken = 0 /\ ~RoomOn(mapper'.best) =>
                         Need[mapper'.task]["memory"] + BytesOf(ToCome)' <= avail'[mapper'.best]["memory"]
  BY DEF Promised
<1>1. Types /\ Trackers /\ Promised /\ MapperInv /\ Busy /\ mapper.best # None BY DEF IInv, Trackers
<1>2. PICK t \in Task : t = mapper.task BY <1>1 DEF MapperInv
<1>3. PICK d \in Dev : d = mapper.best
  <2>1. mapper.best \in Placement[t] BY <1>1, <1>2 DEF MapperInv, Busy
  <2> QED BY <2>1, Constants
<1>4. /\ avail[d]["vcus"] \in Nat /\ avail[d]["memory"] \in Nat
      /\ Need[t]["vcus"] \in Nat /\ Need[t]["memory"] \in Nat
  BY <1>1, Constants DEF Types
<1>5. mapper'.taken < 2 => Need[t]["vcus"] <= avail'[d]["vcus"]
  <2>1. mapper.taken < 2 => Need[t]["vcus"] <= avail[d]["vcus"] BY <1>1, <1>2, <1>3 DEF Promised
  <2>2. avail[d]["vcus"] <= avail'[d]["vcus"] /\ avail'[d]["vcus"] \in Nat BY <1>3
  <2> QED BY <1>4, <2>1, <2>2
<1>6. ASSUME mapper'.taken = 0, ~RoomOn(d) PROVE Need[t]["memory"] + BytesOf(ToCome)' <= avail'[d]["memory"]
  <2>1. Need[t]["memory"] + BytesOf(ToCome) <= avail[d]["memory"] BY <1>1, <1>2, <1>3, <1>6 DEF Promised
  <2>2. /\ avail[d]["memory"] <= avail'[d]["memory"] /\ avail'[d]["memory"] \in Nat /\ ToCome' = ToCome
        /\ \A x \in ToCome : Bytes(x)' = Bytes(x)
    BY <1>1, <1>3, <1>6
  <2>3. PICK S \in SUBSET Array : S = ToCome BY DEF ToCome
  <2>4. BytesOf(S)' = BytesOf(S) /\ BytesOf(S) \in Nat BY <1>1, <2>2, <2>3, BytesStay
  <2>5. BytesOf(ToCome)' = BytesOf(S)' BY <2>2, <2>3 DEF BytesOf
  <2>6. BytesOf(ToCome) = BytesOf(S) BY <2>3
  <2> QED BY <1>4, <2>1, <2>2, <2>4, <2>5, <2>6
<1> QED BY <1>2, <1>3, <1>5, <1>6

LEMMA NextPromised ==
  ASSUME Fitting, IInv, [Next]_vars, Types'
  PROVE  Promised'
<1>a. Types /\ MapperInv /\ (\A u \in Task : TaskInv(u)) /\ Trackers /\ Promised BY DEF IInv, Trackers
<1>d. /\ DOMAIN mapper = DOMAIN Idle /\ avail \in [Dev -> [Names -> Nat]] /\ avail' \in [Dev -> [Names -> Nat]]
      /\ tracker \in [Array -> [on : SUBSET Dev, nbytes : Nat]]
  BY <1>a DEF Types
<1>c. "memory" \in Names /\ "vcus" \in Names BY Constants
<1>n. \A e \in Dev : /\ avail[e]["memory"] \in Nat /\ avail'[e]["memory"] \in Nat
                     /\ avail[e]["vcus"] \in Nat /\ avail'[e]["vcus"] \in Nat
  BY <1>c, <1>d
\* the operands of the task are known, and those without data stay at home
<1>o. ASSUME Busy, NEW x \in ToCome
      PROVE  /\ x \in Array /\ Tracked(x)
             /\ mapper.best \in Dev /\ ~RoomOn(mapper.best) => x \notin Empty
  <2>1. mapper.task \in Task /\ place[mapper.task] = "mapping" BY <1>a, <1>o DEF MapperInv
  <2>2. x \in Uses[mapper.task] \cup Out[mapper.task] /\ x \in Array
    BY <1>a, <1>o DEF ToCome, MapperInv
  <2>3. Tracked(x) BY <1>a, <2>1, <2>2 DEF TaskInv
  <2>4. ASSUME mapper.best \in Dev, ~RoomOn(mapper.best), x \in Empty PROVE FALSE
    <3>1. mapper.best \in Placement[mapper.task]
      <4>1. mapper.best # None BY <2>4, Constants
      <4> QED BY <1>a, <1>o, <4>1 DEF MapperInv, Busy
    <3>2. mapper.best = Home[x] BY <2>1, <2>2, <2>4, <3>1 DEF Fitting
    <3> QED BY <2>2, <2>4, <3>2 DEF Fitting
  <2> QED BY <2>2, <2>3, <2>4
\* other threads
<1>1. ASSUME UNCHANGED <<avail, tracker, mapper>> PROVE Promised'
  <2>1. ToCome' = ToCome /\ \A x \in ToCome : Bytes(x)' = Bytes(x) BY <1>1 DEF ToCome, Bytes
  <2>2. Busy' => Busy BY <1>1 DEF Busy
  <2>3. \A e \in Dev : avail[e]["vcus"] <= avail'[e]["vcus"] /\ avail[e]["memory"] <= avail'[e]["memory"]
    BY <1>1, <1>n
  <2> QED BY <1>1, <1>n, <2>1, <2>2, <2>3, PromiseKept
<1>2. ASSUME NEW a \in Array, Track(a) PROVE Promised'
  <2>1. /\ ~Tracked(a) /\ mapper' = mapper /\ avail' = TryTake(avail, Home[a], Bytes(a))
        /\ tracker' = [tracker EXCEPT ![a] = [on |-> {Home[a]}, nbytes |-> Bytes(a)]]
    BY <1>2 DEF Track
  <2>2. Bytes(a) \in Nat /\ Home[a] \in Dev /\ RoomOn(Home[a])
    BY <1>a, BytesAtMost, Constants DEF Fitting, Trackers
  <2>3. /\ \A e \in Dev : avail'[e]["vcus"] = avail[e]["vcus"]
        /\ \A e \in Dev \ {Home[a]} : avail'[e] = avail[e]
    <3> DEFINE h == Home[a]
               b == Bytes(a)
    <3>1. h \in Dev /\ b \in Nat /\ avail' = TryTake(avail, h, b) BY <2>1, <2>2
    <3> HIDE DEF h, b
    <3>2. avail \in [Dev -> [Names -> Nat]] BY <1>d
    <3>3. /\ \A e \in Dev : TryTake(avail, h, b)[e]["vcus"] = avail[e]["vcus"]
          /\ \A e \in Dev \ {h} : TryTake(avail, h, b)[e] = avail[e]
      BY <3>1, <3>2, TryTakeFacts
    <3> QED BY <3>1, <3>3 DEF h
  <2>4. ASSUME mapper.best \in Dev
        PROVE  /\ avail[mapper.best]["vcus"] <= avail'[mapper.best]["vcus"]
               /\ Busy /\ ~RoomOn(mapper.best) =>
                /\ avail[mapper.best]["memory"] <= avail'[mapper.best]["memory"]
                /\ ToCome' = ToCome
                /\ \A x \in ToCome : Bytes(x)' = Bytes(x)
    <3>1. avail[mapper.best]["vcus"] <= avail'[mapper.best]["vcus"] BY <1>n, <2>3, <2>4
    <3>2. ASSUME Busy, ~RoomOn(mapper.best)
          PROVE  /\ avail[mapper.best]["memory"] <= avail'[mapper.best]["memory"]
                 /\ ToCome' = ToCome
                 /\ \A x \in ToCome : Bytes(x)' = Bytes(x)
      <4>1. mapper.best # Home[a] BY <2>2, <3>2
      <4>2. avail[mapper.best]["memory"] <= avail'[mapper.best]["memory"] BY <1>n, <2>3, <2>4, <4>1
      <4>3. \A x \in Array \ {a} : tracker'[x] = tracker[x] BY <1>d, <2>1
      <4>4. tracker'[a].on = {Home[a]} /\ tracker[a].on = {} BY <1>d, <2>1 DEF Tracked
      <4>5. a \notin ToCome BY <1>o, <2>1, <3>2
      <4>6. a \notin ToCome'
        <5>1. mapper.task \in Task /\ place[mapper.task] = "mapping" BY <1>a, <3>2 DEF MapperInv
        <5>2. a \notin Uses[mapper.task] \cup Out[mapper.task] BY <1>a, <2>1, <5>1 DEF TaskInv
        <5> QED BY <1>a, <2>1, <5>2 DEF ToCome, MapperInv
      <4>7. \A x \in Array \ {a} : x \in ToCome' <=> x \in ToCome BY <2>1, <4>3 DEF ToCome
      <4>8. ToCome \subseteq Array /\ ToCome' \subseteq Array BY DEF ToCome
      <4>9. ToCome' = ToCome BY <4>5, <4>6, <4>7, <4>8
      <4>10. \A x \in ToCome : Bytes(x)' = Bytes(x) BY <4>3, <4>5, <4>8 DEF Bytes
      <4> QED BY <4>2, <4>9, <4>10
    <3> QED BY <3>1, <3>2
  <2>5. Busy' => Busy BY <2>1 DEF Busy
  <2> QED BY <1>n, <2>1, <2>4, <2>5, PromiseKept
<1>3. ASSUME NEW t \in Task, Suspend(t) \/ Complete(t) PROVE Promised'
  <2>1. PICK p : FinishRun(t, p) BY <1>3 DEF Suspend, Complete
  <2>2. /\ place[t] = "running" /\ mapper' = mapper
        /\ tracker' = [a \in Array |-> IF a \in Filled(t) THEN [tracker[a] EXCEPT !.nbytes = Size[a]]
                                       ELSE tracker[a]]
    BY <2>1 DEF FinishRun
  <2>3. /\ dev[t] \in Dev /\ FilledBytes(t) \in Nat /\ (~RoomOn(dev[t]) => FilledBytes(t) = 0)
    BY <2>2, FilledFacts
  <2>4. /\ avail'[dev[t]]["memory"] = avail[dev[t]]["memory"] + Need[t]["memory"] - FilledBytes(t)
        /\ avail'[dev[t]]["vcus"] = avail[dev[t]]["vcus"] + Need[t]["vcus"]
        /\ \A e \in Dev \ {dev[t]} : avail'[e] = avail[e]
    BY <2>1, FinishFacts
  <2>5. Need[t]["memory"] \in Nat /\ Need[t]["vcus"] \in Nat BY Constants
  <2>6. \A e \in Dev : /\ avail[e]["vcus"] <= avail'[e]["vcus"]
                       /\ ~RoomOn(e) => avail[e]["memory"] <= avail'[e]["memory"]
    <3> SUFFICES ASSUME NEW e \in Dev
                 PROVE  /\ avail[e]["vcus"] <= avail'[e]["vcus"]
                        /\ ~RoomOn(e) => avail[e]["memory"] <= avail'[e]["memory"]
      OBVIOUS
    <3>1. CASE e = dev[t] BY <1>n, <2>3, <2>4, <2>5, <3>1
    <3>2. CASE e # dev[t] BY <1>n, <2>4, <3>2
    <3> QED BY <3>1, <3>2
  <2>7. \A x \in Array : tracker'[x].on = tracker[x].on BY <1>d, <2>2
  <2>8. ToCome' = ToCome BY <2>2, <2>7 DEF ToCome
  <2>9. ASSUME Busy, mapper.best \in Dev, ~RoomOn(mapper.best), NEW x \in ToCome PROVE Bytes(x)' = Bytes(x)
    <3>1. x \notin Empty BY <1>o, <2>9
    <3> QED BY <3>1 DEF Bytes
  <2>10. Busy' => Busy BY <2>2 DEF Busy
  <2> QED BY <1>n, <2>2, <2>6, <2>8, <2>9, <2>10, PromiseKept
\* the mapper
<1>4. ASSUME mapper'.best = None PROVE Promised' BY <1>4 DEF Promised
<1>5. ASSUME BeginMapping \/ PolicyBegins PROVE Promised'
  <2>1. ~Busy BY <1>5 DEF BeginMapping, PolicyBegins, Busy
  <2>2. mapper'.best = None BY <1>a, <1>d, <1>5, <2>1, MapperAfter DEF MapperInv
  <2> QED BY <1>4, <2>2
<1>6. ASSUME MappingEnds \/ AssignmentFails \/ Mapped PROVE Promised'
  <2>1. mapper'.best = None BY <1>d, <1>6, MapperAfter, MapperFields
  <2> QED BY <1>4, <2>1
<1>7. ASSUME NEW d \in Dev, Consider(d) PROVE Promised'
  <2>1. /\ mapper.pc = "policy" /\ mapper'.pc = mapper.pc /\ mapper'.task = mapper.task
        /\ mapper'.taken = mapper.taken /\ UNCHANGED <<avail, tracker>>
        /\ (mapper'.best = mapper.best \/ (mapper'.best = d /\ Fits(mapper.task, d)))
    BY <1>d, <1>7, MapperAfter DEF Consider
  <2>2. CASE mapper'.best = mapper.best
    <3>1. ToCome' = ToCome /\ \A x \in ToCome : Bytes(x)' = Bytes(x) BY <2>1, <2>2 DEF ToCome, Bytes
    <3>2. Busy' => Busy BY <2>1 DEF Busy
    <3>3. \A e \in Dev : avail[e]["vcus"] <= avail'[e]["vcus"] /\ avail[e]["memory"] <= avail'[e]["memory"]
      BY <2>1, <1>n
    <3> QED BY <1>n, <2>1, <2>2, <3>1, <3>2, <3>3, PromiseKept
  <2>3. CASE mapper'.best = d /\ Fits(mapper.task, d)
    <3>1. PICK t \in Task : t = mapper.task BY <1>a, <2>1 DEF MapperInv, Busy
    <3>2. PICK S \in SUBSET Array : S = Uses[t] \ Local(t, d)
      <4>1. Uses[t] \in SUBSET Array BY Constants
      <4> QED BY <4>1
    <3>3. ToCome' = S
      <4>1. ToCome' = {a \in Array : a \in Uses[t] /\ d \notin tracker[a].on}
        BY <2>1, <2>3, <3>1 DEF ToCome
      <4>2. S = {a \in Array : a \in Uses[t] /\ d \notin tracker[a].on} BY <3>2 DEF Local
      <4> QED BY <4>1, <4>2
    <3>4. BytesOf(ToCome)' = BytesOf(S)
      <4>1. \A x \in S : Bytes(x)' = Bytes(x) BY <2>1 DEF Bytes
      <4>2. BytesOf(S)' = BytesOf(S) BY <1>a, <4>1, BytesStay
      <4>3. BytesOf(ToCome)' = BytesOf(S)' BY <3>3 DEF BytesOf
      <4> QED BY <4>2, <4>3
    <3>5. Need[t]["memory"] + BytesOf(S) <= avail[d]["memory"] /\ Need[t]["vcus"] <= avail[d]["vcus"]
      BY <2>3, <3>1, <3>2 DEF Fits
    <3> QED BY <2>1, <2>3, <3>1, <3>4, <3>5 DEF Promised
  <2> QED BY <2>1, <2>2, <2>3
<1>8. ASSUME ConstructMoves PROVE Promised'
  <2>1. /\ mapper.pc = "policy" /\ mapper.best # None /\ UNCHANGED <<avail, tracker>>
        /\ mapper'.pc = "register" /\ mapper'.task = mapper.task /\ mapper'.taken = mapper.taken
        /\ mapper'.best = mapper.best /\ mapper'.todo = Uses[mapper.task] \cup Out[mapper.task]
    BY <1>d, <1>8, MapperAfter DEF ConstructMoves
  <2>2. mapper.task \in Task /\ mapper.best \in Placement[mapper.task] BY <1>a, <2>1 DEF MapperInv, Busy
  <2>3. ASSUME ~RoomOn(mapper.best) PROVE ToCome' = ToCome
    <3>1. mapper'.todo = Uses[mapper.task] BY <2>1, <2>2, <2>3 DEF Fitting
    <3> QED BY <2>1, <3>1 DEF ToCome
  <2>4. \A x \in ToCome : Bytes(x)' = Bytes(x) BY <2>1 DEF Bytes
  <2>5. \A e \in Dev : avail[e]["vcus"] <= avail'[e]["vcus"] /\ avail[e]["memory"] <= avail'[e]["memory"]
    BY <1>n, <2>1
  <2>6. Busy' => Busy BY <2>1 DEF Busy
  <2> QED BY <1>n, <2>1, <2>3, <2>4, <2>5, <2>6, PromiseKept
<1>9. ASSUME NEW a \in Array, Register(a) PROVE Promised'
  <2>1. /\ mapper.pc = "register" /\ a \in mapper.todo /\ mapper'.pc = "register" /\ mapper'.task = mapper.task
        /\ mapper'.taken = mapper.taken /\ mapper'.best = mapper.best /\ mapper'.todo = mapper.todo \ {a}
    BY <1>d, <1>9, MapperAfter DEF Register
  <2>t. PICK t \in Task : t = mapper.task BY <1>a, <2>1 DEF MapperInv, Busy
  <2>d. PICK d \in Dev : d = mapper.best
    <3>1. mapper.best \in Placement[t] BY <1>a, <2>1, <2>t DEF MapperInv
    <3> QED BY <3>1, Constants
  <2>2. /\ tracker' = [tracker EXCEPT ![a].on = @ \cup {d}]
        /\ avail' = IF d \in tracker[a].on THEN avail ELSE TryTake(avail, d, Bytes(a))
    BY <1>9, <2>d DEF Register
  <2>3. \A x \in Array : /\ tracker'[x].on = IF x = a THEN tracker[x].on \cup {d} ELSE tracker[x].on
                         /\ tracker'[x].nbytes = tracker[x].nbytes
    BY <1>d, <2>2
  <2>4. \A x \in Array : Bytes(x)' = Bytes(x) BY <2>3 DEF Bytes
  <2>5. ToCome = {x \in Array : x \in mapper.todo /\ d \notin tracker[x].on} BY <2>1, <2>d DEF ToCome
  <2>6. ToCome' = {x \in Array : x \in mapper.todo \ {a} /\ d \notin tracker'[x].on} BY <2>1, <2>d DEF ToCome
  <2>7. ToCome' = ToCome \ {a} BY <2>3, <2>5, <2>6
  <2>8. Busy' => Busy BY <2>1 DEF Busy
  <2>9. CASE d \in tracker[a].on
    <3>1. ToCome' = ToCome BY <2>5, <2>7, <2>9
    <3>2. avail' = avail BY <2>2, <2>9
    <3>3. \A x \in ToCome : Bytes(x)' = Bytes(x) BY <2>4, <2>5
    <3>4. \A e \in Dev : avail[e]["vcus"] <= avail'[e]["vcus"] /\ avail[e]["memory"] <= avail'[e]["memory"]
      BY <1>n, <3>2
    <3> QED BY <1>n, <2>1, <2>8, <3>1, <3>3, <3>4, PromiseKept
  <2>10. CASE d \notin tracker[a].on
    <3>1. Bytes(a) <= avail[d]["memory"] BY <2>1, <2>d, <2>10, RoomForMove
    <3>2. PICK b \in Nat : b = Bytes(a) BY <1>a, BytesAtMost DEF Trackers
    <3>3. /\ \A e \in Dev : avail'[e]["vcus"] = avail[e]["vcus"]
          /\ avail'[d]["memory"] = avail[d]["memory"] - b
      <4>1. avail' = TryTake(avail, d, b) /\ b <= avail[d]["memory"] BY <2>2, <2>10, <3>1, <3>2
      <4> QED BY <1>d, <4>1, TryTakeFacts
    <3>4. PICK S \in SUBSET Array : S = ToCome BY <2>5
    <3>5. a \in S BY <2>1, <2>5, <2>10, <3>4
    <3>6. BytesOf(S) = b + BytesOf(S \ {a}) /\ BytesOf(S \ {a}) \in Nat BY <1>a, <3>2, <3>5, BytesWithout
    <3>7. BytesOf(ToCome)' = BytesOf(S \ {a})
      <4> DEFINE R == S \ {a}
      <4>1. R \in SUBSET Array /\ \A x \in R : Bytes(x)' = Bytes(x) BY <2>4
      <4>2. ToCome' = R BY <2>7, <3>4
      <4> HIDE DEF R
      <4>3. BytesOf(R)' = BytesOf(R) BY <1>a, <4>1, BytesStay
      <4>4. BytesOf(ToCome)' = BytesOf(R)' BY <4>2 DEF BytesOf
      <4> QED BY <4>3, <4>4 DEF R
    <3>8. Busy /\ d # None BY <2>1, Constants DEF Busy
    <3>9. mapper.taken < 2 => Need[t]["vcus"] <= avail'[d]["vcus"] BY <1>a, <2>t, <2>d, <3>3, <3>8 DEF Promised
    <3>10. ASSUME mapper.taken = 0, ~RoomOn(d)
           PROVE  Need[t]["memory"] + BytesOf(S \ {a}) <= avail'[d]["memory"]
      <4>1. Need[t]["memory"] + BytesOf(S) <= avail[d]["memory"]
        BY <1>a, <2>t, <2>d, <3>4, <3>8, <3>10 DEF Promised
      <4>2. Need[t]["memory"] \in Nat /\ avail[d]["memory"] \in Nat BY <1>n, Constants
      <4> QED BY <3>3, <3>6, <4>1, <4>2
    <3> QED BY <2>1, <2>t, <2>d, <3>7, <3>9, <3>10 DEF Promised
  <2> QED BY <2>9, <2>10
<1>10. ASSUME CountMapped PROVE Promised'
  <2>1. /\ mapper.pc = "register" /\ mapper.todo = {} /\ mapper'.pc = "allocate" /\ mapper'.task = mapper.task
        /\ mapper'.taken = mapper.taken /\ mapper'.best = mapper.best /\ UNCHANGED <<avail, tracker>>
    BY <1>d, <1>10, MapperAfter DEF CountMapped
  <2>2. ToCome = {} /\ ToCome' = {} BY <2>1 DEF ToCome
  <2>3. \A e \in Dev : avail[e]["vcus"] <= avail'[e]["vcus"] /\ avail[e]["memory"] <= avail'[e]["memory"]
    BY <1>n, <2>1
  <2>4. Busy' => Busy BY <2>1 DEF Busy
  <2> QED BY <1>n, <2>1, <2>2, <2>3, <2>4, PromiseKept
<1>11. ASSUME Allocate PROVE Promised'
  <2>1. /\ mapper.pc = "allocate" /\ mapper.taken \in {0, 1} /\ mapper'.task = mapper.task
        /\ mapper'.taken = mapper.taken + 1 /\ mapper'.best = mapper.best
    <3>1. mapper.pc = "allocate" /\ mapper.taken < 2 BY <1>11, Constants DEF Allocate
    <3>2. mapper.taken \in {0, 1} BY <1>a, <3>1 DEF Types
    <3> QED BY <1>d, <1>11, <3>1, <3>2, MapperAfter
  <2>t. PICK t \in Task : t = mapper.task BY <1>a, <2>1 DEF MapperInv, Busy
  <2>d. PICK d \in Dev : d = mapper.best
    <3>1. mapper.best \in Placement[t] BY <1>a, <2>1, <2>t DEF MapperInv
    <3> QED BY <3>1, Constants
  <2>2. ASSUME mapper'.taken < 2 PROVE Need[t]["vcus"] <= avail'[d]["vcus"]
    <3>1. mapper.taken = 0 BY <2>1, <2>2
    <3>2. avail' = [avail EXCEPT ![d]["memory"] = @ - Need[t]["memory"]]
      BY <1>11, <2>t, <2>d, <3>1, Constants DEF Allocate
    <3>3. avail'[d]["vcus"] = avail[d]["vcus"] BY <1>c, <1>d, <3>2
    <3>4. Busy /\ d # None BY <2>1, Constants DEF Busy
    <3> QED BY <1>a, <2>t, <2>d, <3>1, <3>3, <3>4 DEF Promised
  <2>3. mapper'.taken # 0 BY <2>1
  <2> QED BY <2>1, <2>t, <2>d, <2>2, <2>3 DEF Promised
<1>12. \/ UNCHANGED <<avail, tracker, mapper>> \/ BeginMapping \/ PolicyBegins \/ MappingEnds
       \/ (\E d \in Dev : Consider(d)) \/ AssignmentFails \/ ConstructMoves \/ CountMapped \/ Allocate \/ Mapped
       \/ (\E a \in Array : Track(a) \/ Register(a)) \/ \E t \in Task : Suspend(t) \/ Complete(t)
  BY DEF Next, TaskStep, MapperStep, Spawn, MoveEnds, Launch, vars
<1> QED BY <1>1, <1>2, <1>3, <1>5, <1>6, <1>7, <1>8, <1>9, <1>10, <1>11, <1>12

\* Every step keeps the invariant.
LEMMA NextIInv ==
  ASSUME Fitting, IInv, [Next]_vars
  PROVE  IInv'
<1>1. Types' BY NextTypes
<1>2. QueueInv' BY NextQueueInv
<1>3. \A t \in Task : TaskInv(t)' BY NextTaskInv
<1>4. MapperInv' BY NextMapperInv
<1>5. \A a \in Array : TrackerInv(a)' BY NextTrackerInv
<1>6. Promised' BY <1>1, NextPromised
<1>7. LaunchedExact' BY NextLaunchedExact
<1>8. Trackers' BY <1>5 DEF Trackers
<1>9. Charged' BY <1>1, <1>8, NextCharged
<1>10. PoolExact' BY <1>1, <1>8, <1>9, ExactNext
<1> QED BY <1>1, <1>2, <1>3, <1>4, <1>5, <1>6, <1>7, <1>10 DEF IInv

-----------------------------------------------------------------------------
(* The theorems.                                                           *)

\* The inductive invariant, for all programs and machines that fit.
THEOREM PoolInvariant ==
  ASSUME Fitting
  PROVE  Spec => []IInv
<1>1. Init => IInv BY InitIInv
<1>2. IInv /\ [Next]_vars => IInv' BY NextIInv
<1> QED BY <1>1, <1>2, PTL DEF Spec

LEMMA IInvTypes == IInv => TypeOK
<1> SUFFICES ASSUME IInv PROVE TypeOK
  OBVIOUS
<1>a. Types /\ (\A t \in Task : TaskInv(t)) /\ (\A a \in Array : TrackerInv(a)) BY DEF IInv
<1>1. ASSUME NEW d \in Dev, NEW r \in Names PROVE avail[d][r] \in 0 .. Capacity[d][r]
  <2>1. Charged BY <1>a, ExactIsCharged DEF IInv
  <2>2. "memory" \in Names /\ "vcus" \in Names /\ r \in {"memory", "vcus"} BY Constants
  <2>3. /\ SumFunctionOnSet(HeldAt(d, "memory"), Task) \in Nat /\ SumFunctionOnSet(HeldAt(d, "vcus"), Task) \in Nat
        /\ SumFunctionOnSet(CopyAt(d), Array) \in Nat
    BY <1>a, <2>2, PoolSums
  <2>4. \A s \in Names : avail[d][s] \in Nat /\ Capacity[d][s] \in Nat BY <1>a, Constants DEF Types
  <2>5. /\ Capacity[d]["memory"] - avail[d]["memory"] =
             SumFunctionOnSet(HeldAt(d, "memory"), Task) + SumFunctionOnSet(CopyAt(d), Array)
        /\ Capacity[d]["vcus"] - avail[d]["vcus"] = SumFunctionOnSet(HeldAt(d, "vcus"), Task)
    BY <2>1 DEF Charged
  <2>6. avail[d]["memory"] <= Capacity[d]["memory"] BY <2>2, <2>3, <2>4, <2>5
  <2>7. avail[d]["vcus"] <= Capacity[d]["vcus"] BY <2>2, <2>3, <2>4, <2>5
  <2>8. avail[d][r] <= Capacity[d][r] BY <2>2, <2>6, <2>7
  <2> QED BY <2>4, <2>8
<1>2. launched \in [Dev -> 0 .. Cardinality(Task)]
  <2>1. ASSUME NEW d \in Dev PROVE launched[d] \in 0 .. Cardinality(Task)
    <3> DEFINE R == {t \in Task : place[t] = "running" /\ dev[t] = d}
    <3>1. launched[d] = Cardinality(R) BY DEF IInv, LaunchedExact
    <3>2. R \in SUBSET Task /\ IsFiniteSet(Task) BY Constants
    <3> HIDE DEF R
    <3>3. Cardinality(R) <= Cardinality(Task) /\ IsFiniteSet(R) BY <3>2, FS_Subset
    <3>4. Cardinality(R) \in Nat /\ Cardinality(Task) \in Nat BY <3>2, <3>3, FS_CardinalityType
    <3> QED BY <3>1, <3>3, <3>4
  <2> QED BY <1>a, <2>1 DEF Types
<1>3. \A t \in Task : moving[t] <= Cardinality(Uses[t]) + Cardinality(Out[t]) BY <1>a DEF TaskInv
<1>4. mapper.taken \in 0 .. Len(Resource) BY <1>a, Constants DEF Types
<1> QED BY <1>a, <1>1, <1>2, <1>3, <1>4 DEF Types, TypeOK

LEMMA IInvNeverWaits == IInv => MapperNeverWaits
<1> SUFFICES ASSUME IInv, mapper.pc = "allocate", mapper.taken < 2
             PROVE  Need[mapper.task][Resource[mapper.taken + 1]] <= avail[mapper.best][Resource[mapper.taken + 1]]
  BY Constants DEF MapperNeverWaits
<1>a. Types /\ MapperInv /\ Promised /\ Trackers BY DEF IInv, Trackers
<1>1. PICK t \in Task : t = mapper.task /\ place[t] = "mapping" BY <1>a DEF MapperInv, Busy
<1>2. PICK d \in Dev : d = mapper.best /\ dev[t] = d /\ d \in Placement[t]
  <2>1. mapper.best \in Placement[t] /\ dev[t] = mapper.best BY <1>a, <1>1 DEF MapperInv
  <2> QED BY <2>1, Constants
<1>3. Busy /\ d # None BY Constants DEF Busy
<1>4. Resource[1] = "memory" /\ Resource[2] = "vcus" /\ mapper.taken \in {0, 1} BY <1>a, Constants DEF Types
<1>5. CASE mapper.taken = 0
  <2>1. Need[t]["memory"] <= avail[d]["memory"]
    <3>1. CASE RoomOn(d)
      <4>1. Held(t, "memory") = 0 BY <1>a, <1>1, <1>5, HeldNow DEF HeldFacts
      <4>2. HeldAt(d, "memory")[t] = 0 BY <4>1 DEF HeldAt
      <4> QED BY <1>2, <3>1, <4>2, RoomForTask
    <3>2. CASE ~RoomOn(d)
      <4>1. Need[t]["memory"] + BytesOf(ToCome) <= avail[d]["memory"]
        BY <1>a, <1>1, <1>2, <1>3, <1>5, <3>2 DEF Promised
      <4>2. ToCome = {} BY DEF ToCome
      <4>3. BytesOf({}) = 0
        <5> DEFINE f == [a \in Array |-> Bytes(a)]
        <5>1. BytesOf({}) = SumFunctionOnSet(f, {}) BY DEF BytesOf
        <5>2. \A a \in Array : f[a] \in Int BY <1>a, BytesAtMost DEF Trackers
        <5>3. IsFiniteSet(Array) BY Constants
        <5> HIDE DEF f
        <5>4. SumFunctionOnSet(f, {}) = 0 BY <5>2, <5>3, SumSteps
        <5> QED BY <5>1, <5>4
      <4>4. Need[t]["memory"] \in Nat BY Constants
      <4>5. Need[t]["memory"] + 0 <= avail[d]["memory"] BY <4>1, <4>2, <4>3
      <4> QED BY <4>4, <4>5
    <3> QED BY <3>1, <3>2
  <2> QED BY <1>1, <1>2, <1>4, <1>5, <2>1
<1>6. CASE mapper.taken = 1
  <2>1. Need[t]["vcus"] <= avail[d]["vcus"] BY <1>a, <1>1, <1>2, <1>3, <1>6 DEF Promised
  <2> QED BY <1>1, <1>2, <1>4, <1>6, <2>1
<1> QED BY <1>4, <1>5, <1>6

\* The pool never holds more than the device has, nor less than nothing.
THEOREM PoolTypes ==
  ASSUME Fitting
  PROVE  Spec => []TypeOK
BY PoolInvariant, IInvTypes, PTL

\* What the pool has given away is what tasks and copies hold: no refused
\* allocation, no double return and no leak.
THEOREM PoolAlwaysExact ==
  ASSUME Fitting
  PROVE  Spec => []PoolExact
<1>1. IInv => PoolExact BY DEF IInv
<1> QED BY <1>1, PoolInvariant, PTL

\* The mapper never waits on the monitor of the device that the policy chose.
THEOREM AllocationNeverWaits ==
  ASSUME Fitting
  PROVE  Spec => []MapperNeverWaits
BY PoolInvariant, IInvNeverWaits, PTL
=============================================================================
