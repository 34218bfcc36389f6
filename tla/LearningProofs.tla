--------------------------- MODULE LearningProofs ---------------------------
(***************************************************************************)
(* What the learner is told: the projection of one skill for any number of *)
(* workers and analysis runs and any window; and the functions of the      *)
(* analysis and of the curriculum, for every input, and so for those of    *)
(* the calls that TLC evaluates.                                           *)
(***************************************************************************)
EXTENDS SkillProjection, MCFunctions, FiniteSetTheorems, TLAPS

(***************************************************************************)
(* Natural numbers, and sums of functions over finite sets.                *)
(***************************************************************************)
\* Induction: what holds 0 and the successor of each of its numbers holds them all.
LEMMA NatFromSteps ==
    ASSUME NEW S, 0 \in S, \A n \in Nat : n \in S => n + 1 \in S
    PROVE  Nat \subseteq S
<1> SUFFICES ASSUME NEW k \in Nat, k \notin S PROVE FALSE
  OBVIOUS
<1> DEFINE T == (0 .. k) \ S
<1> DEFINE f == [n \in T |-> n - 1]
<1>1. IsFiniteSet(T) /\ k \in T
  <2>1. IsFiniteSet(0 .. k) /\ T \subseteq 0 .. k /\ k \in T
    BY FS_Interval, 0 \in Int, k \in Int
  <2>2. QED
    BY <2>1, FS_Subset
<1>2. ASSUME NEW n \in T PROVE n - 1 \in T \ {k}
  <2>1. n \in Nat /\ n # 0 /\ n <= k /\ n \notin S
    OBVIOUS
  <2>2. n - 1 \in Nat /\ (n - 1) + 1 = n
    BY <2>1
  <2>3. n - 1 \notin S
    BY <2>1, <2>2
  <2>4. QED
    BY <2>1, <2>2, <2>3
<1>3. f \in Injection(T, T \ {k})
  <2>1. f \in [T -> T \ {k}]
    BY <1>2
  <2>2. \A m, n \in T : m - 1 = n - 1 => m = n
    OBVIOUS
  <2>3. QED
    BY <2>1, <2>2 DEF Injection, IsInjective
<1>4. /\ IsFiniteSet(T \ {k}) /\ Cardinality(T \ {k}) = Cardinality(T) - 1
      /\ Cardinality(T) \in Nat
  BY <1>1, FS_RemoveElement, FS_CardinalityType
<1>5. Cardinality(T) <= Cardinality(T \ {k})
  BY <1>3, <1>4, FS_Injection
<1>6. QED
  BY <1>4, <1>5

\* Some number of a set of natural numbers is the least.
LEMMA LeastNatural ==
    ASSUME NEW S \in SUBSET Nat, S # {}
    PROVE  \E n \in S : \A m \in S : n <= m
<1> SUFFICES ASSUME \A n \in S : \E m \in S : m < n PROVE FALSE
  OBVIOUS
<1> DEFINE I == {n \in Nat : \A m \in S : n <= m}
<1>1. 0 \in I
  OBVIOUS
<1>2. \A n \in Nat : n \in I => n + 1 \in I
  OBVIOUS
<1>3. Nat \subseteq I
  <2> HIDE DEF I
  <2>1. QED
  BY <1>1, <1>2, NatFromSteps
<1>4. PICK k \in S : TRUE
  OBVIOUS
<1>5. k + 1 \in I
  BY <1>3
<1>6. QED
  BY <1>4, <1>5

\* What a sum makes of a set of indices, of the sums of its subsets.
Summed(f, g, s) == IF s = {} THEN 0
                   ELSE f[CHOOSE x \in s : TRUE] + g[s \ {CHOOSE x \in s : TRUE}]
PartialSums(f, g, S) == \A s \in SUBSET S : g[s] = Summed(f, g, s)

\* The subsets of a finite set have a size, and it grows with them.
LEMMA SmallerSubset ==
    ASSUME NEW S, IsFiniteSet(S), NEW s \in SUBSET S
    PROVE  /\ IsFiniteSet(s) /\ Cardinality(s) \in Nat
           /\ Cardinality(s) = 0 <=> s = {}
           /\ s # {} => (CHOOSE x \in s : TRUE) \in s
           /\ \A x \in s : s \ {x} \in SUBSET S /\ Cardinality(s \ {x}) = Cardinality(s) - 1
<1>1. IsFiniteSet(s)
  BY FS_Subset
<1>2. Cardinality(s) \in Nat
  BY <1>1, FS_CardinalityType
<1>3. Cardinality(s) = 0 <=> s = {}
  BY <1>1, FS_EmptySet
<1>4. \A x \in s : Cardinality(s \ {x}) = Cardinality(s) - 1
  BY <1>1, FS_RemoveElement
<1>5. QED
  BY <1>1, <1>2, <1>3, <1>4

\* The partial sums exist.
LEMMA SumsExist ==
    ASSUME NEW S, IsFiniteSet(S), NEW f, \A x \in S : f[x] \in Int
    PROVE  \E g \in [SUBSET S -> Int] : PartialSums(f, g, S)
<1> DEFINE Good(g, n) == \A s \in SUBSET S : Cardinality(s) <= n => g[s] = Summed(f, g, s)
<1> DEFINE N == {n \in Nat : \E g \in [SUBSET S -> Int] : Good(g, n)}
<1>1. 0 \in N
  <2> DEFINE g == [s \in SUBSET S |-> 0]
  <2>1. g \in [SUBSET S -> Int]
    OBVIOUS
  <2>2. ASSUME NEW s \in SUBSET S, Cardinality(s) <= 0 PROVE g[s] = Summed(f, g, s)
    BY <2>2, SmallerSubset DEF Summed
  <2>3. QED
    BY <2>1, <2>2
<1>2. ASSUME NEW n \in Nat, n \in N PROVE n + 1 \in N
  <2>1. PICK g \in [SUBSET S -> Int] : Good(g, n)
    BY <1>2
  <2> DEFINE h == [s \in SUBSET S |-> IF Cardinality(s) <= n THEN g[s] ELSE Summed(f, g, s)]
  <2>2. \A s \in SUBSET S : Summed(f, g, s) \in Int
    <3> SUFFICES ASSUME NEW s \in SUBSET S, s # {}
                 PROVE  f[CHOOSE x \in s : TRUE] + g[s \ {CHOOSE x \in s : TRUE}] \in Int
      BY DEF Summed
    <3>1. (CHOOSE x \in s : TRUE) \in s
      OBVIOUS
    <3>2. QED
      BY <3>1
  <2>3. h \in [SUBSET S -> Int]
    BY <2>2
  <2>4. ASSUME NEW s \in SUBSET S, Cardinality(s) <= n + 1 PROVE h[s] = Summed(f, h, s)
    <3>1. h[s] = Summed(f, g, s)
      BY <2>1
    <3>2. CASE s = {}
      BY <3>1, <3>2 DEF Summed
    <3>3. CASE s # {}
      <4> DEFINE c == CHOOSE x \in s : TRUE
      <4>1. c \in s /\ s \ {c} \in SUBSET S
        BY <3>3
      <4> HIDE DEF c
      <4>2. Cardinality(s \ {c}) = Cardinality(s) - 1 /\ Cardinality(s) \in Nat
        BY <4>1, SmallerSubset
      <4>3. h[s \ {c}] = g[s \ {c}]
        BY <2>4, <4>1, <4>2
      <4>4. QED
        BY <3>1, <3>3, <4>3 DEF Summed, c
    <3>4. QED
      BY <3>2, <3>3
  <2>5. Good(h, n + 1)
    BY <2>4
  <2>6. n + 1 \in Nat
    OBVIOUS
  <2> HIDE DEF Good, h
  <2>7. QED
    BY <2>3, <2>5, <2>6
<1>3. Nat \subseteq N
  <2> HIDE DEF N
  <2>1. QED
    BY <1>1, <1>2, NatFromSteps
<1>4. Cardinality(S) \in N
  BY <1>3, FS_CardinalityType
<1>5. PICK g \in [SUBSET S -> Int] : Good(g, Cardinality(S))
  BY <1>4
<1>6. \A s \in SUBSET S : Cardinality(s) <= Cardinality(S)
  BY FS_Subset
<1>7. QED
  BY <1>5, <1>6 DEF PartialSums

\* There is one function of partial sums.
LEMMA SumsAgree ==
    ASSUME NEW S, IsFiniteSet(S), NEW f, NEW g, NEW h,
           PartialSums(f, g, S), PartialSums(f, h, S)
    PROVE  \A s \in SUBSET S : g[s] = h[s]
<1> DEFINE N == {n \in Nat : \A s \in SUBSET S : Cardinality(s) = n => g[s] = h[s]}
<1>1. 0 \in N
  BY SmallerSubset DEF PartialSums, Summed
<1>2. ASSUME NEW n \in Nat, n \in N PROVE n + 1 \in N
  <2> SUFFICES ASSUME NEW s \in SUBSET S, Cardinality(s) = n + 1 PROVE g[s] = h[s]
    OBVIOUS
  <2> DEFINE c == CHOOSE x \in s : TRUE
  <2>1. s # {}
    BY SmallerSubset
  <2>2. c \in s /\ s \ {c} \in SUBSET S
    BY <2>1
  <2>3. Cardinality(s \ {c}) = n
    <3>1. Cardinality(s \ {c}) = Cardinality(s) - 1
      BY <2>2, SmallerSubset
    <3>2. QED
      BY <3>1
  <2>4. g[s \ {c}] = h[s \ {c}]
    BY <1>2, <2>2, <2>3
  <2>5. QED
    BY <2>1, <2>4 DEF PartialSums, Summed
<1>3. Nat \subseteq N
  <2> HIDE DEF N
  <2>1. QED
    BY <1>1, <1>2, NatFromSteps
<1>4. QED
  BY <1>3, SmallerSubset

\* SumFunctionOnSet computes them.
LEMMA SumIsPartialSum ==
    ASSUME NEW S, IsFiniteSet(S), NEW f, NEW g \in [SUBSET S -> Int], PartialSums(f, g, S)
    PROVE  SumFunctionOnSet(f, S) = g[S]
<1> DEFINE Computes(h) ==
        h = [s \in SUBSET S |->
               IF s = {} THEN 0
               ELSE f[CHOOSE x \in s : TRUE] + h[s \ {CHOOSE x \in s : TRUE}]]
<1>1. Computes(g)
  BY DEF PartialSums, Summed
<1>2. ASSUME NEW h, Computes(h) PROVE h = g
  <2>1. PartialSums(f, h, S)
    BY <1>2 DEF PartialSums, Summed
  <2>2. \A s \in SUBSET S : g[s] = h[s]
    BY <2>1, SumsAgree
  <2>3. h = [s \in SUBSET S |-> h[s]]
    BY <1>2
  <2>4. QED
    BY <2>2, <2>3
<1>3. g = CHOOSE h : Computes(h)
  BY <1>1, <1>2
<1>4. QED
  BY <1>3 DEF SumFunctionOnSet, FoldFunctionOnSet, MapThenFoldSet

\* The sum over no index, and over the subsets of a finite set: any element can be
\* taken out first.
LEMMA SumOfSubset ==
    ASSUME NEW S, IsFiniteSet(S), NEW f, \A x \in S : f[x] \in Int, NEW T \in SUBSET S
    PROVE  /\ SumFunctionOnSet(f, T) \in Int
           /\ T = {} => SumFunctionOnSet(f, T) = 0
           /\ T # {} => \E c \in T :
                            SumFunctionOnSet(f, T) = f[c] + SumFunctionOnSet(f, T \ {c})
<1>1. PICK g \in [SUBSET S -> Int] : PartialSums(f, g, S)
  BY SumsExist
<1>2. ASSUME NEW U \in SUBSET S PROVE SumFunctionOnSet(f, U) = g[U]
  <2> DEFINE h == [s \in SUBSET U |-> g[s]]
  <2>1. h \in [SUBSET U -> Int]
    OBVIOUS
  <2>2. PartialSums(f, h, U)
    BY <1>1 DEF PartialSums, Summed
  <2>3. IsFiniteSet(U)
    BY FS_Subset
  <2> HIDE DEF h
  <2>4. SumFunctionOnSet(f, U) = h[U]
    BY <2>1, <2>2, <2>3, SumIsPartialSum
  <2>5. QED
    BY <2>4 DEF h
<1>3. g[T] = Summed(f, g, T)
  BY <1>1 DEF PartialSums
<1>4. T # {} => T \ {CHOOSE x \in T : TRUE} \in SUBSET S
  OBVIOUS
<1>5. SumFunctionOnSet(f, T) \in Int /\ (T = {} => SumFunctionOnSet(f, T) = 0)
  BY <1>2, <1>3 DEF Summed
<1>6. ASSUME T # {}
      PROVE  \E c \in T : SumFunctionOnSet(f, T) = f[c] + SumFunctionOnSet(f, T \ {c})
  <2> DEFINE c == CHOOSE x \in T : TRUE
  <2>1. c \in T
    BY <1>6
  <2>2. SumFunctionOnSet(f, T) = f[c] + SumFunctionOnSet(f, T \ {c})
    BY <1>2, <1>3, <1>4, <1>6 DEF Summed
  <2> HIDE DEF c
  <2>3. QED
    BY <2>1, <2>2
<1>7. QED
  BY <1>5, <1>6

\* Any element can be taken out of a sum first.
LEMMA SumTakesOut ==
    ASSUME NEW S, IsFiniteSet(S), NEW f, \A x \in S : f[x] \in Int, NEW a \in S
    PROVE  SumFunctionOnSet(f, S) = f[a] + SumFunctionOnSet(f, S \ {a})
<1> DEFINE N == {n \in Nat : \A T \in SUBSET S, x \in S :
                     Cardinality(T) = n /\ x \in T =>
                       SumFunctionOnSet(f, T) = f[x] + SumFunctionOnSet(f, T \ {x})}
<1>1. 0 \in N
  BY SmallerSubset
<1>2. ASSUME NEW n \in Nat, n \in N PROVE n + 1 \in N
  <2> SUFFICES ASSUME NEW T \in SUBSET S, NEW x \in T, Cardinality(T) = n + 1
               PROVE  SumFunctionOnSet(f, T) = f[x] + SumFunctionOnSet(f, T \ {x})
    OBVIOUS
  <2>1. PICK c \in T : SumFunctionOnSet(f, T) = f[c] + SumFunctionOnSet(f, T \ {c})
    BY SumOfSubset
  <2>2. CASE x = c
    BY <2>1, <2>2
  <2>3. CASE x # c
    <3>1. Cardinality(T \ {c}) = n /\ Cardinality(T \ {x}) = n
      <4>1. Cardinality(T \ {c}) = (n + 1) - 1 /\ Cardinality(T \ {x}) = (n + 1) - 1
        BY <2>1, SmallerSubset
      <4>2. QED
        BY <4>1
    <3>2. SumFunctionOnSet(f, T \ {c}) = f[x] + SumFunctionOnSet(f, (T \ {c}) \ {x})
      BY <1>2, <2>1, <2>3, <3>1
    <3>3. SumFunctionOnSet(f, T \ {x}) = f[c] + SumFunctionOnSet(f, (T \ {x}) \ {c})
      BY <1>2, <2>1, <2>3, <3>1
    <3>4. SumFunctionOnSet(f, (T \ {x}) \ {c}) = SumFunctionOnSet(f, (T \ {c}) \ {x})
      <4>1. (T \ {x}) \ {c} = (T \ {c}) \ {x}
        OBVIOUS
      <4>2. QED
        BY <4>1, Zenon
    <3>5. SumFunctionOnSet(f, (T \ {x}) \ {c}) \in Int /\ f[x] \in Int /\ f[c] \in Int
      BY SumOfSubset
    <3>6. \A p, q, r \in Int : p + (q + r) = q + (p + r)
      OBVIOUS
    <3>7. QED
      BY <2>1, <3>2, <3>3, <3>4, <3>5, <3>6
  <2>4. QED
    BY <2>2, <2>3
<1>3. Nat \subseteq N
  <2> HIDE DEF N
  <2>1. QED
    BY <1>1, <1>2, NatFromSteps
<1>4. Cardinality(S) \in N
  BY <1>3, FS_CardinalityType
<1>5. QED
  BY <1>4

(***************************************************************************)
(* Orders, and the projection of a skill.                                  *)
(***************************************************************************)
\* A strict total order of the rows of S.
IsOrder(S, R) ==
    /\ \A r \in S : <<r, r>> \notin R
    /\ \A r, s, t \in S : <<r, s>> \in R /\ <<s, t>> \in R => <<r, t>> \in R
    /\ \A r, s \in S : r # s => <<r, s>> \in R \/ <<s, r>> \in R

Later(v, V, R) == {u \in V : <<v, u>> \in R}

\* Of rows in order, fewer come after a later one.
LEMMA LaterHasFewer ==
    ASSUME NEW V, IsFiniteSet(V), NEW R, IsOrder(V, R), NEW r \in V, NEW s \in V,
           <<r, s>> \in R
    PROVE  Cardinality(Later(s, V, R)) < Cardinality(Later(r, V, R))
<1>1. Later(s, V, R) \subseteq Later(r, V, R) /\ Later(r, V, R) \subseteq V
  BY DEF Later, IsOrder
<1>2. s \in Later(r, V, R) /\ s \notin Later(s, V, R)
  BY DEF Later, IsOrder
<1>3. IsFiniteSet(Later(r, V, R))
  BY <1>1, FS_Subset
<1>4. /\ Cardinality(Later(s, V, R)) <= Cardinality(Later(r, V, R))
      /\ Cardinality(Later(s, V, R)) # Cardinality(Later(r, V, R))
      /\ IsFiniteSet(Later(s, V, R))
  BY <1>1, <1>2, <1>3, FS_Subset
<1>5. Cardinality(Later(s, V, R)) \in Nat /\ Cardinality(Later(r, V, R)) \in Nat
  BY <1>3, <1>4, FS_CardinalityType
<1>6. QED
  BY <1>4, <1>5

\* The limit of the query: at most Window runs, all of them among the rows.
LEMMA NewestBounded ==
    ASSUME NEW V, IsFiniteSet(V), NEW R, IsOrder(V, R)
    PROVE  /\ Newest(V, R) \subseteq {r.run : r \in V}
           /\ IsFiniteSet(Newest(V, R)) /\ Cardinality(Newest(V, R)) <= Window
<1> DEFINE N == {v \in V : Cardinality(Later(v, V, R)) < Window}
<1> DEFINE f == [v \in N |-> Cardinality(Later(v, V, R))]
<1> DEFINE g == [v \in N |-> v.run]
<1>1. Newest(V, R) = {r.run : r \in N}
  BY DEF Newest, Later
<1>2. \A v \in N : Cardinality(Later(v, V, R)) \in 0 .. Window - 1
  <2> SUFFICES ASSUME NEW v \in N PROVE Cardinality(Later(v, V, R)) \in 0 .. Window - 1
    OBVIOUS
  <2>1. IsFiniteSet(Later(v, V, R))
    BY FS_Subset DEF Later
  <2>2. Cardinality(Later(v, V, R)) \in Nat
    BY <2>1, FS_CardinalityType
  <2>3. QED
    BY <2>2, WindowAssumption
<1>3. ASSUME NEW v \in N, NEW w \in N, v # w
      PROVE  Cardinality(Later(v, V, R)) # Cardinality(Later(w, V, R))
  <2>1. v \in V /\ w \in V /\ (<<v, w>> \in R \/ <<w, v>> \in R)
    BY <1>3 DEF IsOrder
  <2>2. \/ Cardinality(Later(v, V, R)) < Cardinality(Later(w, V, R))
        \/ Cardinality(Later(w, V, R)) < Cardinality(Later(v, V, R))
    BY <2>1, LaterHasFewer
  <2>3. QED
    BY <1>2, <2>2
<1>4. f \in Injection(N, 0 .. Window - 1)
  <2>1. \A v, w \in N : f[v] = f[w] => v = w
    BY <1>3
  <2>2. f \in [N -> 0 .. Window - 1]
    BY <1>2
  <2>3. QED
    BY <2>1, <2>2 DEF Injection, IsInjective
<1>5. IsFiniteSet(0 .. Window - 1) /\ Cardinality(0 .. Window - 1) = Window
  <2>1. 0 \in Int /\ Window - 1 \in Int /\ Window \in Nat \ {0}
    BY WindowAssumption
  <2>2. QED
    BY <2>1, FS_Interval
<1>6. IsFiniteSet(N) /\ Cardinality(N) <= Window
  BY <1>4, <1>5, FS_Injection
<1>7. g \in Surjection(N, Newest(V, R))
  BY <1>1 DEF Surjection
<1>8. IsFiniteSet(Newest(V, R)) /\ Cardinality(Newest(V, R)) <= Cardinality(N)
  BY <1>6, <1>7, FS_Surjection
<1>9. Cardinality(N) \in Nat /\ Cardinality(Newest(V, R)) \in Nat /\ Window \in Nat
  BY <1>6, <1>8, FS_CardinalityType, WindowAssumption
<1>10. QED
  BY <1>1, <1>6, <1>8, <1>9

\* The row that no other follows is in the window.
LEMMA LastIsNewest ==
    ASSUME NEW V, NEW R, NEW r \in V, \A u \in V : <<r, u>> \notin R
    PROVE  r.run \in Newest(V, R)
<1>1. Later(r, V, R) = {}
  BY DEF Later
<1>2. Cardinality(Later(r, V, R)) < Window
  BY <1>1, FS_EmptySet, WindowAssumption
<1>3. QED
  BY <1>2 DEF Newest, Later

-----------------------------------------------------------------------------

InTransaction == {"gathered", "looked", "stored"}

\* The rows: as many as were inserted, in one order, and of measured responses.
RowsShape ==
    /\ IsFiniteSet(rows)
    /\ IsOrder(rows, earlier)
    /\ \A r \in rows : r.run \in measured

\* A job that is owned is open.
OwnedIsOpen == \A x \in Runs : owner[x] # NoWorker => job[x] = "open"

\* One committed row of each run that completed with a measured response, no other.
RowsOfCompletion ==
    /\ \A r \in committed : job[r.run] = "completed"
    /\ \A r, s \in committed : r.run = s.run => r = s
    /\ \A x \in Runs : job[x] = "completed" /\ x \in measured => x \in CommittedRuns

\* A worker that still owns its job has a row of its own to commit, and a projection
\* that counts it; a stale one may have neither.
OwnerHasRow(w) ==
    pc[w] \in InTransaction /\ owner[task[w]] = w =>
        /\ task[w] \in measured => Own(w) \in rows \ committed /\ source[w] # {}
        /\ task[w] \notin measured => source[w] = {}

\* A projection that is still to be committed rests on committed rows and on those that
\* are committed with it.
SourceShape(w) ==
    /\ pc[w] \notin InTransaction => source[w] = {}
    /\ source[w] \subseteq CommittedRuns \union {r.run : r \in Pending(w)}
    /\ Cardinality(source[w]) <= Window

SkillInv ==
    /\ TypeOK
    /\ RowsShape
    /\ OwnedIsOpen
    /\ RowsOfCompletion
    /\ \A w \in Workers : OwnerHasRow(w) /\ SourceShape(w)
    /\ ProjectionGrounded

-----------------------------------------------------------------------------

\* Taking rows away leaves an order of the others.
LEMMA OrderOfSubset ==
    ASSUME NEW S, NEW R, IsOrder(S, R), NEW T \in SUBSET S, NEW Q,
           \A r, s \in T : <<r, s>> \in Q <=> <<r, s>> \in R
    PROVE  IsOrder(T, Q)
  BY DEF IsOrder

\* A new row comes after all the others.
LEMMA OrderExtended ==
    ASSUME NEW S, NEW R \in SUBSET (S \X S), IsOrder(S, R), NEW o, o \notin S
    PROVE  IsOrder(S \union {o}, R \union (S \X {o}))
  BY DEF IsOrder

\* A transaction has inserted at most the row of its own task.
LEMMA PendingIsOwn ==
    ASSUME TypeOK, NEW w \in Workers
    PROVE  /\ Pending(w) \subseteq {Own(w)}
           /\ pc[w] \notin InTransaction => Pending(w) = {}
<1>1. ASSUME NEW r \in Pending(w) PROVE r = Own(w) /\ pc[w] \in InTransaction
  <2>1. r \in Row /\ r \in rows \ committed /\ r.by = w
    BY DEF Pending, TypeOK
  <2>2. pc[w] \notin {"idle", "working"} /\ task[w] = r.run
    BY <2>1 DEF TypeOK
  <2>3. r = [run |-> r.run, by |-> r.by]
    BY <2>1 DEF Row
  <2>4. QED
    BY <2>1, <2>2, <2>3 DEF Own, TypeOK, InTransaction
<1>2. QED
  BY <1>1

\* The end of a transaction that commits nothing, whether its job stays or fails.
LEMMA RollbackKeeps ==
    ASSUME SkillInv, NEW w \in Workers, pc[w] # "idle", Rollback(w),
           UNCHANGED jobs \/ FailJob(w)
    PROVE  SkillInv'
<1>1. /\ pc' \in [Workers -> {"idle", "working", "gathered", "looked", "stored"}]
      /\ pc'[w] = "idle" /\ \A v \in Workers \ {w} : pc'[v] = pc[v]
      /\ rows' = rows \ Pending(w)
      /\ earlier' = {e \in earlier : e[1] \notin Pending(w) /\ e[2] \notin Pending(w)}
      /\ source' \in [Workers -> SUBSET Runs]
      /\ source'[w] = {} /\ \A v \in Workers \ {w} : source'[v] = source[v]
      /\ found' \in [Workers -> BOOLEAN]
      /\ committed' = committed /\ task' = task /\ state' = state /\ measured' = measured
  <2>1. found' = [found EXCEPT ![w] = FALSE] /\ found \in [Workers -> BOOLEAN]
    BY DEF Rollback, SkillInv, TypeOK
  <2>2. found' \in [Workers -> BOOLEAN]
    BY <2>1
  <2>3. QED
    BY <2>2 DEF Rollback, Goto, Discard, SkillInv, TypeOK
<1>2. /\ job' \in [Runs -> {"open", "completed", "failed"}]
      /\ owner' \in [Runs -> Workers \union {NoWorker}] /\ live' \subseteq Runs
      /\ \A x \in Runs : owner'[x] \in {owner[x], NoWorker}
      /\ \A x \in Runs : job'[x] # job[x] =>
            job[x] = "open" /\ job'[x] = "failed" /\ owner'[x] = NoWorker
  <2>1. /\ job \in [Runs -> {"open", "completed", "failed"}]
        /\ owner \in [Runs -> Workers \union {NoWorker}] /\ live \subseteq Runs
        /\ task[w] \in Runs
    BY DEF SkillInv, TypeOK
  <2>2. CASE UNCHANGED jobs
    BY <2>1, <2>2 DEF jobs
  <2>3. CASE FailJob(w)
    <3>1. CASE owner[task[w]] = w
      <4>1. job[task[w]] = "open"
        BY <2>1, <3>1, WorkersAssumption DEF SkillInv, OwnedIsOpen
      <4>2. /\ job' = [job EXCEPT ![task[w]] = "failed"]
            /\ owner' = [owner EXCEPT ![task[w]] = NoWorker]
            /\ live' = live \ {task[w]}
        BY <2>3, <3>1 DEF FailJob
      <4>3. QED
        BY <2>1, <4>1, <4>2
    <3>2. CASE owner[task[w]] # w
      <4>1. job' = job /\ owner' = owner /\ live' = live
        BY <2>3, <3>2 DEF FailJob
      <4>2. QED
        BY <2>1, <4>1
    <3>3. QED
      BY <3>1, <3>2
  <2>4. QED
    BY <2>2, <2>3
<1>3. Pending(w)' = {} /\ \A v \in Workers \ {w} : Pending(v)' = Pending(v)
  BY <1>1 DEF Pending
<1>4. committed' \subseteq rows' /\ rows' \subseteq rows
  BY <1>1 DEF SkillInv, TypeOK, Pending
<1>5. TypeOK'
  <2>1. earlier' \subseteq rows' \X rows'
    BY <1>1 DEF SkillInv, TypeOK
  <2>2. \A r \in rows' \ committed' :
            pc'[r.by] \notin {"idle", "working"} /\ task'[r.by] = r.run
    <3>1. \A r \in rows' \ committed' : r \in rows \ committed /\ r.by \in Workers \ {w}
      BY <1>1 DEF SkillInv, TypeOK, Pending, Row
    <3>2. QED
      BY <1>1, <3>1 DEF SkillInv, TypeOK
  <2>3. QED
    BY <1>1, <1>2, <1>4, <2>1, <2>2 DEF SkillInv, TypeOK
<1>6. RowsShape'
  <2>1. IsFiniteSet(rows')
    BY <1>4, FS_Subset DEF SkillInv, RowsShape
  <2>2. \A r, s \in rows' : <<r, s>> \in earlier' <=> <<r, s>> \in earlier
    BY <1>1
  <2>3. IsOrder(rows', earlier')
    <3>1. IsOrder(rows, earlier) /\ rows' \in SUBSET rows
      BY <1>4 DEF SkillInv, RowsShape
    <3>2. QED
      BY <2>2, <3>1, OrderOfSubset
  <2>4. QED
    BY <1>1, <1>4, <2>1, <2>3 DEF SkillInv, RowsShape
<1>7. OwnedIsOpen'
  BY <1>2 DEF SkillInv, OwnedIsOpen
<1>8. RowsOfCompletion' /\ ProjectionGrounded'
  <2>1. CommittedRuns' = CommittedRuns /\ CommittedRuns \subseteq Runs
    BY <1>1 DEF CommittedRuns, SkillInv, TypeOK, Row
  <2>2. \A r \in committed : r.run \in Runs
    BY DEF SkillInv, TypeOK, Row
  <2>3. QED
    BY <1>1, <1>2, <2>1, <2>2 DEF SkillInv, RowsOfCompletion, ProjectionGrounded
<1>9. ASSUME NEW v \in Workers PROVE OwnerHasRow(v)' /\ SourceShape(v)'
  <2>1. CommittedRuns' = CommittedRuns
    BY <1>1 DEF CommittedRuns
  <2>2. CASE v = w
    <3>1. Cardinality({}) = 0 /\ 0 <= Window
      BY FS_EmptySet, WindowAssumption
    <3>2. QED
      BY <1>1, <2>2, <3>1 DEF OwnerHasRow, SourceShape, InTransaction
  <2>3. CASE v # w
    <3>1. SourceShape(v)'
      BY <1>1, <1>3, <2>1, <2>3 DEF SkillInv, SourceShape
    <3>2. task[v] \in Runs
      BY DEF SkillInv, TypeOK
    <3>3. Own(v)' = Own(v) /\ (Own(v) \in rows \ committed => Own(v) \in rows' \ committed')
      BY <1>1, <2>3 DEF Own, Pending
    <3>4. owner'[task'[v]] = v => owner[task[v]] = v
      BY <1>1, <1>2, <3>2, WorkersAssumption
    <3>5. OwnerHasRow(v)'
      BY <1>1, <2>3, <3>3, <3>4 DEF SkillInv, OwnerHasRow
    <3>6. QED
      BY <3>1, <3>5
  <2>4. QED
    BY <2>2, <2>3
<1>10. QED
  BY <1>5, <1>6, <1>7, <1>8, <1>9 DEF SkillInv

\* A worker takes a job that has no live owner.
LEMMA ClaimKeeps ==
    ASSUME SkillInv, NEW w \in Workers, NEW x \in Runs, Claim(w, x)
    PROVE  SkillInv'
<1>1. /\ pc[w] = "idle" /\ job[x] = "open" /\ job' = job
      /\ owner' = [owner EXCEPT ![x] = w] /\ live' = live \union {x}
      /\ task' = [task EXCEPT ![w] = x] /\ pc' = [pc EXCEPT ![w] = "working"]
      /\ measured' = measured /\ state' = state /\ source' = source /\ found' = found
      /\ rows' = rows /\ committed' = committed /\ earlier' = earlier
  BY DEF Claim, Goto, evidence
<1>2. TypeOK'
  <2>1. \A r \in rows' \ committed' :
            pc'[r.by] \notin {"idle", "working"} /\ task'[r.by] = r.run
    <3>1. \A r \in rows \ committed : r.by \in Workers /\ r.by # w
      BY <1>1 DEF SkillInv, TypeOK, Row
    <3>2. QED
      BY <1>1, <3>1 DEF SkillInv, TypeOK
  <2>2. QED
    BY <1>1, <2>1 DEF SkillInv, TypeOK
<1>3. RowsShape'
  BY <1>1 DEF SkillInv, RowsShape
<1>4. OwnedIsOpen'
  BY <1>1 DEF SkillInv, OwnedIsOpen, TypeOK
<1>5. RowsOfCompletion' /\ ProjectionGrounded' /\ CommittedRuns' = CommittedRuns
  BY <1>1 DEF SkillInv, RowsOfCompletion, ProjectionGrounded, CommittedRuns
<1>6. ASSUME NEW v \in Workers PROVE OwnerHasRow(v)' /\ SourceShape(v)'
  <2>1. Pending(v)' = Pending(v)
    BY <1>1 DEF Pending
  <2>2. SourceShape(v)'
    <3>1. pc'[v] \notin InTransaction => pc[v] \notin InTransaction
      BY <1>1 DEF SkillInv, TypeOK, InTransaction
    <3>2. QED
      BY <1>1, <1>5, <2>1, <3>1 DEF SkillInv, SourceShape
  <2>3. CASE v = w
    <3>1. pc'[v] = "working"
      BY <1>1, <2>3 DEF SkillInv, TypeOK
    <3>2. QED
      BY <2>2, <3>1 DEF OwnerHasRow, InTransaction
  <2>4. CASE v # w
    <3>1. pc'[v] = pc[v] /\ task'[v] = task[v] /\ Own(v)' = Own(v)
      BY <1>1, <2>4 DEF Own
    <3>2. owner'[task'[v]] = v => owner[task[v]] = v
      BY <1>1, <2>4, <3>1 DEF SkillInv, TypeOK
    <3>3. QED
      BY <1>1, <2>2, <3>1, <3>2 DEF SkillInv, OwnerHasRow
  <2>5. QED
    BY <2>2, <2>3, <2>4
<1>7. QED
  BY <1>2, <1>3, <1>4, <1>5, <1>6 DEF SkillInv

\* Steps that touch neither rows nor jobs: a lease runs out, the state is looked up, or
\* the projection is flushed.
LEMMA QuietKeeps ==
    ASSUME SkillInv,
           UNCHANGED <<job, owner, measured, evidence, state, task, source>>,
           live' \subseteq Runs, found' \in [Workers -> BOOLEAN],
           pc' \in [Workers -> {"idle", "working", "gathered", "looked", "stored"}],
           \A v \in Workers : pc'[v] = pc[v] \/ (pc[v] \in InTransaction /\ pc'[v] \in InTransaction)
    PROVE  SkillInv'
<1>1. /\ job' = job /\ owner' = owner /\ measured' = measured /\ state' = state
      /\ task' = task /\ source' = source
      /\ rows' = rows /\ committed' = committed /\ earlier' = earlier
  BY DEF evidence
<1>2. TypeOK'
  <2>1. \A r \in rows' \ committed' :
            pc'[r.by] \notin {"idle", "working"} /\ task'[r.by] = r.run
    <3>1. \A r \in rows \ committed : r.by \in Workers /\ pc[r.by] \notin {"idle", "working"}
                                      /\ task[r.by] = r.run
      BY DEF SkillInv, TypeOK, Row
    <3>2. QED
      BY <1>1, <3>1 DEF InTransaction
  <2>2. QED
    BY <1>1, <2>1 DEF SkillInv, TypeOK
<1>3. RowsShape' /\ OwnedIsOpen'
  BY <1>1 DEF SkillInv, RowsShape, OwnedIsOpen
<1>4. RowsOfCompletion' /\ ProjectionGrounded' /\ CommittedRuns' = CommittedRuns
  BY <1>1 DEF SkillInv, RowsOfCompletion, ProjectionGrounded, CommittedRuns
<1>5. ASSUME NEW v \in Workers PROVE OwnerHasRow(v)' /\ SourceShape(v)'
  <2>1. Pending(v)' = Pending(v) /\ Own(v)' = Own(v)
    BY <1>1 DEF Pending, Own
  <2>2. pc'[v] \in InTransaction <=> pc[v] \in InTransaction
    OBVIOUS
  <2>3. SourceShape(v)'
    BY <1>1, <1>4, <2>1, <2>2 DEF SkillInv, SourceShape
  <2>4. OwnerHasRow(v)'
    BY <1>1, <2>1, <2>2 DEF SkillInv, OwnerHasRow
  <2>5. QED
    BY <2>3, <2>4
<1>6. QED
  BY <1>2, <1>3, <1>4, <1>5 DEF SkillInv

\* Steps of one worker inside its transaction that add no row: its response is no
\* evidence, or its run has a committed row.
LEMMA GatherNothing ==
    ASSUME SkillInv, NEW w \in Workers, Gather(w),
           task[w] \notin measured \/ task[w] \in CommittedRuns
    PROVE  SkillInv'
<1>1. /\ pc[w] = "working" /\ task[w] \in Runs
      /\ rows' = rows /\ committed' = committed /\ earlier' = earlier
      /\ job' = job /\ owner' = owner /\ live' = live /\ measured' = measured
      /\ state' = state /\ task' = task /\ found' = found
  BY DEF Gather, jobs, SkillInv, TypeOK
<1>2. /\ pc' \in [Workers -> {"idle", "working", "gathered", "looked", "stored"}]
      /\ pc'[w] \in InTransaction /\ \A v \in Workers \ {w} : pc'[v] = pc[v]
  BY DEF Gather, Goto, SkillInv, TypeOK, InTransaction
<1>3. Pending(w) = {} /\ \A v \in Workers : Pending(v)' = Pending(v) /\ Own(v)' = Own(v)
  <2>1. Pending(w) = {}
    BY <1>1, PendingIsOwn DEF SkillInv, InTransaction
  <2>2. QED
    BY <1>1, <2>1 DEF Pending, Own
<1>4. /\ source' \in [Workers -> SUBSET Runs] /\ \A v \in Workers \ {w} : source'[v] = source[v]
      /\ source'[w] \subseteq CommittedRuns /\ Cardinality(source'[w]) <= Window
      /\ task[w] \notin measured => source'[w] = {}
  <2>1. CommittedRuns \subseteq Runs /\ source \in [Workers -> SUBSET Runs]
    BY DEF CommittedRuns, SkillInv, TypeOK, Row
  <2>2. CASE task[w] \notin measured
    <3>1. source' = source /\ source[w] = {}
      BY <1>1, <2>2 DEF Gather, SkillInv, SourceShape, InTransaction
    <3>2. Cardinality({}) = 0 /\ 0 <= Window
      BY FS_EmptySet, WindowAssumption
    <3>3. QED
      BY <2>1, <3>1, <3>2
  <2>3. CASE task[w] \in measured /\ task[w] \in CommittedRuns
    <3> DEFINE V == committed \union {r \in rows : r.by = w}
    <3>1. source' = [source EXCEPT ![w] = Newest(V, earlier)]
      BY <1>1, <2>3 DEF Gather
    <3>2. V = committed
      BY <1>3 DEF Pending
    <3>3. IsFiniteSet(committed) /\ IsOrder(committed, earlier)
      BY FS_Subset DEF SkillInv, RowsShape, TypeOK, IsOrder
    <3>4. /\ Newest(V, earlier) \subseteq CommittedRuns
          /\ Cardinality(Newest(V, earlier)) <= Window
      BY <3>2, <3>3, NewestBounded DEF CommittedRuns
    <3> HIDE DEF V
    <3>5. QED
      BY <2>1, <2>3, <3>1, <3>4
  <2>4. QED
    BY <2>2, <2>3
<1>5. TypeOK'
  <2>1. \A r \in rows' \ committed' :
            pc'[r.by] \notin {"idle", "working"} /\ task'[r.by] = r.run
    <3>1. \A r \in rows \ committed : r.by \in Workers \ {w}
      BY <1>1 DEF SkillInv, TypeOK, Row
    <3>2. QED
      BY <1>1, <1>2, <3>1 DEF SkillInv, TypeOK
  <2>2. QED
    BY <1>1, <1>2, <1>4, <2>1 DEF SkillInv, TypeOK
<1>6. RowsShape' /\ OwnedIsOpen'
  BY <1>1 DEF SkillInv, RowsShape, OwnedIsOpen
<1>7. RowsOfCompletion' /\ ProjectionGrounded' /\ CommittedRuns' = CommittedRuns
  BY <1>1 DEF SkillInv, RowsOfCompletion, ProjectionGrounded, CommittedRuns
<1>8. ASSUME NEW v \in Workers PROVE OwnerHasRow(v)' /\ SourceShape(v)'
  <2>1. CASE v = w
    <3>1. SourceShape(w)'
      BY <1>2, <1>4, <1>7 DEF SourceShape
    <3>2. task[w] \in CommittedRuns => owner[task[w]] # w
      <4>1. task[w] \in CommittedRuns => job[task[w]] = "completed"
        BY DEF CommittedRuns, SkillInv, RowsOfCompletion
      <4>2. QED
        BY <1>1, <4>1, WorkersAssumption DEF SkillInv, OwnedIsOpen
    <3>3. OwnerHasRow(w)'
      BY <1>1, <1>4, <3>2 DEF OwnerHasRow
    <3>4. QED
      BY <2>1, <3>1, <3>3
  <2>2. CASE v # w
    BY <1>1, <1>2, <1>3, <1>4, <1>7, <2>2 DEF SkillInv, OwnerHasRow, SourceShape
  <2>3. QED
    BY <2>1, <2>2
<1>9. QED
  BY <1>5, <1>6, <1>7, <1>8 DEF SkillInv

\* A worker inserts the row of its run: the last one, and the newest it reads.
LEMMA GatherInserts ==
    ASSUME SkillInv, NEW w \in Workers, Gather(w),
           task[w] \in measured, task[w] \notin CommittedRuns
    PROVE  SkillInv'
<1> DEFINE o == Own(w)
<1> DEFINE V == committed \union {r \in rows' : r.by = w}
<1>1. /\ pc[w] = "working" /\ task[w] \in Runs
      /\ rows' = rows \union {o} /\ earlier' = earlier \union (rows \X {o})
      /\ committed' = committed
      /\ job' = job /\ owner' = owner /\ live' = live /\ measured' = measured
      /\ state' = state /\ task' = task /\ found' = found
      /\ source' = [source EXCEPT ![w] = Newest(V, earlier')]
  BY DEF Gather, jobs, SkillInv, TypeOK
<1>2. /\ pc' \in [Workers -> {"idle", "working", "gathered", "looked", "stored"}]
      /\ pc'[w] = "gathered" /\ \A v \in Workers \ {w} : pc'[v] = pc[v]
  BY DEF Gather, Goto, SkillInv, TypeOK
<1>3. o \in Row /\ o.run = task[w] /\ o.by = w
  BY <1>1 DEF Own, Row
<1>4. Pending(w) = {}
  BY <1>1, PendingIsOwn DEF SkillInv, InTransaction
<1>5. o \notin rows
  <2>1. o \notin committed
    BY <1>3 DEF CommittedRuns
  <2>2. QED
    BY <1>3, <1>4, <2>1 DEF Pending
<1>6. /\ Pending(w)' = {o} /\ Own(w)' = o
      /\ \A v \in Workers \ {w} : Pending(v)' = Pending(v) /\ Own(v)' = Own(v)
  <2>1. o \notin committed
    BY <1>5 DEF SkillInv, TypeOK
  <2>2. QED
    BY <1>1, <1>3, <1>4, <2>1 DEF Pending, Own
<1>7. V = committed \union {o}
  BY <1>1, <1>3, <1>4 DEF Pending
<1>8. RowsShape'
  <2>1. IsFiniteSet(rows')
    BY <1>1, FS_AddElement DEF SkillInv, RowsShape
  <2>2. IsOrder(rows', earlier')
    <3>1. earlier \in SUBSET (rows \X rows) /\ IsOrder(rows, earlier)
      BY DEF SkillInv, RowsShape, TypeOK
    <3>2. IsOrder(rows \union {o}, earlier \union (rows \X {o}))
      BY <1>5, <3>1, OrderExtended
    <3>3. QED
      BY <1>1, <3>2
  <2>3. QED
    BY <1>1, <1>3, <2>1, <2>2 DEF SkillInv, RowsShape
<1>9. /\ Newest(V, earlier') \subseteq CommittedRuns \union {task[w]}
      /\ Cardinality(Newest(V, earlier')) <= Window
      /\ task[w] \in Newest(V, earlier')
  <2>1. V \subseteq rows' /\ IsFiniteSet(V) /\ IsOrder(V, earlier')
    <3>1. V \subseteq rows'
      BY <1>1, <1>7 DEF SkillInv, TypeOK
    <3>2. IsFiniteSet(V)
      BY <1>8, <3>1, FS_Subset DEF RowsShape
    <3>3. QED
      BY <1>8, <3>1, <3>2 DEF RowsShape, IsOrder
  <2>2. {r.run : r \in V} \subseteq CommittedRuns \union {task[w]}
    BY <1>3, <1>7 DEF CommittedRuns
  <2>3. o \in V /\ \A u \in V : <<o, u>> \notin earlier'
    <3>1. V \subseteq rows \union {o} /\ o \in V
      BY <1>7 DEF SkillInv, TypeOK
    <3>2. \A u \in V : <<o, u>> \notin earlier /\ <<o, u>> \notin rows \X {o}
      BY <1>5 DEF SkillInv, TypeOK
    <3>3. QED
      BY <1>1, <3>1, <3>2
  <2> HIDE DEF V, o
  <2>4. QED
    BY <1>3, <2>1, <2>2, <2>3, NewestBounded, LastIsNewest
<1> HIDE DEF V
<1>10. TypeOK'
  <2>1. rows' \subseteq Row /\ committed' \subseteq rows' /\ earlier' \subseteq rows' \X rows'
    BY <1>1, <1>3 DEF SkillInv, TypeOK
  <2>2. \A r \in rows' \ committed' :
            pc'[r.by] \notin {"idle", "working"} /\ task'[r.by] = r.run
    <3>1. \A r \in rows \ committed : r.by \in Workers \ {w}
      BY <1>1 DEF SkillInv, TypeOK, Row
    <3>2. QED
      BY <1>1, <1>2, <1>3, <3>1 DEF SkillInv, TypeOK
  <2>3. source' \in [Workers -> SUBSET Runs]
    <3>1. CommittedRuns \subseteq Runs
      BY DEF CommittedRuns, SkillInv, TypeOK, Row
    <3>2. QED
      BY <1>1, <1>9, <3>1 DEF SkillInv, TypeOK
  <2>4. QED
    BY <1>1, <1>2, <2>1, <2>2, <2>3 DEF SkillInv, TypeOK
<1>11. OwnedIsOpen'
  BY <1>1 DEF SkillInv, OwnedIsOpen
<1>12. RowsOfCompletion' /\ ProjectionGrounded' /\ CommittedRuns' = CommittedRuns
  BY <1>1 DEF SkillInv, RowsOfCompletion, ProjectionGrounded, CommittedRuns
<1>13. ASSUME NEW v \in Workers PROVE OwnerHasRow(v)' /\ SourceShape(v)'
  <2>1. CASE v = w
    <3>1. source'[w] = Newest(V, earlier')
      BY <1>1 DEF SkillInv, TypeOK
    <3>2. {r.run : r \in Pending(w)'} = {task[w]}
      BY <1>3, <1>6
    <3>3. SourceShape(w)'
      BY <1>2, <1>9, <1>12, <3>1, <3>2 DEF SourceShape, InTransaction
    <3>4. o \in rows' \ committed'
      BY <1>1, <1>5 DEF SkillInv, TypeOK
    <3>5. OwnerHasRow(w)'
      BY <1>1, <1>6, <1>9, <3>1, <3>4 DEF OwnerHasRow
    <3>6. QED
      BY <2>1, <3>3, <3>5
  <2>2. CASE v # w
    <3>1. source'[v] = source[v]
      BY <1>1, <2>2 DEF SkillInv, TypeOK
    <3>2. rows \subseteq rows'
      BY <1>1
    <3>3. QED
      BY <1>1, <1>2, <1>6, <1>12, <2>2, <3>1, <3>2 DEF SkillInv, OwnerHasRow, SourceShape
  <2>3. QED
    BY <2>1, <2>2
<1>14. QED
  BY <1>8, <1>10, <1>11, <1>12, <1>13 DEF SkillInv

\* The worker that still owns its job commits the row, the projection and the
\* completion at once.
LEMMA CommitKeeps ==
    ASSUME SkillInv, NEW w \in Workers, Commit(w), Fenced(w)
    PROVE  SkillInv'
<1> DEFINE x == task[w]
<1>1. /\ pc[w] = "stored" /\ x \in Runs /\ owner[x] = w
      /\ committed' = committed \union Pending(w)
      /\ state' = IF source[w] # {} THEN source[w] ELSE state
      /\ job' = [job EXCEPT ![x] = "completed"]
      /\ owner' = [owner EXCEPT ![x] = NoWorker]
      /\ live' = live \ {x}
      /\ rows' = rows /\ earlier' = earlier /\ measured' = measured /\ task' = task
  BY DEF Commit, Fenced, SkillInv, TypeOK
<1>2. /\ pc' \in [Workers -> {"idle", "working", "gathered", "looked", "stored"}]
      /\ pc'[w] = "idle" /\ \A v \in Workers \ {w} : pc'[v] = pc[v]
      /\ source' \in [Workers -> SUBSET Runs]
      /\ source'[w] = {} /\ \A v \in Workers \ {w} : source'[v] = source[v]
  BY DEF Commit, Fenced, Goto, SkillInv, TypeOK
<1>3. found' \in [Workers -> BOOLEAN]
  <2>1. found' = [found EXCEPT ![w] = FALSE] /\ found \in [Workers -> BOOLEAN]
    BY DEF Commit, Fenced, SkillInv, TypeOK
  <2>2. QED
    BY <2>1
<1>4. /\ x \in measured => Pending(w) = {Own(w)} /\ source[w] # {}
      /\ x \notin measured => Pending(w) = {} /\ source[w] = {}
  <2>1. OwnerHasRow(w) /\ pc[w] \in InTransaction
    BY <1>1 DEF SkillInv, InTransaction
  <2>2. Pending(w) \subseteq {Own(w)}
    BY PendingIsOwn DEF SkillInv
  <2>3. Own(w) \in rows => x \in measured
    BY DEF SkillInv, RowsShape, Own
  <2>4. QED
    BY <1>1, <2>1, <2>2, <2>3 DEF OwnerHasRow, Pending, Own
<1>5. job[x] = "open"
  BY <1>1, WorkersAssumption DEF SkillInv, OwnedIsOpen
<1>6. /\ x \in measured => CommittedRuns' = CommittedRuns \union {x}
      /\ x \notin measured => CommittedRuns' = CommittedRuns
  <2>1. CommittedRuns' = CommittedRuns \union {r.run : r \in Pending(w)}
    BY <1>1 DEF CommittedRuns
  <2>2. {r.run : r \in {Own(w)}} = {x}
    BY DEF Own
  <2>3. {r.run : r \in {}} = {}
    OBVIOUS
  <2>4. QED
    BY <1>4, <2>1, <2>2, <2>3
<1>7. \A v \in Workers \ {w} : Pending(v)' = Pending(v) /\ Own(v)' = Own(v)
  BY <1>1 DEF Pending, Own
<1>8. TypeOK'
  <2>1. committed' \subseteq rows'
    BY <1>1 DEF Pending, SkillInv, TypeOK
  <2>2. \A r \in rows' \ committed' :
            pc'[r.by] \notin {"idle", "working"} /\ task'[r.by] = r.run
    <3>1. \A r \in rows' \ committed' : r \in rows \ committed /\ r.by \in Workers \ {w}
      BY <1>1 DEF SkillInv, TypeOK, Pending, Row
    <3>2. QED
      BY <1>1, <1>2, <3>1 DEF SkillInv, TypeOK
  <2>3. QED
    BY <1>1, <1>2, <1>3, <2>1, <2>2 DEF SkillInv, TypeOK
<1>9. RowsShape'
  BY <1>1 DEF SkillInv, RowsShape
<1>10. OwnedIsOpen'
  BY <1>1 DEF SkillInv, OwnedIsOpen, TypeOK
<1>11. RowsOfCompletion'
  <2>1. \A r \in committed : r.run \in Runs /\ r.run # x
    BY <1>5 DEF SkillInv, RowsOfCompletion, TypeOK, Row
  <2>2. \A r \in Pending(w) : r = Own(w) /\ r.run = x
    BY <1>4 DEF Own
  <2>3. \A y \in Runs : job'[y] = IF y = x THEN "completed" ELSE job[y]
    BY <1>1 DEF SkillInv, TypeOK
  <2>4. \A r \in committed' : job'[r.run] = "completed"
    BY <1>1, <2>1, <2>2, <2>3 DEF SkillInv, RowsOfCompletion
  <2>5. \A r, s \in committed' : r.run = s.run => r = s
    BY <1>1, <2>1, <2>2 DEF SkillInv, RowsOfCompletion
  <2>6. \A y \in Runs : job'[y] = "completed" /\ y \in measured' => y \in CommittedRuns'
    BY <1>1, <1>6, <2>3 DEF SkillInv, RowsOfCompletion
  <2>7. QED
    BY <2>4, <2>5, <2>6 DEF RowsOfCompletion
<1>12. ProjectionGrounded'
  <2>1. CASE x \in measured
    <3>1. source[w] \subseteq CommittedRuns \union {x}
      BY <1>4, <2>1 DEF SkillInv, SourceShape, Own
    <3>2. Cardinality(source[w]) <= Window
      BY DEF SkillInv, SourceShape
    <3>3. QED
      BY <1>1, <1>4, <1>6, <2>1, <3>1, <3>2 DEF ProjectionGrounded
  <2>2. CASE x \notin measured
    BY <1>1, <1>4, <1>6, <2>2 DEF SkillInv, ProjectionGrounded
  <2>3. QED
    BY <2>1, <2>2
<1>13. ASSUME NEW v \in Workers PROVE OwnerHasRow(v)' /\ SourceShape(v)'
  <2>1. CASE v = w
    <3>1. Cardinality({}) = 0 /\ 0 <= Window
      BY FS_EmptySet, WindowAssumption
    <3>2. QED
      BY <1>2, <2>1, <3>1 DEF OwnerHasRow, SourceShape, InTransaction
  <2>2. CASE v # w
    <3>1. CommittedRuns \subseteq CommittedRuns'
      BY <1>6
    <3>2. SourceShape(v)'
      BY <1>2, <1>7, <2>2, <3>1 DEF SkillInv, SourceShape
    <3>3. task[v] \in Runs /\ owner'[task'[v]] = v => owner[task[v]] = v
      BY <1>1, WorkersAssumption DEF SkillInv, TypeOK
    <3>4. task[v] \in Runs
      BY DEF SkillInv, TypeOK
    <3>5. Own(v) \in rows \ committed => Own(v) \in rows' \ committed'
      BY <1>1, <2>2 DEF Pending, Own
    <3>6. OwnerHasRow(v)'
      BY <1>1, <1>2, <1>7, <2>2, <3>3, <3>4, <3>5 DEF SkillInv, OwnerHasRow
    <3>7. QED
      BY <3>2, <3>6
  <2>3. QED
    BY <2>1, <2>2
<1>14. QED
  BY <1>8, <1>9, <1>10, <1>11, <1>12, <1>13 DEF SkillInv

\* A job queued again is nobody's and has no committed row.
LEMMA RequeueKeeps ==
    ASSUME SkillInv, NEW x \in Runs, Requeue(x)
    PROVE  SkillInv'
<1>1. /\ job[x] = "failed" /\ job' = [job EXCEPT ![x] = "open"]
      /\ owner' = [owner EXCEPT ![x] = NoWorker] /\ live' = live \ {x}
      /\ measured' = measured /\ state' = state
      /\ rows' = rows /\ committed' = committed /\ earlier' = earlier
      /\ pc' = pc /\ task' = task /\ source' = source /\ found' = found
  BY DEF Requeue, evidence, worker
<1>2. TypeOK'
  <2>1. /\ job' \in [Runs -> {"open", "completed", "failed"}]
        /\ owner' \in [Runs -> Workers \union {NoWorker}]
        /\ live' \subseteq Runs
    BY <1>1 DEF SkillInv, TypeOK
  <2>2. QED
    BY <1>1, <2>1 DEF SkillInv, TypeOK
<1>3. RowsShape'
  BY <1>1 DEF SkillInv, RowsShape
<1>4. OwnedIsOpen'
  BY <1>1 DEF SkillInv, OwnedIsOpen, TypeOK
<1>5. RowsOfCompletion' /\ ProjectionGrounded' /\ CommittedRuns' = CommittedRuns
  <2>1. CommittedRuns' = CommittedRuns
    BY <1>1 DEF CommittedRuns
  <2>2. \A y \in Runs : job'[y] = IF y = x THEN "open" ELSE job[y]
    BY <1>1 DEF SkillInv, TypeOK
  <2>3. \A r \in committed : r.run \in Runs /\ job[r.run] = "completed"
    BY DEF SkillInv, RowsOfCompletion, TypeOK, Row
  <2>4. RowsOfCompletion'
    BY <1>1, <2>1, <2>2, <2>3 DEF SkillInv, RowsOfCompletion
  <2>5. ProjectionGrounded'
    BY <1>1, <2>1 DEF SkillInv, ProjectionGrounded
  <2>6. QED
    BY <2>1, <2>4, <2>5
<1>6. ASSUME NEW v \in Workers PROVE OwnerHasRow(v)' /\ SourceShape(v)'
  <2>1. Pending(v)' = Pending(v) /\ Own(v)' = Own(v)
    BY <1>1 DEF Pending, Own
  <2>2. SourceShape(v)'
    BY <1>1, <1>5, <2>1 DEF SkillInv, SourceShape
  <2>3. owner'[task'[v]] = v => owner[task[v]] = v
    BY <1>1, WorkersAssumption DEF SkillInv, TypeOK
  <2>4. OwnerHasRow(v)'
    BY <1>1, <2>1, <2>3 DEF SkillInv, OwnerHasRow
  <2>5. QED
    BY <2>2, <2>4
<1>7. QED
  BY <1>2, <1>3, <1>4, <1>5, <1>6 DEF SkillInv

\* The invariant holds at first.
LEMMA InitSkill == Init => SkillInv
<1> SUFFICES ASSUME Init PROVE SkillInv
  OBVIOUS
<1>1. /\ rows = {} /\ committed = {} /\ earlier = {} /\ state = {}
      /\ \A w \in Workers : pc[w] = "idle" /\ source[w] = {}
  BY DEF Init
<1>2. TypeOK
  <2>1. found \in [Workers -> BOOLEAN]
    BY DEF Init
  <2>2. QED
    BY <1>1, <2>1 DEF Init, TypeOK
<1>3. RowsShape
  BY <1>1, FS_EmptySet DEF RowsShape, IsOrder
<1>4. OwnedIsOpen /\ RowsOfCompletion
  BY <1>1 DEF Init, OwnedIsOpen, RowsOfCompletion
<1>5. Cardinality({}) = 0 /\ 0 <= Window
  BY FS_EmptySet, WindowAssumption
<1>6. ProjectionGrounded
  BY <1>1, <1>5 DEF ProjectionGrounded, CommittedRuns
<1>7. \A w \in Workers : OwnerHasRow(w) /\ SourceShape(w)
  BY <1>1, <1>5 DEF OwnerHasRow, SourceShape, InTransaction
<1>8. QED
  BY <1>2, <1>3, <1>4, <1>6, <1>7 DEF SkillInv

\* Every step keeps it.
LEMMA SkillStep == SkillInv /\ [Next]_vars => SkillInv'
<1> SUFFICES ASSUME SkillInv, [Next]_vars PROVE SkillInv'
  OBVIOUS
<1>1. ASSUME NEW w \in Workers, NEW x \in Runs, Claim(w, x) PROVE SkillInv'
  BY <1>1, ClaimKeeps
<1>2. ASSUME NEW w \in Workers, Gather(w) PROVE SkillInv'
  BY <1>2, GatherNothing, GatherInserts
<1>3. ASSUME NEW w \in Workers, LookForState(w) PROVE SkillInv'
  <2>1. /\ UNCHANGED <<job, owner, measured, evidence, state, task, source>>
        /\ live' = live /\ pc[w] = "gathered" /\ pc' = [pc EXCEPT ![w] = "looked"]
        /\ found' = [found EXCEPT ![w] = (state # {})]
    BY <1>3 DEF LookForState, Goto, jobs
  <2>2. found' \in [Workers -> BOOLEAN]
    <3>1. found \in [Workers -> BOOLEAN] /\ (state # {}) \in BOOLEAN
      BY DEF SkillInv, TypeOK
    <3>2. QED
      BY <2>1, <3>1
  <2>3. /\ live' \subseteq Runs
        /\ pc' \in [Workers -> {"idle", "working", "gathered", "looked", "stored"}]
        /\ \A v \in Workers : pc'[v] = pc[v] \/ (pc[v] \in InTransaction /\ pc'[v] \in InTransaction)
    BY <2>1 DEF SkillInv, TypeOK, InTransaction
  <2>4. QED
    BY <2>1, <2>2, <2>3, QuietKeeps
<1>4. ASSUME NEW w \in Workers, Store(w) PROVE SkillInv'
  <2>1. CASE state # {} /\ ~found[w]
    <3>1. pc[w] # "idle" /\ FailJob(w) /\ Rollback(w)
      BY <1>4, <2>1 DEF Store
    <3>2. QED
      BY <3>1, RollbackKeeps
  <2>2. CASE ~(state # {} /\ ~found[w])
    <3>1. /\ UNCHANGED <<job, owner, measured, evidence, state, task, source>>
          /\ live' = live /\ found' = found
          /\ pc[w] = "looked" /\ pc' = [pc EXCEPT ![w] = "stored"]
      BY <1>4, <2>2 DEF Store, Goto, jobs
    <3>2. found' \in [Workers -> BOOLEAN]
      BY <3>1 DEF SkillInv, TypeOK
    <3>3. /\ live' \subseteq Runs
          /\ pc' \in [Workers -> {"idle", "working", "gathered", "looked", "stored"}]
          /\ \A v \in Workers : pc'[v] = pc[v] \/ (pc[v] \in InTransaction /\ pc'[v] \in InTransaction)
      BY <3>1 DEF SkillInv, TypeOK, InTransaction
    <3>4. QED
      BY <3>1, <3>2, <3>3, QuietKeeps
  <2>3. QED
    BY <2>1, <2>2
<1>5. ASSUME NEW w \in Workers, Commit(w) PROVE SkillInv'
  <2>1. CASE Fenced(w)
    BY <1>5, <2>1, CommitKeeps
  <2>2. CASE ~Fenced(w)
    <3>1. pc[w] # "idle" /\ Rollback(w) /\ UNCHANGED jobs
      BY <1>5, <2>2 DEF Commit
    <3>2. QED
      BY <3>1, RollbackKeeps
  <2>3. QED
    BY <2>1, <2>2
<1>6. ASSUME NEW w \in Workers, Crash(w) PROVE SkillInv'
  <2>1. pc[w] # "idle" /\ Rollback(w) /\ UNCHANGED jobs
    BY <1>6 DEF Crash
  <2>2. QED
    BY <2>1, RollbackKeeps
<1>7. ASSUME NEW x \in Runs, LeaseExpires(x) PROVE SkillInv'
  <2>1. /\ UNCHANGED <<job, owner, measured, evidence, state, task, source>>
        /\ live' = live \ {x} /\ pc' = pc /\ found' = found
    BY <1>7 DEF LeaseExpires, worker
  <2>2. /\ live' \subseteq Runs /\ found' \in [Workers -> BOOLEAN]
        /\ pc' \in [Workers -> {"idle", "working", "gathered", "looked", "stored"}]
    BY <2>1 DEF SkillInv, TypeOK
  <2>3. QED
    BY <2>1, <2>2, QuietKeeps
<1>8. ASSUME NEW x \in Runs, Requeue(x) PROVE SkillInv'
  BY <1>8, RequeueKeeps
<1>9. ASSUME UNCHANGED vars PROVE SkillInv'
  <2>1. /\ UNCHANGED <<job, owner, measured, evidence, state, task, source>>
        /\ live' = live /\ pc' = pc /\ found' = found
    BY <1>9 DEF vars, jobs, worker
  <2>2. /\ live' \subseteq Runs /\ found' \in [Workers -> BOOLEAN]
        /\ pc' \in [Workers -> {"idle", "working", "gathered", "looked", "stored"}]
    BY <2>1 DEF SkillInv, TypeOK
  <2>3. QED
    BY <2>1, <2>2, QuietKeeps
<1>10. QED
  BY <1>1, <1>2, <1>3, <1>4, <1>5, <1>6, <1>7, <1>8, <1>9 DEF Next, WorkerStep

\* Types, order and completeness of the evidence, and the projection made of it, through
\* any interleaving of completions, stalls and crashes.
THEOREM SkillInvariant == Spec => []SkillInv
<1>1. Init => SkillInv
  BY InitSkill
<1>2. SkillInv /\ [Next]_vars => SkillInv'
  BY SkillStep
<1>3. QED
  BY <1>1, <1>2, PTL DEF Spec

\* The jobs, rows and workers keep their types.
THEOREM SkillTypeCorrect == Spec => []TypeOK
<1>1. SkillInv => TypeOK
  BY DEF SkillInv
<1>2. QED
  BY <1>1, SkillInvariant, PTL

\* A run leaves one row of evidence if it completed with a measured response, and
\* none otherwise, however often it was delivered.
THEOREM EvidenceIsOfCompletion == Spec => []EvidenceOfCompletion
<1>1. SkillInv => EvidenceOfCompletion
  <2> SUFFICES ASSUME SkillInv, NEW x \in Runs
               PROVE  Cardinality({r \in committed : r.run = x}) =
                        IF job[x] = "completed" /\ x \in measured THEN 1 ELSE 0
    BY DEF EvidenceOfCompletion
  <2>1. CASE job[x] = "completed" /\ x \in measured
    <3>1. PICK r \in committed : r.run = x
      BY <2>1 DEF SkillInv, RowsOfCompletion, CommittedRuns
    <3>2. {s \in committed : s.run = x} = {r}
      BY <3>1 DEF SkillInv, RowsOfCompletion
    <3>3. QED
      BY <2>1, <3>2, FS_Singleton
  <2>2. CASE ~(job[x] = "completed" /\ x \in measured)
    <3>1. {s \in committed : s.run = x} = {}
      BY <2>2 DEF SkillInv, RowsOfCompletion, RowsShape, TypeOK
    <3>2. QED
      BY <2>2, <3>1, FS_EmptySet
  <2>3. QED
    BY <2>1, <2>2
<1>2. QED
  BY <1>1, SkillInvariant, PTL

\* The projection rests on committed evidence, on no more than the window, and is there
\* as soon as there is evidence.
THEOREM ProjectionIsGrounded == Spec => []ProjectionGrounded
<1>1. SkillInv => ProjectionGrounded
  BY DEF SkillInv
<1>2. QED
  BY <1>1, SkillInvariant, PTL

(***************************************************************************)
(* Calls of the functions.                                                 *)
(***************************************************************************)
\* A call: an input, and no result or the one that the functions compute.
CallInv ==
    /\ CallInput(input)
    /\ result # None =>
         /\ input.kind = "measure" =>
              LET analysis == Analysis(input.payload, input.declared, input.targets)
              IN  result = <<Scorecard(Measured(analysis), input.target, input.targets),
                             Scorecard(Resumed(analysis), input.target, input.targets)>>
         /\ input.kind = "evaluate" =>
              result = Evaluation(input.answer, input.text, TextMetrics)
         /\ input.kind = "recommend" =>
              result = <<Recommended(input.candidates, input.context)>>

\* It is an invariant of the calls.
LEMMA CallInvariant == CallSpec => []CallInv
<1>1. CallInit => CallInv
  BY DEF CallInit, CallInv
<1>2. CallInv /\ [CallNext]_<<input, result>> => CallInv'
  <2> SUFFICES ASSUME CallInv, [CallNext]_<<input, result>> PROVE CallInv'
    OBVIOUS
  <2>1. input' = input
    BY DEF CallNext, Measure, Evaluate, Recommend
  <2>2. CallInput(input)'
    BY <2>1 DEF CallInv
  <2>3. CASE Measure
    BY <2>1, <2>2, <2>3 DEF CallInv, Measure
  <2>4. CASE Evaluate
    BY <2>1, <2>2, <2>4 DEF CallInv, Evaluate
  <2>5. CASE Recommend
    BY <2>1, <2>2, <2>5 DEF CallInv, Recommend
  <2>6. CASE UNCHANGED <<input, result>>
    BY <2>1, <2>2, <2>6 DEF CallInv
  <2>7. QED
    BY <2>3, <2>4, <2>5, <2>6 DEF CallNext
<1>3. QED
  BY <1>1, <1>2, PTL DEF CallSpec

(***************************************************************************)
(* The evaluation: what is accepted is grounded.                           *)
(***************************************************************************)
\* The first occurrence from a position on, if there is one.
LEMMA FindsFirst ==
    ASSUME NEW text, NEW quote, NEW from \in Nat, Len(text) \in Nat, Len(quote) \in Nat
    PROVE  \/ /\ Find(text, quote, from) = -1
              /\ \A i \in Occurrences(text, quote) : i < from
           \/ /\ Find(text, quote, from) \in Occurrences(text, quote)
              /\ Find(text, quote, from) \in Nat
              /\ \A i \in Occurrences(text, quote) : i >= from => Find(text, quote, from) <= i
<1> DEFINE later == {i \in Occurrences(text, quote) : i >= from}
<1>1. Occurrences(text, quote) \subseteq Nat
  BY DEF Occurrences
<1>2. CASE later = {}
  BY <1>1, <1>2 DEF Find
<1>3. CASE later # {}
  <2>1. PICK n \in later : \A m \in later : n <= m
    BY <1>1, <1>3, LeastNatural
  <2>2. Min(later) \in later /\ \A m \in later : Min(later) <= m
    BY <2>1 DEF Min
  <2>3. Find(text, quote, from) = Min(later)
    BY <1>3 DEF Find
  <2> HIDE DEF later
  <2>4. later = {i \in Occurrences(text, quote) : i >= from}
    BY DEF later
  <2>5. QED
    BY <1>1, <2>2, <2>3, <2>4
<1>4. QED
  BY <1>2, <1>3

\* A quote and its offsets.
QuoteItem(Letter) ==
    [source : {"transcript"}, quote : Seq(Letter), start : Int, end : Int]

\* A quote that is where its offsets say, is as long as they say and occurs there.
LEMMA QuoteOccurs ==
    ASSUME NEW Letter, NEW text \in Seq(Letter), NEW item,
           item.start \in Int, item.end \in Int, Quotes(item, text)
    PROVE  /\ item.quote \in Seq(Letter) /\ Len(item.quote) \in Nat \ {0}
           /\ item.end = item.start + Len(item.quote)
           /\ item.start \in Occurrences(text, item.quote)
           /\ \A k \in DOMAIN item.quote : text[item.start + k] = item.quote[k]
<1> DEFINE s == item.start
<1> DEFINE e == item.end
<1>1. /\ 0 <= s /\ s < e /\ e <= Len(text) /\ s \in Int /\ e \in Int
      /\ item.quote = SubSeq(text, s + 1, e)
  BY DEF Quotes
<1> HIDE DEF s, e
<1>2. /\ SubSeq(text, s + 1, e) \in Seq(Letter)
      /\ Len(SubSeq(text, s + 1, e)) = e - s
      /\ \A k \in 1 .. e - s : SubSeq(text, s + 1, e)[k] = text[s + k]
  BY <1>1
<1>3. item.quote \in Seq(Letter) /\ Len(item.quote) = e - s /\ e - s \in Nat \ {0}
  BY <1>1, <1>2
<1>4. e = s + Len(item.quote)
  BY <1>1, <1>3
<1>5. \A k \in DOMAIN item.quote : text[s + k] = item.quote[k]
  BY <1>1, <1>2, <1>3
<1>6. s \in 0 .. Len(text) - Len(item.quote)
  BY <1>1, <1>3
<1>7. s \in Occurrences(text, item.quote)
  BY <1>1, <1>4, <1>6 DEF Occurrences
<1>8. QED
  BY <1>3, <1>4, <1>5, <1>7 DEF s, e

\* The repair leaves such a quote alone.
LEMMA RepairedQuote ==
    ASSUME NEW Letter, NEW text \in Seq(Letter), NEW item \in QuoteItem(Letter),
           Quotes(item, text)
    PROVE  Repaired(item, text) = item
<1> DEFINE first == Find(text, item.quote, 0)
<1>1. item.start \in Int /\ item.end \in Int
  BY DEF QuoteItem
<1>2. /\ item.quote \in Seq(Letter) /\ Len(item.quote) \in Nat
      /\ item.end = item.start + Len(item.quote)
      /\ item.start \in Occurrences(text, item.quote) /\ item.start \in Nat
      /\ Len(text) \in Nat
  BY <1>1, QuoteOccurs DEF Occurrences
<1>3. first \in Nat /\ first <= item.start
  BY <1>2, FindsFirst
<1> HIDE DEF first
<1>4. CASE Find(text, item.quote, first + 1) < 0
  <2>1. \A i \in Occurrences(text, item.quote) : i < first + 1
    BY <1>2, <1>3, <1>4, FindsFirst
  <2>2. item.start = first
    BY <1>2, <1>3, <2>1
  <2>3. [item EXCEPT !.start = first, !.end = first + Len(item.quote)] = item
    BY <1>2, <2>2 DEF QuoteItem
  <2>4. QED
    BY <2>3 DEF Repaired, first
<1>5. CASE ~(Find(text, item.quote, first + 1) < 0)
  BY <1>5 DEF Repaired, first
<1>6. QED
  BY <1>4, <1>5

\* Answers of an evaluator: quotes and metrics, whatever is wrong with them.
MetricItem(Metric, Value) ==
    [source : {"speech_metrics"}, quote : {<<>>}, metric : Metric, value : Value]
Answer(Item, Weakness) ==
    [shape : BOOLEAN, scores : [1 .. 5 -> Int], overall : Int, evidence : Seq(Item),
     weakness : Weakness]

\* For every text and every answer: the repair changes nothing of a valid answer.
THEOREM ValidIsCanonical ==
    ASSUME NEW Letter, NEW Metric, NEW Value, NEW Weakness, NEW metrics,
           NEW text \in Seq(Letter),
           NEW answer \in Answer(QuoteItem(Letter) \union MetricItem(Metric, Value), Weakness),
           Valid(answer, text, metrics)
    PROVE  Canonical(answer, text) = answer
<1> DEFINE items == answer.evidence
<1>1. items \in Seq(QuoteItem(Letter) \union MetricItem(Metric, Value))
  BY DEF Answer
<1>2. ASSUME NEW i \in DOMAIN items PROVE Repaired(items[i], text) = items[i]
  <2>1. items[i] \in QuoteItem(Letter) \union MetricItem(Metric, Value)
    BY <1>1
  <2>2. CASE items[i] \in QuoteItem(Letter)
    <3>1. items[i].source = "transcript"
      BY <2>2 DEF QuoteItem
    <3>2. Quotes(items[i], text)
      BY <3>1 DEF Valid, ValidEvidence, Cites
    <3>3. QED
      BY <2>2, <3>2, RepairedQuote
  <2>3. CASE items[i] \in MetricItem(Metric, Value)
    BY <2>3 DEF MetricItem, Repaired
  <2>4. QED
    BY <2>1, <2>2, <2>3
<1>3. items = [i \in DOMAIN items |-> Repaired(items[i], text)]
  <2>1. items = [i \in DOMAIN items |-> items[i]]
    BY <1>1
  <2>2. QED
    BY <1>2, <2>1
<1>4. answer.overall = CalculatedOverall(answer.scores)
  BY DEF Valid
<1>5. QED
  BY <1>3, <1>4 DEF Canonical, Answer

\* The weighted sum of the five scores.
LEMMA SumOfFive ==
    ASSUME NEW f \in [1 .. 5 -> Int]
    PROVE  SumFunction(f) = f[1] + f[2] + f[3] + f[4] + f[5]
<1> DEFINE Sum(n) == SumFunctionOnSet(f, 1 .. n)
<1>1. ASSUME NEW n \in 1 .. 5
      PROVE  Sum(n) \in Int /\ Sum(n) = f[n] + Sum(n - 1)
  <2> DEFINE T == 1 .. n
  <2>1. IsFiniteSet(T)
    BY FS_Interval
  <2>2. (\A i \in T : f[i] \in Int) /\ n \in T /\ T \ {n} = 1 .. n - 1
    OBVIOUS
  <2> HIDE DEF T
  <2>3. SumFunctionOnSet(f, T) \in Int
    BY <2>1, <2>2, SumOfSubset
  <2>4. SumFunctionOnSet(f, T) = f[n] + SumFunctionOnSet(f, T \ {n})
    BY <2>1, <2>2, SumTakesOut
  <2>5. SumFunctionOnSet(f, T \ {n}) = Sum(n - 1)
    BY <2>2, Zenon
  <2>6. SumFunctionOnSet(f, T) = Sum(n)
    BY Zenon DEF T
  <2> HIDE DEF Sum
  <2>7. QED
    BY <2>3, <2>4, <2>5, <2>6
<1>2. Sum(0) = 0
  <2>1. 1 .. 0 = {} /\ IsFiniteSet({}) /\ \A i \in {} : f[i] \in Int
    BY FS_EmptySet
  <2>2. SumFunctionOnSet(f, {}) = 0
    BY <2>1, SumOfSubset
  <2>3. QED
    BY <2>1, <2>2, Zenon
<1>4. SumFunction(f) = Sum(5)
  <2>1. DOMAIN f = 1 .. 5
    OBVIOUS
  <2>2. QED
    BY <2>1, Zenon DEF SumFunction
<1> HIDE DEF Sum
<1>5. /\ Sum(1) = f[1] + Sum(0) /\ Sum(2) = f[2] + Sum(1) /\ Sum(3) = f[3] + Sum(2)
      /\ Sum(4) = f[4] + Sum(3) /\ Sum(5) = f[5] + Sum(4)
  BY <1>1
<1>6. QED
  BY <1>2, <1>4, <1>5

Weighted(scores) ==
    25 * scores[1] + 20 * scores[2] + 20 * scores[3] + 20 * scores[4] + 15 * scores[5]

\* The overall score is the weighted mean to half a point.
LEMMA OverallIsMean ==
    ASSUME NEW scores \in [1 .. 5 -> Int]
    PROVE  /\ CalculatedOverall(scores) \in Int
           /\ 100 * CalculatedOverall(scores) - Weighted(scores) \in -49 .. 50
<1> DEFINE f == [i \in DOMAIN scores |-> ContractWeights[i] * scores[i]]
<1> DEFINE w == SumFunction(f)
<1>1. /\ f \in [1 .. 5 -> Int]
      /\ f[1] = 25 * scores[1] /\ f[2] = 20 * scores[2] /\ f[3] = 20 * scores[3]
      /\ f[4] = 20 * scores[4] /\ f[5] = 15 * scores[5]
  BY DEF ContractWeights
<1>2. CalculatedOverall(scores) = (2 * w + 100) \div 200
  BY DEF CalculatedOverall
<1> HIDE DEF f
<1>3. w = Weighted(scores) /\ Weighted(scores) \in Int
  BY <1>1, SumOfFive DEF Weighted
<1> HIDE DEF w
<1>4. QED
  BY <1>2, <1>3

\* What an accepted evaluation is grounded in, for answers about any text.
Grounded(answer, text, metrics) ==
    /\ 100 * answer.overall - Weighted(answer.scores) \in -49..50
    /\ answer.evidence # <<>>
    /\ \A i \in DOMAIN answer.evidence :
         LET item == answer.evidence[i]
         IN  IF item.source = "transcript"
             THEN /\ item.quote # <<>>
                  /\ \A k \in DOMAIN item.quote : text[item.start + k] = item.quote[k]
                  /\ item.end = item.start + Len(item.quote)
             ELSE metrics[item.metric] = item.value

\* For every text and every answer: what is accepted is the repaired answer, and it is
\* grounded.
THEOREM AcceptedAnswerIsGrounded ==
    ASSUME NEW Letter, NEW Metric, NEW Value, NEW Weakness, NEW metrics,
           NEW text \in Seq(Letter),
           NEW answer \in Answer(QuoteItem(Letter) \union MetricItem(Metric, Value), Weakness),
           Evaluation(answer, text, metrics)[1] = "accepted"
    PROVE  /\ Evaluation(answer, text, metrics)[2] = Canonical(answer, text)
           /\ Grounded(Canonical(answer, text), text, metrics)
<1> DEFINE repaired == Canonical(answer, text)
<1>1. Valid(repaired, text, metrics)
  BY DEF Evaluation
<1>2. Evaluation(answer, text, metrics)[2] = repaired
  BY <1>1 DEF Evaluation
<1>3. /\ repaired.scores = answer.scores /\ answer.scores \in [1 .. 5 -> Int]
      /\ repaired.overall = CalculatedOverall(answer.scores)
      /\ DOMAIN repaired.evidence = DOMAIN answer.evidence
      /\ \A i \in DOMAIN answer.evidence :
            /\ repaired.evidence[i] = Repaired(answer.evidence[i], text)
            /\ answer.evidence[i] \in QuoteItem(Letter) \union MetricItem(Metric, Value)
  BY DEF Canonical, Answer
<1> HIDE DEF repaired
<1>4. 100 * repaired.overall - Weighted(repaired.scores) \in -49 .. 50
  BY <1>3, OverallIsMean
<1>5. repaired.evidence # <<>>
  <2>1. Len(repaired.evidence) \in 1 .. 3
    BY <1>1 DEF Valid, ValidEvidence
  <2>2. Len(<<>>) \notin 1 .. 3
    OBVIOUS
  <2>3. QED
    BY <2>1, <2>2, Zenon
<1>6. ASSUME NEW i \in DOMAIN repaired.evidence, NEW item, item = repaired.evidence[i]
      PROVE  IF item.source = "transcript"
             THEN /\ item.quote # <<>>
                  /\ \A k \in DOMAIN item.quote : text[item.start + k] = item.quote[k]
                  /\ item.end = item.start + Len(item.quote)
             ELSE metrics[item.metric] = item.value
  <2>1. Quotes(item, text) \/ Cites(item, metrics)
    BY <1>1, <1>6 DEF Valid, ValidEvidence
  <2>2. CASE item.source # "transcript"
    BY <2>1, <2>2 DEF Quotes, Cites
  <2>3. CASE item.source = "transcript"
    <3>1. Quotes(item, text)
      BY <2>1, <2>3 DEF Cites
    <3>2. item = Repaired(answer.evidence[i], text)
      BY <1>3, <1>6
    <3>3. answer.evidence[i] \in QuoteItem(Letter)
      BY <1>3, <1>6, <2>3, <3>2 DEF MetricItem, Repaired
    <3>4. item.start \in Int /\ item.end \in Int
      <4> DEFINE original == answer.evidence[i]
      <4>1. /\ original.quote \in Seq(Letter) /\ Len(original.quote) \in Nat
            /\ original.start \in Int /\ original.end \in Int
            /\ Len(text) \in Nat
        BY <3>3 DEF QuoteItem
      <4>2. Find(text, original.quote, 0) \in Int
        BY <4>1, FindsFirst
      <4> HIDE DEF original
      <4>3. original \in QuoteItem(Letter) /\ item = Repaired(original, text)
        BY <3>2, <3>3 DEF original
      <4>4. QED
        BY <4>1, <4>2, <4>3 DEF Repaired, QuoteItem
    <3>5. /\ Len(item.quote) \in Nat \ {0}
          /\ item.end = item.start + Len(item.quote)
          /\ \A k \in DOMAIN item.quote : text[item.start + k] = item.quote[k]
      BY <3>1, <3>4, QuoteOccurs
    <3>6. item.quote # <<>>
      BY <3>5
    <3>7. QED
      BY <2>3, <3>5, <3>6
  <2>4. QED
    BY <2>2, <2>3
<1>7. Grounded(repaired, text, metrics)
  BY <1>4, <1>5, <1>6 DEF Grounded
<1>8. QED
  BY <1>2, <1>7 DEF repaired

\* The answers that calls evaluate.
LEMMA EvaluateInputShape ==
    ASSUME CallInput(input), input.kind = "evaluate"
    PROVE  /\ input.text \in Seq({"a", "b"})
           /\ input.answer \in Answer(QuoteItem({"a", "b"})
                                        \union MetricItem({"word_count", "pitch"}, {3, 4}),
                                      {"clarity", "charm"})
<1> DEFINE Item == QuoteItem({"a", "b"}) \union MetricItem({"word_count", "pitch"}, {3, 4})
<1>1. EvaluateInput(input)
  BY DEF CallInput, MeasureInput, RecommendInput
<1>2. ASSUME NEW n \in Nat PROVE Letters(n) \subseteq Seq({"a", "b"})
  BY DEF Letters
<1>3. Evidence \subseteq Seq(Item)
  <2>1. EvidenceItems \subseteq Item
    BY <1>2 DEF EvidenceItems, QuoteItem, MetricItem
  <2> HIDE DEF Item
  <2>2. \A item \in Item : <<item>> \in Seq(Item)
    OBVIOUS
  <2>3. <<>> \in Seq(Item)
    OBVIOUS
  <2>4. QED
    BY <2>1, <2>2, <2>3, Zenon DEF Evidence
<1> HIDE DEF Item
<1>4. PICK text \in Letters(3), facts \in Evidence, overall \in {71, 72},
           low \in {-1, 60}, shape \in BOOLEAN, weakness \in {"clarity", "charm"} :
        input = [kind |-> "evaluate", text |-> text,
                 answer |-> [shape |-> shape, scores |-> <<70, 72, low, 80, 75>>,
                             overall |-> overall, evidence |-> facts, weakness |-> weakness]]
  BY <1>1 DEF EvaluateInput
<1>5. input.text \in Seq({"a", "b"})
  BY <1>2, <1>4
<1>6. <<70, 72, low, 80, 75>> \in [1 .. 5 -> Int]
  OBVIOUS
<1>7. input.answer \in Answer(Item, {"clarity", "charm"})
  BY <1>3, <1>4, <1>6 DEF Answer
<1>8. QED
  BY <1>5, <1>7 DEF Item

\* The repair keeps a valid answer: in every call.
THEOREM RepairsKeepValid == CallSpec => []RepairKeepsValid
<1>1. CallInv => RepairKeepsValid
  <2> SUFFICES ASSUME CallInv, input.kind = "evaluate",
                      Valid(input.answer, input.text, TextMetrics)
               PROVE  Canonical(input.answer, input.text) = input.answer
    BY DEF RepairKeepsValid
  <2>1. QED
    BY EvaluateInputShape, ValidIsCanonical DEF CallInv
<1>2. QED
  BY <1>1, CallInvariant, PTL

\* An accepted evaluation is grounded in the text and the metrics: in every call.
THEOREM AcceptedAreGrounded == CallSpec => []AcceptedIsGrounded
<1>1. CallInv => AcceptedIsGrounded
  <2> SUFFICES ASSUME CallInv, Answered("evaluate"), result[1] = "accepted"
               PROVE  Grounded(result[2], input.text, TextMetrics)
    BY DEF AcceptedIsGrounded, Grounded, Weighted
  <2>1. result = Evaluation(input.answer, input.text, TextMetrics)
    BY DEF CallInv, Answered
  <2>2. /\ result[2] = Canonical(input.answer, input.text)
        /\ Grounded(Canonical(input.answer, input.text), input.text, TextMetrics)
    <3>1. CallInput(input) /\ input.kind = "evaluate"
      BY DEF CallInv, Answered
    <3>2. QED
      BY <2>1, <3>1, EvaluateInputShape, AcceptedAnswerIsGrounded
  <2>3. QED
    BY <2>2
<1>2. QED
  BY <1>1, CallInvariant, PTL

(***************************************************************************)
(* The scorecard: what is measured is what counts, and storage keeps it.   *)
(***************************************************************************)
Counted == {"word_count", "filler_count", "long_pause_seconds", "duration_seconds",
            "words_per_minute"}

\* For every recording: the metrics and findings that the score is computed from survive
\* the storage of the analysis.
THEOREM StorageKeepsScore ==
    ASSUME NEW payload, NEW declared, NEW target, NEW targets
    PROVE  LET analysis == Analysis(payload, declared, targets)
           IN  Scorecard(Measured(analysis), target, targets)
                 = Scorecard(Resumed(analysis), target, targets)
<1> DEFINE a == Analysis(payload, declared, targets)
<1>1. /\ Counted \subseteq DOMAIN a
      /\ ResumedFindings \subseteq DOMAIN a
  BY DEF Analysis, Counted, ResumedFindings
<1> HIDE DEF a
<1>2. \A n \in Counted : Measured(a).metrics[n] = Resumed(a).metrics[n]
  BY <1>1 DEF Measured, Resumed, Restrict, FindingNames, ResumedFindings, Counted
<1>3. \A n \in ResumedFindings :
          Get(Measured(a).findings, n, {}) = Get(Resumed(a).findings, n, {})
  BY <1>1 DEF Measured, Resumed, Restrict, FindingNames, ResumedFindings, Get
<1> DEFINE m == Measured(a)
<1> DEFINE r == Resumed(a)
<1> HIDE DEF m, r
<1>4. /\ m.metrics.word_count = r.metrics.word_count
      /\ m.metrics.filler_count = r.metrics.filler_count
      /\ m.metrics.long_pause_seconds = r.metrics.long_pause_seconds
      /\ m.metrics.duration_seconds = r.metrics.duration_seconds
      /\ m.metrics.words_per_minute = r.metrics.words_per_minute
  BY <1>2 DEF Counted, m, r
<1>5. /\ Get(m.findings, "immediate_repetitions", {}) = Get(r.findings, "immediate_repetitions", {})
      /\ Get(m.findings, "target_vocabulary_used", {}) = Get(r.findings, "target_vocabulary_used", {})
  BY <1>3 DEF ResumedFindings, m, r
<1>6. Dimensions(m, target, targets) = Dimensions(r, target, targets)
  BY <1>4, <1>5, Zenon DEF Dimensions
<1>7. Scorecard(m, target, targets) = Scorecard(r, target, targets)
  BY <1>4, <1>6, Zenon DEF Scorecard
<1>8. QED
  BY <1>7 DEF m, r, a

\* A delivery that resumes from stored items arrives at the same score: of every call.
THEOREM ResumedScoresAreSame == CallSpec => []ResumedScoreIsSame
<1>1. CallInv => ResumedScoreIsSame
  BY StorageKeepsScore DEF CallInv, ResumedScoreIsSame, Answered
<1>2. QED
  BY <1>1, CallInvariant, PTL

\* A ratio between two whole numbers is rounded to one between them.
LEMMA HalfUpBetween ==
    ASSUME NEW n \in Int, NEW d \in Int, d > 0, NEW lo \in Int, NEW hi \in Int,
           lo * d <= n, n <= hi * d
    PROVE  HalfUp(n, d) \in Int /\ lo <= HalfUp(n, d) /\ HalfUp(n, d) <= hi
<1>1. PICK q \in Int : q = (2 * n + d) \div (2 * d)
  OBVIOUS
<1>2. q * (2 * d) <= 2 * n + d /\ 2 * n + d < (q + 1) * (2 * d)
  BY <1>1
<1>3. lo <= q
  <2> SUFFICES ASSUME q + 1 <= lo PROVE FALSE
    BY <1>1
  <2>1. (q + 1) * (2 * d) <= lo * (2 * d)
    OBVIOUS
  <2>2. lo * (2 * d) = 2 * (lo * d)
    OBVIOUS
  <2>3. QED
    BY <1>2, <2>1, <2>2
<1>4. q <= hi
  <2> SUFFICES ASSUME hi + 1 <= q PROVE FALSE
    BY <1>1
  <2>1. (hi + 1) * (2 * d) <= q * (2 * d)
    OBVIOUS
  <2>2. (hi + 1) * (2 * d) = 2 * (hi * d) + 2 * d
    OBVIOUS
  <2>3. QED
    BY <1>2, <2>1, <2>2
<1>5. QED
  BY <1>1, <1>3, <1>4 DEF HalfUp

\* The nearest even integer is one.
LEMMA HalfEvenIsInteger == \A n, d \in Int : d > 0 => HalfEven(n, d) \in Int
<1> SUFFICES ASSUME NEW n \in Int, NEW d \in Int, d > 0 PROVE HalfEven(n, d) \in Int
  OBVIOUS
<1>1. n \div d \in Int
  OBVIOUS
<1>2. QED
  BY <1>1 DEF HalfEven

\* A score is a number from 0 to 100.
IsScore(s) == s \in Int /\ 0 <= s /\ s <= 100

\* Between two bounds, a descending score is one.
LEMMA DescendingIsScore ==
    ASSUME NEW value \in Int, NEW good \in Int, NEW poor \in Int, good < poor
    PROVE  IsScore(Descending(value, good, poor))
<1>1. CASE value <= good
  BY <1>1 DEF Descending, IsScore
<1>2. CASE ~(value <= good) /\ value >= poor
  BY <1>2 DEF Descending, IsScore
<1>3. CASE ~(value <= good) /\ ~(value >= poor)
  <2> DEFINE d == poor - good
  <2> DEFINE n == 100 * (poor - good) - 80 * (value - good)
  <2> DEFINE lo == 0
  <2> DEFINE hi == 100
  <2>1. /\ n \in Int /\ d \in Int /\ d > 0 /\ lo \in Int /\ hi \in Int
        /\ lo * d <= n /\ n <= hi * d
    BY <1>3
  <2>2. Descending(value, good, poor) = HalfUp(n, d)
    BY <1>3 DEF Descending
  <2> HIDE DEF n, d, lo, hi
  <2>3. HalfUp(n, d) \in Int /\ lo <= HalfUp(n, d) /\ HalfUp(n, d) <= hi
    BY <2>1, HalfUpBetween
  <2>4. QED
    BY <2>2, <2>3 DEF IsScore, lo, hi
<1>4. QED
  BY <1>1, <1>2, <1>3

\* A weighted sum of what lies between lo and hi lies between them times the weights.
LEMMA WeightedSumBetween ==
    ASSUME NEW S, IsFiniteSet(S), NEW w, NEW p, NEW lo \in Int, NEW hi \in Int,
           \A x \in S : w[x] \in Nat /\ p[x] \in Int /\ lo * w[x] <= p[x] /\ p[x] <= hi * w[x]
    PROVE  /\ SumFunctionOnSet(w, S) \in Nat /\ SumFunctionOnSet(p, S) \in Int
           /\ lo * SumFunctionOnSet(w, S) <= SumFunctionOnSet(p, S)
           /\ SumFunctionOnSet(p, S) <= hi * SumFunctionOnSet(w, S)
<1> DEFINE Between(T) ==
        /\ SumFunctionOnSet(w, T) \in Nat /\ SumFunctionOnSet(p, T) \in Int
        /\ lo * SumFunctionOnSet(w, T) <= SumFunctionOnSet(p, T)
        /\ SumFunctionOnSet(p, T) <= hi * SumFunctionOnSet(w, T)
<1> DEFINE N == {n \in Nat : \A T \in SUBSET S : Cardinality(T) = n => Between(T)}
<1>1. 0 \in N
  <2> SUFFICES ASSUME NEW T \in SUBSET S, T = {} PROVE Between(T)
    BY SmallerSubset
  <2>1. (\A x \in S : w[x] \in Int) /\ \A x \in S : p[x] \in Int
    OBVIOUS
  <2>2. SumFunctionOnSet(w, T) = 0 /\ SumFunctionOnSet(p, T) = 0
    BY <2>1, SumOfSubset
  <2>3. QED
    BY <2>2
<1>2. ASSUME NEW n \in Nat, n \in N PROVE n + 1 \in N
  <2> SUFFICES ASSUME NEW T \in SUBSET S, Cardinality(T) = n + 1 PROVE Between(T)
    OBVIOUS
  <2>1. PICK c \in T : TRUE
    BY SmallerSubset
  <2>2. IsFiniteSet(T)
    BY FS_Subset
  <2>3. Cardinality(T \ {c}) = n
    <3>1. Cardinality(T \ {c}) = (n + 1) - 1
      BY SmallerSubset
    <3>2. QED
      BY <3>1
  <2>4. Between(T \ {c})
    BY <1>2, <2>3
  <2>5. /\ SumFunctionOnSet(w, T) = w[c] + SumFunctionOnSet(w, T \ {c})
        /\ SumFunctionOnSet(p, T) = p[c] + SumFunctionOnSet(p, T \ {c})
    <3>1. \A x \in T : w[x] \in Int /\ p[x] \in Int
      OBVIOUS
    <3>2. QED
      BY <2>2, <3>1, SumTakesOut
  <2>6. PICK a \in Nat, b \in Nat, e \in Int, g \in Int :
            /\ a = w[c] /\ b = SumFunctionOnSet(w, T \ {c})
            /\ e = p[c] /\ g = SumFunctionOnSet(p, T \ {c})
    BY <2>4
  <2>7. lo * a <= e /\ e <= hi * a /\ lo * b <= g /\ g <= hi * b
    BY <2>4, <2>6
  <2>8. lo * (a + b) <= e + g /\ e + g <= hi * (a + b)
    BY <2>7
  <2>9. QED
    BY <2>5, <2>6, <2>8
<1>3. Nat \subseteq N
  <2> HIDE DEF N
  <2>1. QED
    BY <1>1, <1>2, NatFromSteps
<1>4. Cardinality(S) \in N
  BY <1>3, FS_CardinalityType
<1>5. QED
  BY <1>4

\* The weights of some dimensions add up to a positive number.
LEMMA WeightsArePositive ==
    ASSUME NEW S \in SUBSET DOMAIN Weight, S # {}
    PROVE  /\ IsFiniteSet(S) /\ \A d \in S : Weight[d] \in Nat
           /\ SumFunctionOnSet(Weight, S) \in Int /\ SumFunctionOnSet(Weight, S) > 0
<1>1. \A d \in DOMAIN Weight : Weight[d] \in Nat /\ Weight[d] > 0
  BY DEF Weight
<1>2. IsFiniteSet(DOMAIN Weight)
  <2>1. /\ IsFiniteSet({"pace"}) /\ IsFiniteSet({"filler_use"})
        /\ IsFiniteSet({"immediate_repetition"}) /\ IsFiniteSet({"pausing"})
        /\ IsFiniteSet({"timing"}) /\ IsFiniteSet({"target_vocabulary"})
    BY FS_Singleton
  <2>2. /\ IsFiniteSet({"pace"} \union {"filler_use"})
        /\ IsFiniteSet({"immediate_repetition"} \union {"pausing"})
        /\ IsFiniteSet({"timing"} \union {"target_vocabulary"})
    BY <2>1, FS_Union
  <2>3. IsFiniteSet(({"pace"} \union {"filler_use"})
                      \union ({"immediate_repetition"} \union {"pausing"}))
    BY <2>2, FS_Union
  <2>4. IsFiniteSet((({"pace"} \union {"filler_use"})
                      \union ({"immediate_repetition"} \union {"pausing"}))
                      \union ({"timing"} \union {"target_vocabulary"}))
    BY <2>2, <2>3, FS_Union
  <2>5. DOMAIN Weight \subseteq (({"pace"} \union {"filler_use"})
                      \union ({"immediate_repetition"} \union {"pausing"}))
                      \union ({"timing"} \union {"target_vocabulary"})
    BY DEF Weight
  <2>6. QED
    BY <2>4, <2>5, FS_Subset
<1>3. IsFiniteSet(S)
  BY <1>2, FS_Subset
<1>4. PICK c \in S : TRUE
  OBVIOUS
<1>5. SumFunctionOnSet(Weight, S) = Weight[c] + SumFunctionOnSet(Weight, S \ {c})
  BY <1>1, <1>3, SumTakesOut
<1>6. SumFunctionOnSet(Weight, S \ {c}) \in Nat
  <2> DEFINE T == S \ {c}
  <2>1. IsFiniteSet(T)
    BY <1>3, FS_Subset
  <2> DEFINE one == 1
  <2>2. /\ one \in Int
        /\ \A d \in T : /\ Weight[d] \in Nat /\ Weight[d] \in Int
                       /\ one * Weight[d] <= Weight[d] /\ Weight[d] <= one * Weight[d]
    BY <1>1
  <2> HIDE DEF T, one
  <2>3. SumFunctionOnSet(Weight, T) \in Nat
    BY <2>1, <2>2, WeightedSumBetween
  <2>4. QED
    BY <2>3 DEF T
<1>7. QED
  BY <1>1, <1>3, <1>5, <1>6

\* The overall score lies between the bounds of the measured dimensions, or it is
\* the coverage, which caps it.
LEMMA OverallIsBetween ==
    ASSUME NEW dimensions, NEW coverage \in Int, NEW lo \in Int, NEW hi \in Int,
           \A d \in DOMAIN Weight :
               \/ dimensions[d] = Unavailable
               \/ dimensions[d] \in Int /\ lo <= dimensions[d] /\ dimensions[d] <= hi,
           \E d \in DOMAIN Weight : dimensions[d] # Unavailable
    PROVE  LET overall == Overall(dimensions, coverage)
           IN  /\ overall \in Int /\ overall <= hi
               /\ overall >= lo \/ overall = coverage
               /\ coverage # Unavailable => overall <= coverage
<1> DEFINE available == {d \in DOMAIN Weight : dimensions[d] # Unavailable}
<1> DEFINE f == [d \in available |-> Weight[d] * dimensions[d]]
<1> DEFINE n == SumFunction(f)
<1> DEFINE d == SumFunctionOnSet(Weight, available)
<1>1. available \in SUBSET DOMAIN Weight /\ available # {}
  OBVIOUS
<1>2. Overall(dimensions, coverage)
        = IF coverage # Unavailable /\ coverage < HalfUp(n, d) THEN coverage ELSE HalfUp(n, d)
  BY <1>1 DEF Overall
<1>3. \A x \in available : dimensions[x] \in Int /\ lo <= dimensions[x] /\ dimensions[x] <= hi
  OBVIOUS
<1>4. DOMAIN f = available /\ \A x \in available : f[x] = Weight[x] * dimensions[x]
  OBVIOUS
<1>5. n = SumFunctionOnSet(f, available)
  BY <1>4, Zenon DEF SumFunction
<1> HIDE DEF f, n, available
<1>6. /\ IsFiniteSet(available) /\ (\A x \in available : Weight[x] \in Nat)
      /\ d \in Int /\ d > 0
  BY <1>1, WeightsArePositive
<1>7. ASSUME NEW x \in available
      PROVE  /\ Weight[x] \in Nat /\ f[x] \in Int
             /\ lo * Weight[x] <= f[x] /\ f[x] <= hi * Weight[x]
  <2>1. PICK w \in Nat, s \in Int : w = Weight[x] /\ s = dimensions[x] /\ lo <= s /\ s <= hi
    BY <1>3, <1>6
  <2>2. f[x] = w * s
    BY <1>4, <2>1
  <2>3. lo * w <= w * s /\ w * s <= hi * w
    BY <2>1
  <2>4. QED
    BY <2>1, <2>2, <2>3
<1> HIDE DEF d
<1>8. n \in Int /\ lo * d <= n /\ n <= hi * d
  BY <1>5, <1>6, <1>7, WeightedSumBetween DEF d
<1>9. HalfUp(n, d) \in Int /\ lo <= HalfUp(n, d) /\ HalfUp(n, d) <= hi
  BY <1>6, <1>8, HalfUpBetween
<1>10. QED
  BY <1>2, <1>9

\* The coverage is unavailable or a score, and no words cover nothing.
LEMMA CoverageIsScore ==
    ASSUME NEW words \in Nat, NEW target \in Int
    PROVE  /\ Coverage(words, target) = Unavailable \/ IsScore(Coverage(words, target))
           /\ target > 0 /\ words = 0 => Coverage(words, target) = 0
<1>1. PICK m \in Int : m = MinimumWords(target) /\ m >= 10
  <2>1. HalfEven(target, 20) \in Int
    BY HalfEvenIsInteger
  <2>2. QED
    BY <2>1 DEF MinimumWords
<1>2. CASE target <= 0
  BY <1>2 DEF Coverage
<1>3. CASE ~(target <= 0) /\ words >= m
  BY <1>1, <1>3 DEF Coverage, IsScore
<1>4. CASE ~(target <= 0) /\ ~(words >= m)
  <2> DEFINE n == 100 * words
  <2> DEFINE lo == 0
  <2> DEFINE hi == IF words = 0 THEN 0 ELSE 100
  <2>1. /\ n \in Int /\ m > 0 /\ lo \in Int /\ hi \in Int
        /\ lo * m <= n /\ n <= hi * m
    BY <1>1, <1>4
  <2>2. Coverage(words, target) = HalfUp(n, m)
    BY <1>1, <1>4 DEF Coverage
  <2> HIDE DEF n, lo, hi
  <2>3. HalfUp(n, m) \in Int /\ lo <= HalfUp(n, m) /\ HalfUp(n, m) <= hi
    BY <2>1, HalfUpBetween
  <2>4. QED
    BY <2>2, <2>3 DEF IsScore, lo, hi
<1>5. QED
  BY <1>2, <1>3, <1>4

\* What the scorecard needs to know of a transcript.
Measurable(facts) ==
    /\ facts.metrics.word_count \in Nat
    /\ facts.metrics.filler_count \in Int
    /\ facts.metrics.words_per_minute \in Int
    /\ facts.metrics.long_pause_seconds \in Int
    /\ facts.metrics.duration_seconds \in Int
    /\ IsFiniteSet(Get(facts.findings, "immediate_repetitions", {}))

\* Every dimension is a score or unavailable, and the repetitions always count.
LEMMA DimensionsAreScores ==
    ASSUME NEW facts, Measurable(facts), NEW target \in Int,
           NEW targets, IsFiniteSet(targets)
    PROVE  LET dimensions == Dimensions(facts, target, targets)
           IN  /\ DOMAIN dimensions = DOMAIN Weight
               /\ \A d \in DOMAIN Weight : dimensions[d] = Unavailable \/ IsScore(dimensions[d])
               /\ IsScore(dimensions.immediate_repetition)
<1> DEFINE m == facts.metrics
<1> DEFINE used == Get(facts.findings, "target_vocabulary_used", {})
<1> DEFINE repetitions == Get(facts.findings, "immediate_repetitions", {})
<1> DEFINE dimensions == Dimensions(facts, target, targets)
<1>1. /\ DOMAIN dimensions = DOMAIN Weight
      /\ \A d \in DOMAIN Weight :
            d \in {"pace", "filler_use", "immediate_repetition", "pausing", "timing",
                   "target_vocabulary"}
  BY DEF Dimensions, Weight
<1> DEFINE ScoreOr(d) == dimensions[d] = Unavailable \/ IsScore(dimensions[d])
<1>2. ScoreOr("pace")
  <2>1. IsScore(PaceScore(m.words_per_minute))
    <3>1. PICK w \in Int : w = m.words_per_minute
      BY DEF Measurable
    <3>2. IsScore(Descending(1100 - w, 0, 500)) /\ IsScore(Descending(w - 1600, 0, 600))
      BY DescendingIsScore
    <3>3. QED
      BY <3>1, <3>2 DEF PaceScore
  <2>2. QED
    BY <2>1 DEF Dimensions
<1>3. ScoreOr("filler_use")
  <2> SUFFICES ASSUME m.word_count > 0
               PROVE  IsScore(Descending(100 * m.filler_count, m.word_count, 12 * m.word_count))
    BY DEF Dimensions
  <2>1. /\ 100 * m.filler_count \in Int /\ m.word_count \in Int /\ 12 * m.word_count \in Int
        /\ m.word_count < 12 * m.word_count
    BY DEF Measurable
  <2>2. QED
    BY <2>1, DescendingIsScore
<1>4. IsScore(dimensions.immediate_repetition)
  <2>1. Cardinality(repetitions) \in Int
    BY FS_CardinalityType DEF Measurable
  <2>2. IsScore(Descending(Cardinality(repetitions), 0, 5))
    <3> HIDE DEF repetitions
    <3>1. QED
      BY <2>1, DescendingIsScore
  <2>3. QED
    BY <2>2 DEF Dimensions
<1>5. ScoreOr("pausing")
  <2> SUFFICES ASSUME m.duration_seconds > 0
               PROVE  IsScore(PauseScore(m.long_pause_seconds, m.duration_seconds))
    BY DEF Dimensions
  <2>1. PICK l \in Int, d \in Int : l = m.long_pause_seconds /\ d = m.duration_seconds
    BY DEF Measurable
  <2>2. 20 * l \in Int /\ 7 * d \in Int /\ d < 7 * d
    BY <2>1
  <2>3. IsScore(Descending(20 * l, d, 7 * d))
    BY <2>2, DescendingIsScore
  <2>4. QED
    BY <2>1, <2>3 DEF PauseScore
<1>6. ScoreOr("timing")
  <2> SUFFICES ASSUME target > 0 PROVE IsScore(TimingScore(m.duration_seconds, target))
    BY DEF Dimensions
  <2>1. PICK d \in Int : d = m.duration_seconds
    BY DEF Measurable
  <2>2. /\ 3 * target - 4 * d \in Int /\ 4 * d - 5 * target \in Int
        /\ 2 * target \in Int /\ 3 * target \in Int /\ 0 < 2 * target /\ 0 < 3 * target
    OBVIOUS
  <2>3. IsScore(Descending(3 * target - 4 * d, 0, 2 * target))
        /\ IsScore(Descending(4 * d - 5 * target, 0, 3 * target))
    BY <2>2, DescendingIsScore
  <2>4. QED
    BY <2>1, <2>3 DEF TimingScore
<1>7. ScoreOr("target_vocabulary")
  <2> SUFFICES ASSUME targets # {}
               PROVE  IsScore(HalfUp(100 * Cardinality(targets \cap used), Cardinality(targets)))
    BY DEF Dimensions
  <2> HIDE DEF used
  <2>1. PICK k \in Nat, t \in Nat : /\ k = Cardinality(targets \cap used)
                                    /\ t = Cardinality(targets) /\ t > 0 /\ k <= t
    <3>1. IsFiniteSet(targets \cap used) /\ Cardinality(targets \cap used) <= Cardinality(targets)
      BY FS_Subset
    <3>2. QED
      BY <3>1, FS_CardinalityType, FS_EmptySet
  <2> DEFINE n == 100 * k
  <2> DEFINE lo == 0
  <2> DEFINE hi == 100
  <2>2. /\ n \in Int /\ t \in Int /\ t > 0 /\ lo \in Int /\ hi \in Int
        /\ lo * t <= n /\ n <= hi * t
    BY <2>1
  <2> HIDE DEF n, lo, hi
  <2>3. HalfUp(n, t) \in Int /\ lo <= HalfUp(n, t) /\ HalfUp(n, t) <= hi
    BY <2>2, HalfUpBetween
  <2>4. QED
    BY <2>1, <2>3 DEF IsScore, n, lo, hi
<1> HIDE DEF dimensions
<1>8. QED
  BY <1>1, <1>2, <1>3, <1>4, <1>5, <1>6, <1>7 DEF dimensions

\* The least and the greatest of some scores exist.
LEMMA ScoresHaveBounds ==
    ASSUME NEW S, S # {}, \A s \in S : IsScore(s)
    PROVE  /\ Min(S) \in S /\ \A s \in S : Min(S) <= s
           /\ Max(S) \in S /\ \A s \in S : s <= Max(S)
<1>1. \E n \in S : \A s \in S : n <= s
  <2>1. S \in SUBSET Nat
    BY DEF IsScore
  <2>2. QED
    BY <2>1, LeastNatural
<1>2. \E n \in S : \A s \in S : n >= s
  <2> DEFINE T == {100 - s : s \in S}
  <2>1. T \in SUBSET Nat /\ T # {}
    BY DEF IsScore
  <2>2. PICK t \in T : \A u \in T : t <= u
    <3> HIDE DEF T
    <3>1. QED
      BY <2>1, LeastNatural
  <2>3. PICK n \in S : t = 100 - n
    OBVIOUS
  <2>4. ASSUME NEW s \in S PROVE n >= s
    <3>1. 100 - s \in T
      OBVIOUS
    <3>2. 100 - n <= 100 - s
      BY <2>2, <2>3, <3>1
    <3>3. QED
      BY <3>2 DEF IsScore
  <2>5. QED
    BY <2>4
<1>3. Min(S) \in S /\ \A s \in S : Min(S) <= s
  BY <1>1 DEF Min
<1>4. Max(S) \in S /\ \A s \in S : Max(S) >= s
  BY <1>2 DEF Max
<1>5. QED
  BY <1>3, <1>4 DEF IsScore

\* The overall score of a card rests on what was measured.
RestsOnEvidence(card) ==
    LET scores == {card.dimensions[d] : d \in DOMAIN card.dimensions} \ {Unavailable}
    IN  /\ scores \subseteq 0..100
        /\ scores # {}
        /\ card.overall <= Max(scores)
        /\ card.overall >= Min(scores) \/ card.overall = card.coverage
        /\ card.coverage # Unavailable => card.overall <= card.coverage

\* For every measurement, every duration asked for and every set of target words, the
\* scorecard rests on what was measured; no words score nothing.
THEOREM ScorecardRestsOnEvidence ==
    ASSUME NEW facts, Measurable(facts), NEW target \in Int,
           NEW targets, IsFiniteSet(targets)
    PROVE  LET card == Scorecard(facts, target, targets)
           IN  /\ RestsOnEvidence(card)
               /\ target > 0 /\ facts.metrics.word_count = 0 => card.overall = 0
<1> DEFINE dimensions == Dimensions(facts, target, targets)
<1> DEFINE coverage == Coverage(facts.metrics.word_count, target)
<1> DEFINE card == Scorecard(facts, target, targets)
<1> DEFINE overall == Overall(dimensions, coverage)
<1>1. card.dimensions = dimensions /\ card.coverage = coverage /\ card.overall = overall
  BY DEF Scorecard
<1>2. /\ DOMAIN dimensions = DOMAIN Weight
      /\ \A d \in DOMAIN Weight : dimensions[d] = Unavailable \/ IsScore(dimensions[d])
      /\ IsScore(dimensions.immediate_repetition)
  BY DimensionsAreScores
<1>3. /\ coverage = Unavailable \/ IsScore(coverage)
      /\ target > 0 /\ facts.metrics.word_count = 0 => coverage = 0
  BY CoverageIsScore DEF Measurable
<1>4. coverage \in Int /\ (coverage # Unavailable => 0 <= coverage)
  BY <1>3 DEF Unavailable, IsScore
<1> DEFINE scores == {dimensions[d] : d \in DOMAIN dimensions} \ {Unavailable}
<1>5. /\ \A s \in scores : IsScore(s)
      /\ scores # {}
      /\ \A d \in DOMAIN Weight : dimensions[d] # Unavailable => dimensions[d] \in scores
      /\ \E d \in DOMAIN Weight : dimensions[d] # Unavailable
  <2>1. "immediate_repetition" \in DOMAIN Weight
    BY DEF Weight
  <2>2. dimensions["immediate_repetition"] # Unavailable
    BY <1>2 DEF IsScore, Unavailable
  <2> HIDE DEF dimensions
  <2>3. QED
    BY <1>2, <2>1, <2>2
<1> DEFINE lo == Min(scores)
<1> DEFINE hi == Max(scores)
<1> HIDE DEF dimensions, coverage, overall, scores, card
<1>6. /\ lo \in scores /\ \A s \in scores : lo <= s
      /\ hi \in scores /\ \A s \in scores : s <= hi
  BY <1>5, ScoresHaveBounds
<1> HIDE DEF lo, hi
<1>7. lo \in Int /\ 0 <= lo /\ hi \in Int
  BY <1>5, <1>6 DEF IsScore
<1>8. \A d \in DOMAIN Weight :
         \/ dimensions[d] = Unavailable
         \/ dimensions[d] \in Int /\ lo <= dimensions[d] /\ dimensions[d] <= hi
  BY <1>2, <1>5, <1>6 DEF IsScore
<1>9. /\ overall \in Int /\ overall <= hi
      /\ overall >= lo \/ overall = coverage
      /\ coverage # Unavailable => overall <= coverage
  BY <1>4, <1>5, <1>7, <1>8, OverallIsBetween DEF overall
<1>10. scores \subseteq 0 .. 100
  BY <1>5 DEF IsScore
<1>11. RestsOnEvidence(card)
  <2>1. scores = {card.dimensions[d] : d \in DOMAIN card.dimensions} \ {Unavailable}
    BY <1>1, Zenon DEF scores
  <2>2. card.overall = overall /\ card.coverage = coverage
    BY <1>1
  <2> DEFINE given == {card.dimensions[d] : d \in DOMAIN card.dimensions} \ {Unavailable}
  <2> HIDE DEF given
  <2>3. given = scores
    BY <2>1, Zenon DEF given
  <2>4. given \subseteq 0 .. 100 /\ given # {} /\ Max(given) = hi /\ Min(given) = lo
    BY <1>5, <1>10, <2>3, Zenon DEF hi, lo
  <2>5. /\ given \subseteq 0 .. 100
        /\ given # {}
        /\ card.overall <= Max(given)
        /\ card.overall >= Min(given) \/ card.overall = card.coverage
        /\ card.coverage # Unavailable => card.overall <= card.coverage
    BY <1>9, <2>2, <2>4
  <2>6. QED
    BY <2>5, Zenon DEF RestsOnEvidence, given
<1>12. ASSUME target > 0, facts.metrics.word_count = 0 PROVE card.overall = 0
  <2>1. coverage = 0
    BY <1>3, <1>12
  <2>2. overall <= 0 /\ overall >= 0
    BY <1>7, <1>9, <2>1 DEF Unavailable
  <2>3. QED
    BY <1>1, <1>9, <2>2
<1>13. QED
  BY <1>11, <1>12 DEF card

\* Among finitely many positions there is one of every rank.
LEMMA EveryRank ==
    ASSUME NEW P \in SUBSET Int, IsFiniteSet(P), NEW k \in 1 .. Cardinality(P)
    PROVE  \E i \in P : Cardinality({j \in P : j <= i}) = k
<1> DEFINE n == Cardinality(P)
<1> DEFINE UpTo(i) == {j \in P : j <= i}
<1> DEFINE f == [i \in P |-> Cardinality(UpTo(i))]
<1>1. n \in Nat /\ IsFiniteSet(1 .. n) /\ Cardinality(1 .. n) = n
  <2>1. n \in Nat
    BY FS_CardinalityType
  <2> HIDE DEF n
  <2>2. 1 \in Int /\ n \in Int
    BY <2>1
  <2>3. Cardinality(1 .. n) = (IF 1 > n THEN 0 ELSE n - 1 + 1) /\ IsFiniteSet(1 .. n)
    BY <2>2, FS_Interval
  <2>4. QED
    BY <2>1, <2>3
<1>2. ASSUME NEW i \in P
      PROVE  /\ IsFiniteSet(UpTo(i)) /\ Cardinality(UpTo(i)) \in Nat
             /\ Cardinality(UpTo(i)) <= n /\ Cardinality(UpTo(i)) # 0
  <2>1. UpTo(i) \subseteq P /\ i \in UpTo(i)
    OBVIOUS
  <2> HIDE DEF UpTo
  <2>2. IsFiniteSet(UpTo(i)) /\ Cardinality(UpTo(i)) <= n
    BY <2>1, FS_Subset
  <2>3. QED
    BY <2>1, <2>2, FS_CardinalityType, FS_EmptySet
<1>3. ASSUME NEW i \in P, NEW j \in P, i < j
      PROVE  Cardinality(UpTo(i)) # Cardinality(UpTo(j))
  <2>1. i \in Int /\ j \in Int /\ \A q \in P : q \in Int
    OBVIOUS
  <2>2. \A q \in P : q <= i => q <= j
    BY <1>3, <2>1
  <2>3. j <= j /\ ~(j <= i)
    BY <1>3, <2>1
  <2>4. UpTo(i) \subseteq UpTo(j) /\ j \in UpTo(j) /\ j \notin UpTo(i)
    BY <2>2, <2>3
  <2> HIDE DEF UpTo
  <2>5. IsFiniteSet(UpTo(j)) /\ UpTo(i) # UpTo(j)
    BY <1>2, <2>4
  <2>6. QED
    BY <2>4, <2>5, FS_Subset
<1>4. f \in Injection(P, 1 .. n)
  <2>1. f \in [P -> 1 .. n]
    BY <1>1, <1>2
  <2>2. ASSUME NEW i \in P, NEW j \in P, f[i] = f[j] PROVE i = j
    <3> HIDE DEF UpTo
    <3>1. ~(i < j) /\ ~(j < i)
      BY <1>3, <2>2
    <3>2. QED
      BY <3>1
  <2> HIDE DEF f
  <2>3. QED
    BY <2>1, <2>2 DEF Injection, IsInjective
<1>5. f \in Surjection(P, 1 .. n)
  <2> HIDE DEF f
  <2>1. QED
    BY <1>1, <1>4, FS_Injection
<1>6. PICK i \in P : f[i] = k
  <2> HIDE DEF f
  <2>1. QED
    BY <1>5 DEF Surjection
<1>7. QED
  BY <1>6

\* Selected items are a sequence of items of those positions.
LEMMA SelectedIsSequence ==
    ASSUME NEW s, NEW P \in SUBSET Int, IsFiniteSet(P), NEW R, \A i \in P : s[i] \in R
    PROVE  /\ Selected(s, P) \in Seq(R) /\ Len(Selected(s, P)) = Cardinality(P)
           /\ Cardinality(P) \in Nat
<1> DEFINE n == Cardinality(P)
<1>1. n \in Nat
  BY FS_CardinalityType
<1>2. ASSUME NEW k \in 1 .. n PROVE Selected(s, P)[k] \in R
  <2> DEFINE i == CHOOSE i \in P : Cardinality({j \in P : j <= i}) = k
  <2>1. i \in P
    BY EveryRank
  <2>2. Selected(s, P)[k] = s[i]
    BY DEF Selected
  <2> HIDE DEF i
  <2>3. QED
    BY <2>1, <2>2
<1>3. Selected(s, P) \in [1 .. n -> R]
  <2>1. DOMAIN Selected(s, P) = 1 .. n /\ Selected(s, P) = [k \in 1 .. n |-> Selected(s, P)[k]]
    BY DEF Selected
  <2> HIDE DEF n
  <2>2. QED
    BY <1>2, <2>1
<1> HIDE DEF n
<1>4. QED
  BY <1>1, <1>3 DEF n

\* Sequences, one after the other, are a sequence of their items.
LEMMA FlattenedIsSequence ==
    ASSUME NEW R, NEW seqs \in Seq(Seq(R))
    PROVE  FlattenSeq(seqs) \in Seq(R)
<1>1. CASE Len(seqs) = 0
  <2>1. seqs = <<>>
    BY <1>1
  <2>2. FlattenSeq(seqs) = <<>>
    BY <1>1, <2>1 DEF FlattenSeq
  <2>3. QED
    BY <2>2
<1>2. CASE Len(seqs) # 0
  <2>1. PICK n \in Nat \ {0} : n = Len(seqs) /\ \A i \in 1 .. n : seqs[i] \in Seq(R)
    BY <1>2
  <2> DEFINE Flat(g, i) == IF i = 1 THEN seqs[i] ELSE g[i - 1] \o seqs[i]
  <2> DEFINE Flattens(g) == g = [i \in 1 .. n |-> Flat(g, i)]
  <2>2. \E f : Flattens(f)
    <3> DEFINE UpTo(g, k) == \A i \in 1 .. n : i <= k => g[i] = Flat(g, i)
    <3> DEFINE N == {k \in Nat : \E f : f = [i \in 1 .. n |-> f[i]] /\ UpTo(f, k)}
    <3>1. 0 \in N
      <4> DEFINE f == [i \in 1 .. n |-> 0]
      <4>1. f = [i \in 1 .. n |-> f[i]]
        OBVIOUS
      <4>2. UpTo(f, 0)
        OBVIOUS
      <4> HIDE DEF f, UpTo
      <4>3. QED
        BY <4>1, <4>2
    <3>2. ASSUME NEW k \in Nat, k \in N PROVE k + 1 \in N
      <4>1. PICK f : f = [i \in 1 .. n |-> f[i]] /\ UpTo(f, k)
        BY <3>2
      <4> DEFINE h == [i \in 1 .. n |-> IF i <= k THEN f[i] ELSE Flat(f, i)]
      <4>2. h = [i \in 1 .. n |-> h[i]]
        OBVIOUS
      <4>3. ASSUME NEW i \in 1 .. n, i <= k + 1 PROVE h[i] = Flat(h, i)
        <5>1. h[i] = Flat(f, i)
          BY <4>1
        <5>2. i # 1 => i - 1 \in 1 .. n /\ h[i - 1] = f[i - 1]
          BY <4>3
        <5> HIDE DEF h
        <5>3. QED
          BY <5>1, <5>2
      <4> HIDE DEF h, Flat
      <4>4. UpTo(h, k + 1)
        BY <4>3
      <4> HIDE DEF UpTo
      <4>5. QED
        BY <4>2, <4>4
    <3>3. Nat \subseteq N
      <4> HIDE DEF N
      <4>1. QED
        BY <3>1, <3>2, NatFromSteps
    <3>4. n \in N
      BY <2>1, <3>3
    <3>5. PICK f : f = [i \in 1 .. n |-> f[i]] /\ UpTo(f, n)
      BY <3>4
    <3> HIDE DEF Flat
    <3>6. \A i \in 1 .. n : f[i] = Flat(f, i)
      BY <3>5
    <3>7. [i \in 1 .. n |-> f[i]] = [i \in 1 .. n |-> Flat(f, i)]
      BY <3>6
    <3>8. QED
      BY <3>5, <3>7
  <2> DEFINE f == CHOOSE g : Flattens(g)
  <2>3. FlattenSeq(seqs) = f[n]
    BY <1>2, <2>1 DEF FlattenSeq
  <2>4. Flattens(f)
    <3> HIDE DEF Flattens
    <3>1. QED
      BY <2>2
  <2> HIDE DEF f
  <2>5. \A i \in 1 .. n : f[i] = Flat(f, i)
    <3> HIDE DEF Flat
    <3>1. QED
      BY <2>4
  <2> DEFINE N == {k \in Nat : \A i \in 1 .. n : i <= k => f[i] \in Seq(R)}
  <2>6. 0 \in N
    OBVIOUS
  <2>7. ASSUME NEW k \in Nat, k \in N PROVE k + 1 \in N
    <3> SUFFICES ASSUME NEW i \in 1 .. n, i <= k + 1 PROVE f[i] \in Seq(R)
      OBVIOUS
    <3>1. CASE i = 1
      BY <2>1, <2>5, <3>1
    <3>2. CASE i # 1
      <4>1. i - 1 \in 1 .. n /\ i - 1 <= k
        BY <3>2
      <4>2. f[i - 1] \in Seq(R) /\ seqs[i] \in Seq(R)
        BY <2>1, <2>7, <4>1
      <4>3. f[i] = f[i - 1] \o seqs[i]
        BY <2>5, <3>2
      <4>4. QED
        BY <4>2, <4>3
    <3>3. QED
      BY <3>1, <3>2
  <2>8. Nat \subseteq N
    <3> HIDE DEF N
    <3>1. QED
      BY <2>6, <2>7, NatFromSteps
  <2>9. n \in N
    BY <2>1, <2>8
  <2>10. QED
    BY <2>1, <2>3, <2>9
<1>3. QED
  BY <1>1, <1>2

\* Words of a vocabulary with timestamps.
SpokenWord(W) == [word : W, from : Int, to : Int]

\* An answer of the provider: words of W, whose tokens are of R, and a text of R.
Heard(payload, W, R) ==
    /\ payload.words \in Seq(SpokenWord(W))
    /\ payload.utterances \in Seq([from : Int, to : Int])
    /\ payload.text \in Seq(R) /\ \A w \in W : Normalized[w] \in R
    /\ payload.duration \in Int

\* Some positions of a sequence.
LEMMA SomePositions ==
    ASSUME NEW R, NEW s \in Seq(R), NEW P \in SUBSET DOMAIN s
    PROVE  P \in SUBSET Int /\ IsFiniteSet(P) /\ \A i \in P : s[i] \in R
<1>1. DOMAIN s = 1 .. Len(s) /\ Len(s) \in Int
  OBVIOUS
<1>2. IsFiniteSet(1 .. Len(s))
  BY <1>1, 1 \in Int, FS_Interval
<1>3. IsFiniteSet(P)
  BY <1>1, <1>2, FS_Subset
<1>4. QED
  BY <1>1, <1>3

\* The words of the transcript are words of the answer.
LEMMA TranscriptIsSpoken ==
    ASSUME NEW payload, NEW W, NEW R, Heard(payload, W, R)
    PROVE  TranscriptWords(payload) \in Seq(SpokenWord(W))
<1> DEFINE V == SpokenWord(W)
<1>1. ASSUME NEW x \in V PROVE Timestamps(x) \in V
  <2>1. x = [word |-> x.word, from |-> x.from, to |-> x.to] /\ x.word \in W
    BY DEF SpokenWord
  <2>2. Timestamps(x) = x \/ Timestamps(x) = [word |-> x.word, from |-> -1, to |-> -1]
    BY <2>1 DEF Timestamps, Unavailable
  <2>3. QED
    BY <2>1, <2>2 DEF SpokenWord
<1>2. payload.words \in Seq(V) /\ payload.utterances \in Seq([from : Int, to : Int])
  BY DEF Heard
<1> HIDE DEF V
<1>3. MappedWords(payload) \in Seq(V)
  <2>1. PICK n \in Nat : DOMAIN payload.words = 1 .. n /\ \A i \in 1 .. n : payload.words[i] \in V
    BY <1>2
  <2>2. \A i \in 1 .. n : Timestamps(payload.words[i]) \in V
    BY <1>1, <2>1
  <2>3. MappedWords(payload) = [i \in 1 .. n |-> Timestamps(payload.words[i])]
    BY <2>1 DEF MappedWords
  <2>4. QED
    BY <2>2, <2>3
<1>4. ASSUME NEW u PROVE SegmentWords(MappedWords(payload), u) \in Seq(V)
  <2> DEFINE words == MappedWords(payload)
  <2> DEFINE P == {i \in DOMAIN words :
                     /\ Timed(u) /\ Timed(words[i])
                     /\ words[i].from >= u.from /\ words[i].to <= u.to}
  <2>1. SegmentWords(words, u) = Selected(words, P)
    BY DEF SegmentWords
  <2>2. P \in SUBSET DOMAIN words
    OBVIOUS
  <2> HIDE DEF P, words
  <2>3. words \in Seq(V)
    BY <1>3 DEF words
  <2>4. P \in SUBSET Int /\ IsFiniteSet(P) /\ \A i \in P : words[i] \in V
    BY <2>2, <2>3, SomePositions
  <2>5. Selected(words, P) \in Seq(V)
    BY <2>4, SelectedIsSequence
  <2>6. QED
    BY <2>1, <2>5 DEF words
<1>5. Segments(payload) \in Seq(Seq(V))
  <2>1. CASE payload.utterances = <<>>
    BY <1>3, <2>1 DEF Segments
  <2>2. CASE payload.utterances # <<>>
    <3>1. PICK n \in Nat : DOMAIN payload.utterances = 1 .. n
      BY <1>2
    <3>2. Segments(payload) = [i \in 1 .. n |->
             SegmentWords(MappedWords(payload), Timestamps(payload.utterances[i]))]
      BY <2>2, <3>1 DEF Segments
    <3>3. QED
      BY <1>4, <3>2
  <2>3. QED
    BY <2>1, <2>2
<1>6. FlattenSeq(Segments(payload)) \in Seq(V)
  BY <1>5, FlattenedIsSequence
<1>7. QED
  BY <1>6 DEF TranscriptWords, V

\* The tokens are a sequence, and empty when nothing was heard.
LEMMA TokensAreSequence ==
    ASSUME NEW payload, NEW W, NEW R, Heard(payload, W, R)
    PROVE  /\ Tokens(payload) \in Seq(R)
           /\ payload.text = <<>> /\ (\A w \in W : Normalized[w] = "") => Tokens(payload) = <<>>
<1> DEFINE words == TranscriptWords(payload)
<1> DEFINE tokens == [i \in DOMAIN words |-> Normalized[words[i].word]]
<1> DEFINE P == {i \in DOMAIN tokens : tokens[i] # ""}
<1> DEFINE heard == Selected(tokens, P)
<1>1. Tokens(payload) = IF heard # <<>> THEN heard ELSE payload.text
  BY DEF Tokens
<1>2. PICK n \in Nat : DOMAIN words = 1 .. n /\ \A i \in 1 .. n : words[i].word \in W
  <2>1. words \in Seq(SpokenWord(W))
    BY TranscriptIsSpoken
  <2> HIDE DEF words
  <2>2. PICK n \in Nat : DOMAIN words = 1 .. n /\ \A i \in 1 .. n : words[i] \in SpokenWord(W)
    BY <2>1
  <2>3. \A x \in SpokenWord(W) : x.word \in W
    BY DEF SpokenWord
  <2>4. QED
    BY <2>2, <2>3
<1>3. tokens \in Seq(R)
  <2>1. tokens = [i \in 1 .. n |-> Normalized[words[i].word]]
    BY <1>2
  <2>2. \A i \in 1 .. n : Normalized[words[i].word] \in R
    BY <1>2 DEF Heard
  <2> HIDE DEF words, tokens
  <2>3. QED
    BY <2>1, <2>2
<1>4. P \in SUBSET DOMAIN tokens
  OBVIOUS
<1>5. (\A w \in W : Normalized[w] = "") => P = {}
  BY <1>2
<1> HIDE DEF words, tokens, P
<1>6. heard \in Seq(R) /\ Len(heard) = Cardinality(P)
  <2>1. P \in SUBSET Int /\ IsFiniteSet(P) /\ \A i \in P : tokens[i] \in R
    BY <1>3, <1>4, SomePositions
  <2>2. QED
    BY <2>1, SelectedIsSequence
<1>7. P = {} => heard = <<>>
  <2> HIDE DEF heard
  <2>1. Cardinality({}) = 0
    BY FS_EmptySet
  <2>2. P = {} => Len(heard) = 0
    BY <1>6, <2>1
  <2>3. QED
    BY <1>6, <2>2
<1> HIDE DEF heard
<1>8. payload.text \in Seq(R)
  BY DEF Heard
<1>9. QED
  BY <1>1, <1>5, <1>6, <1>7, <1>8

\* The pauses add up to a number.
LEMMA PausesAreNumbers ==
    ASSUME NEW W, NEW timed \in Seq(SpokenWord(W)), NEW length \in Int
    PROVE  SumFunction(Pauses(timed, length)) \in Int
<1> DEFINE gaps == [i \in 1..(Len(timed) - 1) |-> timed[i + 1].from - timed[i].to]
<1> DEFINE P == {i \in DOMAIN gaps : gaps[i] >= length}
<1> DEFINE pauses == [i \in P |-> gaps[i]]
<1>1. Pauses(timed, length) = pauses
  BY DEF Pauses, Restrict
<1>2. P \in SUBSET (1 .. Len(timed)) /\ \A i \in P : gaps[i] \in Int
  <2>1. PICK n \in Nat : n = Len(timed) /\ \A i \in 1 .. n : timed[i] \in SpokenWord(W)
    OBVIOUS
  <2>2. \A i \in 1 .. (n - 1) : i \in 1 .. n /\ i + 1 \in 1 .. n
    BY <2>1
  <2>3. \A i \in 1 .. (n - 1) : timed[i + 1].from - timed[i].to \in Int
    BY <2>1, <2>2 DEF SpokenWord
  <2>4. QED
    BY <2>1, <2>2, <2>3
<1>3. IsFiniteSet(P)
  <2> HIDE DEF P
  <2>1. Len(timed) \in Int
    OBVIOUS
  <2>2. IsFiniteSet(1 .. Len(timed))
    BY <2>1, 1 \in Int, FS_Interval
  <2>3. QED
    BY <1>2, <2>2, FS_Subset
<1>4. DOMAIN pauses = P /\ \A i \in P : pauses[i] \in Int
  BY <1>2
<1> HIDE DEF pauses, P
<1>5. SumFunctionOnSet(pauses, P) \in Int
  BY <1>3, <1>4, SumOfSubset
<1>6. SumFunction(pauses) = SumFunctionOnSet(pauses, P)
  BY <1>4, Zenon DEF SumFunction
<1>7. QED
  BY <1>1, <1>5, <1>6

\* What the analysis measures.
LEMMA AnalysisIsMeasurable ==
    ASSUME NEW payload, NEW W, NEW R, Heard(payload, W, R), NEW declared \in Int, NEW targets
    PROVE  LET facts == Measured(Analysis(payload, declared, targets))
           IN  /\ Measurable(facts)
               /\ facts.metrics.word_count = Len(Tokens(payload))
<1> DEFINE a == Analysis(payload, declared, targets)
<1> DEFINE tokens == Tokens(payload)
<1> DEFINE timed == TimedWords(TranscriptWords(payload))
<1> DEFINE duration == SpokenFor(payload, declared)
<1> DEFINE m == Measured(a)
<1>1. /\ m.metrics.word_count = a.word_count
      /\ m.metrics.filler_count = a.filler_count
      /\ m.metrics.words_per_minute = a.words_per_minute
      /\ m.metrics.long_pause_seconds = a.long_pause_seconds
      /\ m.metrics.duration_seconds = a.duration_seconds
      /\ Get(m.findings, "immediate_repetitions", {}) = a.immediate_repetitions
  <2>1. /\ Counted \subseteq DOMAIN a
        /\ ResumedFindings \subseteq DOMAIN a
    BY DEF Analysis, Counted, ResumedFindings
  <2> HIDE DEF a
  <2>2. \A n \in Counted : m.metrics[n] = a[n]
    BY <2>1 DEF Measured, Restrict, FindingNames, Counted
  <2>3. Get(m.findings, "immediate_repetitions", {}) = a["immediate_repetitions"]
    BY <2>1 DEF Measured, Restrict, FindingNames, ResumedFindings, Get
  <2> HIDE DEF m
  <2>4. QED
    BY <2>2, <2>3 DEF Counted
<1>2. /\ a.word_count = Len(tokens)
      /\ a.filler_count = CountIn(tokens, Fillers)
      /\ a.words_per_minute = (IF duration > 0 THEN HalfEven(6000 * Len(tokens), duration)
                                               ELSE Unavailable)
      /\ a.long_pause_seconds = (IF Len(timed) < 2 THEN Unavailable
                                 ELSE SumFunction(Pauses(timed, LongPause)))
      /\ a.duration_seconds = (IF duration > 0 THEN duration ELSE Unavailable)
      /\ a.immediate_repetitions = Repeated(tokens)
  BY DEF Analysis
<1> HIDE DEF a, m
<1>3. tokens \in Seq(R)
  BY TokensAreSequence
<1>4. duration \in Int
  BY DEF SpokenFor, Heard
<1>5. timed \in Seq(SpokenWord(W))
  <2> DEFINE words == TranscriptWords(payload)
  <2> DEFINE P == {i \in DOMAIN words : Timed(words[i])}
  <2>1. timed = Selected(words, P) /\ P \in SUBSET DOMAIN words
    BY DEF TimedWords
  <2>2. words \in Seq(SpokenWord(W))
    BY TranscriptIsSpoken
  <2> HIDE DEF words, P, timed
  <2>3. P \in SUBSET Int /\ IsFiniteSet(P) /\ \A i \in P : words[i] \in SpokenWord(W)
    BY <2>1, <2>2, SomePositions
  <2>4. QED
    BY <2>1, <2>3, SelectedIsSequence
<1> HIDE DEF tokens, timed, duration
<1>6. a.long_pause_seconds \in Int
  <2>1. SumFunction(Pauses(timed, LongPause)) \in Int
    BY <1>5, PausesAreNumbers DEF LongPause
  <2>2. QED
    BY <1>2, <2>1 DEF Unavailable
<1>7. a.words_per_minute \in Int
  <2>1. 6000 * Len(tokens) \in Int
    BY <1>3
  <2>2. duration > 0 => HalfEven(6000 * Len(tokens), duration) \in Int
    BY <1>4, <2>1, HalfEvenIsInteger
  <2>3. QED
    BY <1>2, <2>2 DEF Unavailable
<1>8. a.filler_count \in Int
  <2> DEFINE P == {i \in DOMAIN tokens : tokens[i] \in Fillers}
  <2>1. CountIn(tokens, Fillers) = Cardinality(P) /\ P \in SUBSET DOMAIN tokens
    BY DEF CountIn
  <2> HIDE DEF P
  <2>2. IsFiniteSet(P)
    BY <1>3, <2>1, SomePositions
  <2>3. QED
    BY <1>2, <2>1, <2>2, FS_CardinalityType
<1>9. IsFiniteSet(a.immediate_repetitions)
  <2> DEFINE P == {i \in 2 .. Len(tokens) : tokens[i] = tokens[i - 1]}
  <2> DEFINE f == [i \in P |-> tokens[i]]
  <2> DEFINE S == {tokens[i] : i \in P}
  <2>1. P \in SUBSET DOMAIN tokens
    BY <1>3
  <2>2. f \in Surjection(P, S)
    BY DEF Surjection
  <2>3. Repeated(tokens) \in SUBSET S
    BY DEF Repeated
  <2> HIDE DEF P, f, S
  <2>4. IsFiniteSet(P)
    BY <1>3, <2>1, SomePositions
  <2>5. IsFiniteSet(S)
    BY <2>2, <2>4, FS_Surjection
  <2>6. QED
    BY <1>2, <2>3, <2>5, FS_Subset
<1>10. a.word_count \in Nat
  BY <1>2, <1>3
<1>11. a.duration_seconds \in Int
  BY <1>2, <1>4 DEF Unavailable
<1>12. Measurable(m)
  BY <1>1, <1>6, <1>7, <1>8, <1>9, <1>10, <1>11 DEF Measurable
<1>13. QED
  BY <1>1, <1>2, <1>12 DEF m, a, tokens

\* The card of a recording.
CardOf(payload, declared, target, targets) ==
    Scorecard(Measured(Analysis(payload, declared, targets)), target, targets)

\* An answer of the provider with words of W, none of which leaves a token if it has no text.
Recorded(payload, W, R) ==
    /\ Heard(payload, W, R)
    /\ payload.text = <<>> => \A w \in W : Normalized[w] = ""

\* For every answer of the provider, every duration and every set of target words, the
\* scorecard of a recording rests on what was measured; nothing said scores nothing.
THEOREM MeasuredScoreRestsOnEvidence ==
    ASSUME NEW payload, NEW W, NEW R, Recorded(payload, W, R), NEW declared \in Int,
           NEW target \in Int, NEW targets, IsFiniteSet(targets)
    PROVE  /\ RestsOnEvidence(CardOf(payload, declared, target, targets))
           /\ target > 0 /\ payload.text = <<>>
                => CardOf(payload, declared, target, targets).overall = 0
<1> DEFINE facts == Measured(Analysis(payload, declared, targets))
<1>1. Measurable(facts) /\ facts.metrics.word_count = Len(Tokens(payload))
  BY AnalysisIsMeasurable DEF Recorded
<1> HIDE DEF facts
<1> DEFINE card == Scorecard(facts, target, targets)
<1>2. /\ RestsOnEvidence(card)
      /\ target > 0 /\ facts.metrics.word_count = 0 => card.overall = 0
  BY <1>1, ScorecardRestsOnEvidence
<1> HIDE DEF card
<1>3. payload.text = <<>> => facts.metrics.word_count = 0
  <2>1. payload.text = <<>> => Tokens(payload) = <<>>
    BY TokensAreSequence DEF Recorded
  <2>2. Len(<<>>) = 0
    OBVIOUS
  <2>3. QED
    BY <1>1, <2>1, <2>2
<1>4. CardOf(payload, declared, target, targets) = card
  BY DEF CardOf, card, facts
<1>5. QED
  BY <1>2, <1>3, <1>4

\* What is said of a recording, and its tokens.
SaidIn(words) == {words[i].word : i \in DOMAIN words}
TokensOf(words) == {Normalized[w] : w \in SaidIn(words)}

\* A word that is said at some position keeps its form.
LEMMA SpokenIsWord ==
    ASSUME NEW i \in Int, NEW said, said \in SpokenWord({said.word})
    PROVE  SpokenAt(i, said) \in SpokenWord({SpokenAt(i, said).word})
<1>1. PICK word, from, to : /\ said = [word |-> word, from |-> from, to |-> to]
                            /\ from \in Int /\ to \in Int
  BY DEF SpokenWord
<1>2. CASE Timed(said)
  <2>1. SpokenAt(i, said) = [said EXCEPT !.from = 20 * i + said.from, !.to = 20 * i + said.to]
    BY <1>2 DEF SpokenAt
  <2>2. SpokenAt(i, said) = [word |-> word, from |-> 20 * i + from, to |-> 20 * i + to]
    BY <1>1, <2>1
  <2>3. QED
    BY <1>1, <2>2 DEF SpokenWord
<1>3. CASE ~Timed(said)
  BY <1>3 DEF SpokenAt
<1>4. QED
  BY <1>2, <1>3

\* The words of a recording, and its text, which is empty only if no word leaves a token.
LEMMA RecordedWords ==
    ASSUME NEW words \in WordsUpTo(2)
    PROVE  /\ words \in Seq(SpokenWord(SaidIn(words))) /\ TextOf(words) \in Seq(TokensOf(words))
           /\ TextOf(words) = <<>> => \A w \in SaidIn(words) : Normalized[w] = ""
<1> DEFINE tokens == [i \in DOMAIN words |-> Normalized[words[i].word]]
<1> DEFINE P == {i \in DOMAIN words : tokens[i] # ""}
<1>1. PICK n \in 0 .. 2 :
          \E said \in [1 .. n -> Sayings] : words = [i \in 1 .. n |-> SpokenAt(i, said[i])]
  BY DEF WordsUpTo
<1>2. ASSUME NEW i \in 1 .. n
      PROVE  words[i].word \in SaidIn(words) /\ words[i] \in SpokenWord(SaidIn(words))
  <2>1. words[i].word \in SaidIn(words)
    BY <1>1 DEF SaidIn
  <2>2. PICK said \in Sayings : words[i] = SpokenAt(i, said)
    BY <1>1
  <2>3. said \in SpokenWord({said.word}) /\ i \in Int
    BY DEF Sayings, SpokenWord, Unavailable
  <2>4. words[i] \in SpokenWord({words[i].word})
    BY <2>2, <2>3, SpokenIsWord
  <2>5. QED
    BY <2>1, <2>4 DEF SpokenWord
<1>3. DOMAIN words = 1 .. n /\ words = [i \in 1 .. n |-> words[i]]
  BY <1>1
<1>4. words \in Seq(SpokenWord(SaidIn(words)))
  BY <1>2, <1>3
<1>5. tokens \in Seq(TokensOf(words))
  <2>1. \A i \in 1 .. n : Normalized[words[i].word] \in TokensOf(words)
    BY <1>2 DEF TokensOf
  <2>2. tokens = [i \in 1 .. n |-> Normalized[words[i].word]]
    BY <1>3
  <2> HIDE DEF tokens
  <2>3. QED
    BY <2>1, <2>2
<1>6. TextOf(words) = Selected(tokens, P) /\ P \in SUBSET DOMAIN tokens
  BY DEF TextOf
<1>7. P = {} => \A w \in SaidIn(words) : Normalized[w] = ""
  BY DEF SaidIn
<1> HIDE DEF tokens, P
<1>8. IsFiniteSet(P) /\ P \in SUBSET Int /\ \A i \in P : tokens[i] \in TokensOf(words)
  BY <1>5, <1>6, SomePositions
<1>9. TextOf(words) \in Seq(TokensOf(words)) /\ Len(TextOf(words)) = Cardinality(P)
  BY <1>6, <1>8, SelectedIsSequence
<1>10. TextOf(words) = <<>> => P = {}
  <2>1. Len(<<>>) = 0
    OBVIOUS
  <2>2. TextOf(words) = <<>> => Cardinality(P) = 0
    BY <1>9, <2>1
  <2>3. QED
    BY <1>8, <2>2, FS_EmptySet
<1>11. QED
  BY <1>4, <1>7, <1>9, <1>10

\* The recordings that calls measure.
LEMMA MeasureInputShape ==
    ASSUME CallInput(input), input.kind = "measure"
    PROVE  /\ \E W, R : Recorded(input.payload, W, R)
           /\ input.declared \in Int /\ input.target \in Int /\ IsFiniteSet(input.targets)
<1>1. MeasureInput(input)
  BY DEF CallInput, EvaluateInput, RecommendInput
<1>2. \A targets \in SUBSET Targets : IsFiniteSet(targets)
  <2>1. IsFiniteSet({<<"go">>}) /\ IsFiniteSet({<<"go", "um">>})
    BY FS_Singleton
  <2>2. IsFiniteSet({<<"go">>} \union {<<"go", "um">>})
    BY <2>1, FS_Union
  <2>3. Targets = {<<"go">>} \union {<<"go", "um">>}
    BY DEF Targets
  <2>4. IsFiniteSet(Targets)
    BY <2>2, <2>3, Zenon
  <2>5. QED
    BY <2>4, FS_Subset
<1>3. PICK target \in {0, 150, 600}, targets \in SUBSET Targets, duration \in {0, 45, 90} :
        \/ \E words \in WordsUpTo(2), utterances \in Utterances :
               input = [kind |-> "measure", target |-> target, targets |-> targets,
                        declared |-> 60,
                        payload |-> [words |-> words, utterances |-> utterances,
                                     text |-> TextOf(words), duration |-> duration]]
        \/ \E n \in {9, 10, 20, 30}, t \in {"um", "go"} :
               input = [kind |-> "measure", target |-> target, targets |-> targets,
                        declared |-> 300,
                        payload |-> [words |-> <<>>, utterances |-> <<>>,
                                     text |-> [i \in 1..n |-> IF i % 3 = 0 THEN t ELSE "go"],
                                     duration |-> duration]]
  BY <1>1, Zenon DEF MeasureInput
<1>4. duration \in Int /\ target \in Int
  OBVIOUS
<1>5. ASSUME NEW words \in WordsUpTo(2), NEW utterances \in Utterances,
             input = [kind |-> "measure", target |-> target, targets |-> targets,
                      declared |-> 60,
                      payload |-> [words |-> words, utterances |-> utterances,
                                   text |-> TextOf(words), duration |-> duration]]
      PROVE  /\ input.target = target /\ input.targets = targets /\ input.declared = 60
             /\ Recorded(input.payload, SaidIn(words), TokensOf(words))
  <2>1. /\ input.target = target /\ input.targets = targets /\ input.declared = 60
        /\ input.payload.words = words /\ input.payload.utterances = utterances
        /\ input.payload.text = TextOf(words) /\ input.payload.duration = duration
    BY <1>5
  <2>3. /\ words \in Seq(SpokenWord(SaidIn(words))) /\ TextOf(words) \in Seq(TokensOf(words))
        /\ TextOf(words) = <<>> => \A w \in SaidIn(words) : Normalized[w] = ""
    BY RecordedWords, Zenon
  <2>4. \A w \in SaidIn(words) : Normalized[w] \in TokensOf(words)
    BY DEF TokensOf
  <2>5. utterances \in Seq([from : Int, to : Int])
    <3> DEFINE S == [from : Int, to : Int]
    <3>1. /\ Utterance(0, 90) \in S /\ Utterance(20, 38) \in S /\ Utterance(40, 90) \in S
          /\ Utterance(Unavailable, Unavailable) \in S
      BY DEF Utterance, Unavailable
    <3> HIDE DEF S
    <3>2. <<>> \in Seq(S) /\ (\A x \in S : <<x>> \in Seq(S)) /\ \A x, y \in S : <<x, y>> \in Seq(S)
      OBVIOUS
    <3>3. utterances \in Seq(S)
      <4>1. CASE utterances = <<>>
        BY <3>2, <4>1
      <4>2. CASE utterances = <<Utterance(0, 90)>>
        BY <3>1, <3>2, <4>2
      <4>3. CASE utterances = <<Utterance(20, 38), Utterance(40, 90)>>
        BY <3>1, <3>2, <4>3
      <4>4. CASE utterances = <<Utterance(Unavailable, Unavailable)>>
        BY <3>1, <3>2, <4>4
      <4>5. QED
        BY <4>1, <4>2, <4>3, <4>4 DEF Utterances
    <3>4. QED
      BY <3>3 DEF S
  <2>6. Heard(input.payload, SaidIn(words), TokensOf(words))
    <3>1. input.payload.words \in Seq(SpokenWord(SaidIn(words)))
      BY <2>1, <2>3, Zenon
    <3>2. input.payload.utterances \in Seq([from : Int, to : Int])
      BY <2>1, <2>5, Zenon
    <3>3. input.payload.text \in Seq(TokensOf(words))
      <4>1. TextOf(words) \in Seq(TokensOf(words))
        BY <2>3, Zenon
      <4>2. input.payload.text = TextOf(words)
        BY <2>1, Zenon
      <4>3. QED
        BY <4>1, <4>2, Zenon
    <3>4. input.payload.duration \in Int
      BY <1>4, <2>1
    <3>5. QED
      BY <2>4, <3>1, <3>2, <3>3, <3>4, Zenon DEF Heard
  <2>7. Recorded(input.payload, SaidIn(words), TokensOf(words))
    BY <2>1, <2>3, <2>6, Zenon DEF Recorded
  <2>8. QED
    BY <2>1, <2>7
<1>6. ASSUME NEW n \in {9, 10, 20, 30}, NEW t \in {"um", "go"},
             input = [kind |-> "measure", target |-> target, targets |-> targets,
                      declared |-> 300,
                      payload |-> [words |-> <<>>, utterances |-> <<>>,
                                   text |-> [i \in 1..n |-> IF i % 3 = 0 THEN t ELSE "go"],
                                   duration |-> duration]]
      PROVE  /\ input.target = target /\ input.targets = targets /\ input.declared = 300
             /\ Recorded(input.payload, {}, {"um", "go"})
  <2> DEFINE text == [i \in 1..n |-> IF i % 3 = 0 THEN t ELSE "go"]
  <2>1. text \in Seq({"um", "go"})
    OBVIOUS
  <2>2. /\ input.target = target /\ input.targets = targets /\ input.declared = 300
        /\ input.payload.words = <<>> /\ input.payload.utterances = <<>>
        /\ input.payload.text = text /\ input.payload.duration = duration
    BY <1>6
  <2> HIDE DEF text
  <2>3. QED
    BY <1>4, <2>1, <2>2 DEF Heard, Recorded
<1>7. \/ \E W, R : Recorded(input.payload, W, R) /\ input.declared = 60
      \/ \E W, R : Recorded(input.payload, W, R) /\ input.declared = 300
  BY <1>3, <1>5, <1>6
<1>8. input.target = target /\ input.targets = targets
  BY <1>3, <1>5, <1>6
<1>9. QED
  BY <1>2, <1>4, <1>7, <1>8

\* The score of a recording rests on what was measured: in every call.
THEOREM ScoresRestOnEvidence == CallSpec => []ScoreRestsOnEvidence
<1>1. CallInv => ScoreRestsOnEvidence
  <2> SUFFICES ASSUME CallInv, Answered("measure") PROVE ScoreRestsOnEvidence
    BY DEF ScoreRestsOnEvidence
  <2> DEFINE card == CardOf(input.payload, input.declared, input.target, input.targets)
  <2>1. result[1] = card
    BY DEF CallInv, Answered, CardOf
  <2>2. PICK W, R : Recorded(input.payload, W, R)
    BY MeasureInputShape DEF CallInv, Answered
  <2>3. input.declared \in Int /\ input.target \in Int /\ IsFiniteSet(input.targets)
    BY MeasureInputShape DEF CallInv, Answered
  <2>4. /\ RestsOnEvidence(card)
        /\ input.target > 0 /\ input.payload.text = <<>> => card.overall = 0
    BY <2>2, <2>3, MeasuredScoreRestsOnEvidence
  <2> HIDE DEF card
  <2>5. /\ RestsOnEvidence(result[1])
        /\ input.target > 0 /\ input.payload.text = <<>> => result[1].overall = 0
    BY <2>1, <2>4
  <2>6. QED
    BY <2>5 DEF ScoreRestsOnEvidence, RestsOnEvidence
<1>2. QED
  BY <1>1, CallInvariant, PTL

(***************************************************************************)
(* The recommendation: the best valid challenge.                           *)
(***************************************************************************)
\* The last of them exists.
LEMMA LastExists ==
    ASSUME NEW V, IsFiniteSet(V), V # {}, NEW R, IsOrder(V, R)
    PROVE  \E r \in V : \A u \in V \ {r} : <<u, r>> \in R
<1> DEFINE N == {Cardinality(Later(v, V, R)) : v \in V}
<1>1. ASSUME NEW v \in V PROVE Cardinality(Later(v, V, R)) \in Nat
  <2>1. IsFiniteSet(Later(v, V, R))
    BY FS_Subset DEF Later
  <2>2. QED
    BY <2>1, FS_CardinalityType
<1>2. N \in SUBSET Nat /\ N # {}
  BY <1>1
<1>3. PICK n \in N : \A m \in N : n <= m
  <2> HIDE DEF N
  <2>1. QED
    BY <1>2, LeastNatural
<1>4. PICK r \in V : n = Cardinality(Later(r, V, R))
  OBVIOUS
<1>5. ASSUME NEW u \in V \ {r} PROVE <<u, r>> \in R
  <2>1. ~(Cardinality(Later(u, V, R)) < Cardinality(Later(r, V, R)))
    BY <1>1, <1>3, <1>4
  <2>2. <<r, u>> \notin R
    BY <2>1, LaterHasFewer
  <2>3. QED
    BY <2>2 DEF IsOrder
<1>6. QED
  BY <1>5

\* A challenge of a curriculum.
WellFormed(c) ==
    /\ c.id \in Nat \ {NoChallenge}
    /\ c.difficulty[1] \in Int
    /\ IsFiniteSet(c.words) /\ Cardinality(c.words) >= 2

\* The context of an assignment, with some history: a sequence of completed challenges.
Practised(levels, history) == [AssignmentContext(levels) EXCEPT !.history = history]

\* A valid challenge has one to five skills.
LEMMA SkillsOfValid ==
    ASSUME NEW c, ValidChallenge(c)
    PROVE  IsFiniteSet(c.skills) /\ Cardinality(c.skills) \in Nat \ {0}
<1>1. IsFiniteSet(CoreSkills)
  <2>1. /\ IsFiniteSet({"thinking"}) /\ IsFiniteSet({"structure"}) /\ IsFiniteSet({"language"})
        /\ IsFiniteSet({"fluency"}) /\ IsFiniteSet({"delivery"})
    BY FS_Singleton
  <2>2. IsFiniteSet({"thinking"} \union {"structure"})
    BY <2>1, FS_Union
  <2>3. IsFiniteSet(({"thinking"} \union {"structure"}) \union {"language"})
    BY <2>1, <2>2, FS_Union
  <2>4. IsFiniteSet({"fluency"} \union {"delivery"})
    BY <2>1, FS_Union
  <2>5. IsFiniteSet((({"thinking"} \union {"structure"}) \union {"language"})
                       \union ({"fluency"} \union {"delivery"}))
    BY <2>3, <2>4, FS_Union
  <2>6. CoreSkills \subseteq (({"thinking"} \union {"structure"}) \union {"language"})
                               \union ({"fluency"} \union {"delivery"})
    BY DEF CoreSkills
  <2>7. QED
    BY <2>5, <2>6, FS_Subset
<1>2. c.skills # {} /\ c.skills \subseteq CoreSkills
  BY DEF ValidChallenge
<1>3. IsFiniteSet(c.skills)
  BY <1>1, <1>2, FS_Subset
<1>4. QED
  BY <1>2, <1>3, FS_EmptySet, FS_CardinalityType

\* The need of a challenge is a number.
LEMMA NeedIsNumber ==
    ASSUME NEW c, ValidChallenge(c), NEW x, \A s \in DOMAIN x.levels : x.levels[s] \in Int
    PROVE  Need(c, x) \in Int
<1> DEFINE f == [s \in c.skills |-> 100 - Known(x.levels, s, 50)]
<1>1. DOMAIN f = c.skills /\ \A s \in c.skills : f[s] \in Int
  BY DEF Known
<1> HIDE DEF f
<1>2. SumFunctionOnSet(f, c.skills) \in Int
  BY <1>1, SkillsOfValid, SumOfSubset
<1>3. Need(c, x) = SumFunctionOnSet(f, c.skills)
  BY <1>1, Zenon DEF Need, SumFunction, f
<1>4. QED
  BY <1>2, <1>3

\* The parts of a score are within their bounds.
LEMMA FamiliarityBounds == \A d \in Int : AtLeast(0, 100 - 25 * Distance(d, 3)) \in 0 .. 100
BY DEF AtLeast, Distance

\* The variety of tasks adds at most 3000.
LEMMA VarietyBounds ==
    ASSUME NEW c, NEW x, SameTask(c, x) \in Nat
    PROVE  Variety(c, x) \in Int /\ 0 <= Variety(c, x) /\ Variety(c, x) <= 3000
<1>1. PICK k \in Nat : k = SameTask(c, x)
  OBVIOUS
<1>2. QED
  BY <1>1 DEF Variety, AtLeast

\* Two words that are not fluent yet add all of the practice.
LEMMA PracticeBounds == \A k \in Nat : k >= 2 => AtMost(3000, 1500 * k) = 3000
BY DEF AtMost

\* A score is the need q, the novelty, and what familiarity f and variety v add.
ScoreParts(c, x, q, f, v) ==
    /\ q \in Int /\ q = (240 * Need(c, x)) \div Cardinality(c.skills)
    /\ f \in Int /\ 0 <= f /\ f <= 100
    /\ v \in Int /\ 0 <= v /\ v <= 3000
    /\ Score(c, x) = q + 120 * 25 + 81 * 60 + 27 * f + Novelty(c, x) + v + 3000

\* The parts of the score of a valid challenge in the context of an assignment.
LEMMA ScoreIsNumber ==
    ASSUME NEW c, ValidChallenge(c), WellFormed(c),
           NEW levels, \A s \in DOMAIN levels : levels[s] \in Int,
           NEW history, IsFiniteSet(DOMAIN history),
           NEW x, x = Practised(levels, history)
    PROVE  \E q, f, v : ScoreParts(c, x, q, f, v)
<1>1. /\ x.levels = levels /\ x.named = {} /\ x.hinted = {} /\ x.desired = <<>>
      /\ x.familiarity = <<>> /\ x.fluent = {} /\ x.history = history
  BY DEF Practised, AssignmentContext
<1>2. Relevance(c, x) = 25 /\ DifficultyFit(c, x) = 60
  BY <1>1 DEF Relevance, DifficultyFit
<1>3. FamiliarityFit(c, x) \in 0 .. 100
  <2>1. Known(x.familiarity, c.topic, 3) = 3
    BY <1>1 DEF Known
  <2>2. FamiliarityFit(c, x) = AtLeast(0, 100 - 25 * Distance(c.difficulty[1], 3))
    BY <2>1, Zenon DEF FamiliarityFit
  <2>3. c.difficulty[1] \in Int
    BY DEF WellFormed
  <2>4. QED
    BY <2>2, <2>3, FamiliarityBounds, Zenon
<1>4. Variety(c, x) \in Int /\ 0 <= Variety(c, x) /\ Variety(c, x) <= 3000
  <2> DEFINE last == {i \in RecentHistory(x) : Cardinality({j \in RecentHistory(x) : j > i}) < 3}
  <2> DEFINE same == {i \in last : x.history[i].challenge.task = c.task}
  <2>1. same \subseteq DOMAIN history
    BY <1>1 DEF RecentHistory
  <2>3. SameTask(c, x) = Cardinality(same)
    BY DEF SameTask
  <2> HIDE DEF same, last
  <2>4. SameTask(c, x) \in Nat
    BY <2>1, <2>3, FS_Subset, FS_CardinalityType
  <2>5. QED
    BY <2>4, VarietyBounds
<1>5. Practice(c, x) = 3000
  <2>1. c.words \ x.fluent = c.words
    BY <1>1
  <2>2. Cardinality(c.words) \in Nat /\ Cardinality(c.words) >= 2
    BY FS_CardinalityType DEF WellFormed
  <2>3. Cardinality(c.words \ x.fluent) = Cardinality(c.words)
    BY <2>1, Zenon
  <2>4. QED
    BY <2>2, <2>3, PracticeBounds DEF Practice
<1>6. (240 * Need(c, x)) \div Cardinality(c.skills) \in Int
  BY <1>1, NeedIsNumber, SkillsOfValid
<1>7. QED
  <2>1. Score(c, x) = (240 * Need(c, x)) \div Cardinality(c.skills) + 120 * 25 + 81 * 60
                        + 27 * FamiliarityFit(c, x) + Novelty(c, x) + Variety(c, x) + 3000
    BY <1>2, <1>5 DEF Score
  <2>2. PICK q, f, v : /\ q = (240 * Need(c, x)) \div Cardinality(c.skills)
                       /\ f = FamiliarityFit(c, x) /\ v = Variety(c, x)
    OBVIOUS
  <2>3. q \in Int
    BY <1>6, <2>2
  <2>4. f \in Int /\ 0 <= f /\ f <= 100
    BY <1>3, <2>2
  <2>5. v \in Int /\ 0 <= v /\ v <= 3000
    BY <1>4, <2>2
  <2>6. Score(c, x) = q + 120 * 25 + 81 * 60 + 27 * f + Novelty(c, x) + v + 3000
    BY <2>1, <2>2
  <2>7. ScoreParts(c, x, q, f, v)
    BY <2>2, <2>3, <2>4, <2>5, <2>6 DEF ScoreParts
  <2>8. QED
    BY <2>7

\* Novelty outweighs familiarity and variety together.
LEMMA NoveltyOutweighs ==
    ASSUME NEW qc \in Int, NEW fc \in Int, NEW vc \in Int, fc <= 100, vc <= 3000,
           NEW qd \in Int, NEW fd \in Int, NEW vd \in Int, 0 <= fd, 0 <= vd,
           NEW sc, sc = qc + 120 * 25 + 81 * 60 + 27 * fc + 0 + vc + 3000,
           NEW sd, sd = qd + 120 * 25 + 81 * 60 + 27 * fd + 7200 + vd + 3000,
           sc > sd \/ sc = sd
    PROVE  qc >= qd + 1
OBVIOUS

\* The larger of two rounded quotients is the larger of the quotients.
LEMMA QuotientsOrdered ==
    ASSUME NEW a \in Int, NEW b \in Int, NEW k \in Nat \ {0}, NEW m \in Nat \ {0},
           (240 * a) \div k >= (240 * b) \div m + 1
    PROVE  a * m > b * k
<1>1. PICK q \in Int : q = (240 * a) \div k
  OBVIOUS
<1>2. PICK r \in Int : r = (240 * b) \div m
  OBVIOUS
<1>3. q * k <= 240 * a
  BY <1>1
<1>4. (r + 1) * m > 240 * b
  BY <1>2
<1>5. q >= r + 1
  BY <1>1, <1>2
<1>6. (q * k) * m <= (240 * a) * m /\ ((r + 1) * m) * k > (240 * b) * k
  BY <1>3, <1>4
<1>7. q * (k * m) >= (r + 1) * (k * m)
  BY <1>5
<1>8. 240 * (a * m) > 240 * (b * k)
  BY <1>6, <1>7
<1>9. QED
  BY <1>8

\* A challenge that was repeated and is better than one that was not is needed more:
\* what else it may gain does not make up for the novelty of the other.
LEMMA RepeatedIsNeedier ==
    ASSUME NEW c, ValidChallenge(c), WellFormed(c), NEW d, ValidChallenge(d), WellFormed(d),
           NEW levels, \A s \in DOMAIN levels : levels[s] \in Int,
           NEW history, IsFiniteSet(DOMAIN history),
           NEW x, x = Practised(levels, history),
           Better(c, d, x), IsRepeated(c, x), ~IsRepeated(d, x)
    PROVE  Needier(c, d, x)
<1>1. PICK qc, fc, vc : ScoreParts(c, x, qc, fc, vc)
  BY ScoreIsNumber
<1>2. PICK qd, fd, vd : ScoreParts(d, x, qd, fd, vd)
  BY ScoreIsNumber
<1>3. Novelty(c, x) = 0 /\ Novelty(d, x) = 7200
  BY DEF Novelty
<1>4. Score(c, x) = qc + 120 * 25 + 81 * 60 + 27 * fc + 0 + vc + 3000
  BY <1>1, <1>3 DEF ScoreParts
<1>5. Score(d, x) = qd + 120 * 25 + 81 * 60 + 27 * fd + 7200 + vd + 3000
  BY <1>2, <1>3 DEF ScoreParts
<1>6. qc >= qd + 1
  BY <1>1, <1>2, <1>4, <1>5, NoveltyOutweighs DEF ScoreParts, Better
<1>7. PICK nc \in Int, nd \in Int, kc \in Nat \ {0}, kd \in Nat \ {0} :
          /\ nc = Need(c, x) /\ nd = Need(d, x)
          /\ kc = Cardinality(c.skills) /\ kd = Cardinality(d.skills)
  <2>1. \A s \in DOMAIN x.levels : x.levels[s] \in Int
    BY DEF Practised, AssignmentContext
  <2>2. QED
    BY <2>1, NeedIsNumber, SkillsOfValid
<1>8. qc = (240 * nc) \div kc /\ qd = (240 * nd) \div kd
  BY <1>1, <1>2, <1>7 DEF ScoreParts
<1>9. nc * kd > nd * kc
  BY <1>6, <1>8, QuotientsOrdered
<1>10. QED
  BY <1>7, <1>9 DEF Needier

\* The candidates that a recommendation ranks.
ValidOnes(candidates) == {c \in candidates : ValidChallenge(c)}

\* A finite curriculum of well-formed entries that their identifiers tell apart.
Curated(S) ==
    /\ IsFiniteSet(S)
    /\ \A c \in S : WellFormed(c)
    /\ \A c, d \in S : c.id = d.id => c = d

\* For every curriculum, every level of the skills and every history: the best valid
\* challenge is recommended, and one that was just practised only if it is needed more
\* than each that was not.
THEOREM RecommendedIsBest ==
    ASSUME NEW candidates, NEW ranked, ranked = ValidOnes(candidates), Curated(ranked),
           NEW levels, \A s \in DOMAIN levels : levels[s] \in Int,
           NEW history, IsFiniteSet(DOMAIN history),
           NEW x, x = Practised(levels, history)
    PROVE  /\ ranked = {} => Recommended(candidates, x) = NoChallenge
           /\ ranked # {} =>
                \E c \in ranked :
                   /\ c.id = Recommended(candidates, x)
                   /\ \A d \in ranked \ {c} : Better(c, d, x)
                   /\ IsRepeated(c, x) =>
                        \A d \in ranked \ {c} : IsRepeated(d, x) \/ Needier(c, d, x)
<1> /\ IsFiniteSet(ranked) /\ \A c \in ranked : ValidChallenge(c) /\ WellFormed(c)
    /\ \A c, d \in ranked : c.id = d.id => c = d
  BY DEF Curated, ValidOnes
<1>1. ranked = {} => Recommended(candidates, x) = NoChallenge
  BY DEF Recommended, ValidOnes
<1>2. ASSUME ranked # {}
      PROVE  \E c \in ranked :
                /\ c.id = Recommended(candidates, x)
                /\ \A d \in ranked \ {c} : Better(c, d, x)
  <2> DEFINE R == {p \in ranked \X ranked : Better(p[2], p[1], x)}
  <2>1. ASSUME NEW c \in ranked PROVE Score(c, x) \in Int /\ c.id \in Int
    <3>1. PICK q, f, v : ScoreParts(c, x, q, f, v)
      BY ScoreIsNumber
    <3>2. Novelty(c, x) \in Int
      BY DEF Novelty
    <3>3. QED
      BY <3>1, <3>2 DEF ScoreParts, WellFormed
  <2>2. IsOrder(ranked, R)
    <3>1. \A c, d \in ranked : <<c, d>> \in R <=> Better(d, c, x)
      OBVIOUS
    <3> HIDE DEF R
    <3>2. \A c \in ranked : ~Better(c, c, x)
      BY <2>1 DEF Better
    <3>3. \A c, d, e \in ranked : Better(d, c, x) /\ Better(e, d, x) => Better(e, c, x)
      BY <2>1 DEF Better
    <3>4. \A c, d \in ranked : c # d => Better(d, c, x) \/ Better(c, d, x)
      BY <2>1 DEF Better
    <3>5. QED
      BY <3>1, <3>2, <3>3, <3>4 DEF IsOrder
  <2>3. PICK b \in ranked : \A d \in ranked \ {b} : <<d, b>> \in R
    BY <1>2, <2>2, LastExists
  <2>4. \A d \in ranked \ {b} : Better(b, d, x)
    BY <2>3
  <2> DEFINE c == CHOOSE c \in ranked : \A d \in ranked \ {c} : Better(c, d, x)
  <2>5. c \in ranked /\ \A d \in ranked \ {c} : Better(c, d, x)
    BY <2>4
  <2>6. Recommended(candidates, x) = c.id
    BY <1>2, Zenon DEF Recommended, ValidOnes
  <2> HIDE DEF c
  <2>7. QED
    BY <2>5, <2>6
<1>3. QED
  BY <1>1, <1>2, RepeatedIsNeedier

\* The entries of the catalogue.
LEMMA ThreeWords ==
    ASSUME NEW u, NEW v, NEW w, u # v
    PROVE  IsFiniteSet({u, v, w}) /\ Cardinality({u, v, w}) >= 2
<1>1. IsFiniteSet({u}) /\ IsFiniteSet({v}) /\ IsFiniteSet({w}) /\ Cardinality({u}) = 1
  BY FS_Singleton
<1>2. IsFiniteSet({u} \union {v})
  BY <1>1, FS_Union
<1>3. IsFiniteSet(({u} \union {v}) \union {w})
  BY <1>1, <1>2, FS_Union
<1>4. Cardinality({u} \union {v}) = Cardinality({u}) + 1
  BY <1>1, FS_AddElement
<1>5. Cardinality({u} \union {v}) <= Cardinality(({u} \union {v}) \union {w})
  BY <1>3, FS_Subset
<1>6. Cardinality(({u} \union {v}) \union {w}) \in Nat
  BY <1>3, FS_CardinalityType
<1>7. Cardinality(({u} \union {v}) \union {w}) >= 2
  BY <1>1, <1>4, <1>5, <1>6
<1>8. ({u} \union {v}) \union {w} = {u, v, w}
  OBVIOUS
<1>9. QED
  BY <1>3, <1>7, <1>8, Zenon

\* When an entry of a catalogue is valid.
LEMMA EntryIsValid ==
    ASSUME NEW c, c.active, c.id \in Nat \ {NoChallenge},
           c.skills # {}, c.skills \subseteq CoreSkills,
           c.difficulty[1] \in Int, c.difficulty[4] \in Int, c.difficulty[4] < 4,
           c.task # "oppose", c.seconds \in Int, 15 <= c.seconds, c.seconds <= 1800,
           IsFiniteSet(c.words), Cardinality(c.words) >= 2
    PROVE  ValidChallenge(c) /\ WellFormed(c)
BY DEF ValidChallenge, WellFormed

\* The entries of the baseline are.
LEMMA BaselineIsValid ==
    ASSUME NEW c \in BASELINE_CATALOG
    PROVE  ValidChallenge(c) /\ WellFormed(c) /\ c.id \in 1 .. 3
<1>1. CASE c = Candidate(1, {"thinking", "language"},
                         <<1, 1, 2, 2, 1, 1, 1>>,
                         "explain", "everyday decisions", 60, {"decision", "because", "therefore"}, TRUE)
  <2>1. /\ c.active /\ c.id = 1 /\ c.skills = {"thinking", "language"}
        /\ c.difficulty[1] = 1 /\ c.difficulty[4] = 2 /\ c.task = "explain"
        /\ c.seconds = 60 /\ c.words = {"decision", "because", "therefore"}
    BY <1>1 DEF Candidate
  <2>2. /\ IsFiniteSet({"decision", "because", "therefore"})
        /\ Cardinality({"decision", "because", "therefore"}) >= 2
    BY ThreeWords, "decision" # "because", Zenon
  <2>3. IsFiniteSet(c.words) /\ Cardinality(c.words) >= 2
    BY <2>1, <2>2, Zenon
  <2>4. c.skills # {} /\ c.skills \subseteq CoreSkills
    BY <2>1 DEF CoreSkills
  <2>5. c.id \in Nat \ {NoChallenge}
    BY <2>1 DEF NoChallenge
  <2>6. QED
    BY <2>1, <2>3, <2>4, <2>5, EntryIsValid
<1>2. CASE c = Candidate(3, {"thinking", "structure", "language"},
                         <<2, 2, 2, 3, 2, 1, 2>>,
                         "argue", "practical improvement", 90, {"claim", "reason", "conclusion"}, TRUE)
  <2>1. /\ c.active /\ c.id = 3 /\ c.skills = {"thinking", "structure", "language"}
        /\ c.difficulty[1] = 2 /\ c.difficulty[4] = 3 /\ c.task = "argue"
        /\ c.seconds = 90 /\ c.words = {"claim", "reason", "conclusion"}
    BY <1>2 DEF Candidate
  <2>2. /\ IsFiniteSet({"claim", "reason", "conclusion"})
        /\ Cardinality({"claim", "reason", "conclusion"}) >= 2
    BY ThreeWords, "claim" # "reason", Zenon
  <2>3. IsFiniteSet(c.words) /\ Cardinality(c.words) >= 2
    BY <2>1, <2>2, Zenon
  <2>4. c.skills # {} /\ c.skills \subseteq CoreSkills
    BY <2>1 DEF CoreSkills
  <2>5. c.id \in Nat \ {NoChallenge}
    BY <2>1 DEF NoChallenge
  <2>6. QED
    BY <2>1, <2>3, <2>4, <2>5, EntryIsValid
<1>3. CASE c = Candidate(2, {"fluency", "delivery"},
                         <<2, 2, 2, 3, 1, 1, 2>>,
                         "story", "problem solving", 90, {"problem", "resolve", "outcome"}, TRUE)
  <2>1. /\ c.active /\ c.id = 2 /\ c.skills = {"fluency", "delivery"}
        /\ c.difficulty[1] = 2 /\ c.difficulty[4] = 3 /\ c.task = "story"
        /\ c.seconds = 90 /\ c.words = {"problem", "resolve", "outcome"}
    BY <1>3 DEF Candidate
  <2>2. /\ IsFiniteSet({"problem", "resolve", "outcome"})
        /\ Cardinality({"problem", "resolve", "outcome"}) >= 2
    BY ThreeWords, "problem" # "resolve", Zenon
  <2>3. IsFiniteSet(c.words) /\ Cardinality(c.words) >= 2
    BY <2>1, <2>2, Zenon
  <2>4. c.skills # {} /\ c.skills \subseteq CoreSkills
    BY <2>1 DEF CoreSkills
  <2>5. c.id \in Nat \ {NoChallenge}
    BY <2>1 DEF NoChallenge
  <2>6. QED
    BY <2>1, <2>3, <2>4, <2>5, EntryIsValid
<1>4. QED
  BY <1>1, <1>2, <1>3, Zenon DEF BASELINE_CATALOG

\* The entries for practice are.
LEMMA PracticeIsValid ==
    ASSUME NEW c \in PRACTICE_CATALOG
    PROVE  ValidChallenge(c) /\ WellFormed(c) /\ c.id \in 9 .. 11
<1>1. CASE c = Candidate(11, {"thinking", "structure"},
                         <<3, 3, 3, 3, 2, 2, 2>>,
                         "argue", "practical improvement", 120, {"trade-off", "evidence", "outcome"}, TRUE)
  <2>1. /\ c.active /\ c.id = 11 /\ c.skills = {"thinking", "structure"}
        /\ c.difficulty[1] = 3 /\ c.difficulty[4] = 3 /\ c.task = "argue"
        /\ c.seconds = 120 /\ c.words = {"trade-off", "evidence", "outcome"}
    BY <1>1 DEF Candidate
  <2>2. /\ IsFiniteSet({"trade-off", "evidence", "outcome"})
        /\ Cardinality({"trade-off", "evidence", "outcome"}) >= 2
    BY ThreeWords, "trade-off" # "evidence", Zenon
  <2>3. IsFiniteSet(c.words) /\ Cardinality(c.words) >= 2
    BY <2>1, <2>2, Zenon
  <2>4. c.skills # {} /\ c.skills \subseteq CoreSkills
    BY <2>1 DEF CoreSkills
  <2>5. c.id \in Nat \ {NoChallenge}
    BY <2>1 DEF NoChallenge
  <2>6. QED
    BY <2>1, <2>3, <2>4, <2>5, EntryIsValid
<1>2. CASE c = Candidate(10, {"fluency", "language"},
                         <<3, 3, 2, 3, 2, 1, 3>>,
                         "compare", "leisure choices", 120, {"compare", "criterion", "recommend"}, TRUE)
  <2>1. /\ c.active /\ c.id = 10 /\ c.skills = {"fluency", "language"}
        /\ c.difficulty[1] = 3 /\ c.difficulty[4] = 3 /\ c.task = "compare"
        /\ c.seconds = 120 /\ c.words = {"compare", "criterion", "recommend"}
    BY <1>2 DEF Candidate
  <2>2. /\ IsFiniteSet({"compare", "criterion", "recommend"})
        /\ Cardinality({"compare", "criterion", "recommend"}) >= 2
    BY ThreeWords, "compare" # "criterion", Zenon
  <2>3. IsFiniteSet(c.words) /\ Cardinality(c.words) >= 2
    BY <2>1, <2>2, Zenon
  <2>4. c.skills # {} /\ c.skills \subseteq CoreSkills
    BY <2>1 DEF CoreSkills
  <2>5. c.id \in Nat \ {NoChallenge}
    BY <2>1 DEF NoChallenge
  <2>6. QED
    BY <2>1, <2>3, <2>4, <2>5, EntryIsValid
<1>3. CASE c = Candidate(9, {"delivery", "language"},
                         <<3, 2, 2, 3, 2, 1, 2>>,
                         "explain", "work", 120, {"purpose", "sequence", "practical"}, TRUE)
  <2>1. /\ c.active /\ c.id = 9 /\ c.skills = {"delivery", "language"}
        /\ c.difficulty[1] = 3 /\ c.difficulty[4] = 3 /\ c.task = "explain"
        /\ c.seconds = 120 /\ c.words = {"purpose", "sequence", "practical"}
    BY <1>3 DEF Candidate
  <2>2. /\ IsFiniteSet({"purpose", "sequence", "practical"})
        /\ Cardinality({"purpose", "sequence", "practical"}) >= 2
    BY ThreeWords, "purpose" # "sequence", Zenon
  <2>3. IsFiniteSet(c.words) /\ Cardinality(c.words) >= 2
    BY <2>1, <2>2, Zenon
  <2>4. c.skills # {} /\ c.skills \subseteq CoreSkills
    BY <2>1 DEF CoreSkills
  <2>5. c.id \in Nat \ {NoChallenge}
    BY <2>1 DEF NoChallenge
  <2>6. QED
    BY <2>1, <2>3, <2>4, <2>5, EntryIsValid
<1>4. QED
  BY <1>1, <1>2, <1>3, Zenon DEF PRACTICE_CATALOG

\* Three entries with identifiers of their own are such a curriculum.
LEMMA ThreeEntries ==
    ASSUME NEW a, NEW b, NEW c, a.id # b.id, b.id # c.id, a.id # c.id,
           \A e \in {a, b, c} : WellFormed(e)
    PROVE  Curated({a, b, c})
<1>1. IsFiniteSet({a}) /\ IsFiniteSet({b}) /\ IsFiniteSet({c})
  BY FS_Singleton
<1>2. IsFiniteSet({a} \union {b})
  BY <1>1, FS_Union
<1>3. IsFiniteSet(({a} \union {b}) \union {c})
  BY <1>1, <1>2, FS_Union
<1>4. ({a} \union {b}) \union {c} = {a, b, c}
  OBVIOUS
<1>5. IsFiniteSet({a, b, c})
  BY <1>3, <1>4, Zenon
<1>6. \A d, e \in {a, b, c} : d.id = e.id => d = e
  OBVIOUS
<1>7. QED
  BY <1>5, <1>6 DEF Curated

\* Both catalogues are.
LEMMA CataloguesAreCurated == Curated(BASELINE_CATALOG) /\ Curated(PRACTICE_CATALOG)
<1>1. Curated(BASELINE_CATALOG)
  <2>1. PICK a, b, c : BASELINE_CATALOG = {a, b, c} /\ a.id = 1 /\ b.id = 3 /\ c.id = 2
    <3> DEFINE a == Candidate(1, {"thinking", "language"}, <<1, 1, 2, 2, 1, 1, 1>>, "explain",
              "everyday decisions", 60, {"decision", "because", "therefore"}, TRUE)
    <3> DEFINE b == Candidate(3, {"thinking", "structure", "language"}, <<2, 2, 2, 3, 2, 1, 2>>, "argue",
              "practical improvement", 90, {"claim", "reason", "conclusion"}, TRUE)
    <3> DEFINE c == Candidate(2, {"fluency", "delivery"}, <<2, 2, 2, 3, 1, 1, 2>>, "story",
              "problem solving", 90, {"problem", "resolve", "outcome"}, TRUE)
    <3>1. a.id = 1 /\ b.id = 3 /\ c.id = 2
      BY DEF Candidate
    <3>2. BASELINE_CATALOG = {a, b, c}
      BY Zenon DEF BASELINE_CATALOG
    <3> HIDE DEF a, b, c
    <3>3. QED
      BY <3>1, <3>2, Zenon
  <2>2. \A e \in {a, b, c} : WellFormed(e)
    BY <2>1, BaselineIsValid
  <2>3. Curated({a, b, c})
    BY <2>1, <2>2, ThreeEntries
  <2>4. QED
    BY <2>1, <2>3, Zenon
<1>2. Curated(PRACTICE_CATALOG)
  <2>1. PICK a, b, c : PRACTICE_CATALOG = {a, b, c} /\ a.id = 11 /\ b.id = 10 /\ c.id = 9
    <3> DEFINE a == Candidate(11, {"thinking", "structure"}, <<3, 3, 3, 3, 2, 2, 2>>, "argue",
              "practical improvement", 120, {"trade-off", "evidence", "outcome"}, TRUE)
    <3> DEFINE b == Candidate(10, {"fluency", "language"}, <<3, 3, 2, 3, 2, 1, 3>>, "compare",
              "leisure choices", 120, {"compare", "criterion", "recommend"}, TRUE)
    <3> DEFINE c == Candidate(9, {"delivery", "language"}, <<3, 2, 2, 3, 2, 1, 2>>, "explain",
              "work", 120, {"purpose", "sequence", "practical"}, TRUE)
    <3>1. a.id = 11 /\ b.id = 10 /\ c.id = 9
      BY DEF Candidate
    <3>2. PRACTICE_CATALOG = {a, b, c}
      BY Zenon DEF PRACTICE_CATALOG
    <3> HIDE DEF a, b, c
    <3>3. QED
      BY <3>1, <3>2, Zenon
  <2>2. \A e \in {a, b, c} : WellFormed(e)
    BY <2>1, PracticeIsValid
  <2>3. Curated({a, b, c})
    BY <2>1, <2>2, ThreeEntries
  <2>4. QED
    BY <2>1, <2>3, Zenon
<1>3. QED
  BY <1>1, <1>2

\* No entry of the future curriculum is active.
LEMMA FutureIsInactive == \A c \in FUTURE_CURRICULUM : ~c.active
<1>1. ASSUME NEW c, NEW id, NEW skills, NEW difficulty, NEW kind, NEW topic, NEW seconds,
             NEW words, c = Candidate(id, skills, difficulty, kind, topic, seconds, words, FALSE)
      PROVE  ~c.active
  BY <1>1 DEF Candidate
<1>2. QED
  BY <1>1, Zenon DEF FUTURE_CURRICULUM

\* What a call may choose from: what is active of it is valid and curated.
LEMMA ActiveIsCurated ==
    ASSUME NEW candidates \in {PRACTICE_CATALOG, BASELINE_CATALOG \cup PRACTICE_CATALOG,
                               PRACTICE_CATALOG \cup FUTURE_CURRICULUM, FUTURE_CURRICULUM},
           NEW active, active = {c \in candidates : c.active}
    PROVE  /\ active = ValidOnes(candidates)
           /\ Curated(active)
<1>1. /\ \A c \in BASELINE_CATALOG : ValidChallenge(c) /\ WellFormed(c) /\ c.id \in 1 .. 3
      /\ \A c \in PRACTICE_CATALOG : ValidChallenge(c) /\ WellFormed(c) /\ c.id \in 9 .. 11
  BY BaselineIsValid, PracticeIsValid
<1>2. \A c : ValidChallenge(c) => c.active
  BY DEF ValidChallenge
<1>3. active \subseteq BASELINE_CATALOG \cup PRACTICE_CATALOG
  BY FutureIsInactive
<1>4. active = ValidOnes(candidates)
  BY <1>1, <1>2, <1>3 DEF ValidOnes
<1>5. IsFiniteSet(BASELINE_CATALOG \cup PRACTICE_CATALOG)
  BY CataloguesAreCurated, FS_Union DEF Curated
<1>6. IsFiniteSet(active)
  BY <1>3, <1>5, FS_Subset
<1>7. \A c \in active : WellFormed(c)
  BY <1>1, <1>3
<1>8. \A c, d \in active : c.id = d.id => c = d
  <2> SUFFICES ASSUME NEW c \in active, NEW d \in active, c.id = d.id PROVE c = d
    OBVIOUS
  <2>1. CASE c \in BASELINE_CATALOG /\ d \in BASELINE_CATALOG
    BY <2>1, CataloguesAreCurated DEF Curated
  <2>2. CASE c \in PRACTICE_CATALOG /\ d \in PRACTICE_CATALOG
    BY <2>2, CataloguesAreCurated DEF Curated
  <2>3. CASE ~(c \in BASELINE_CATALOG <=> d \in BASELINE_CATALOG)
    <3>1. ~(c.id \in 1 .. 3 /\ c.id \in 9 .. 11)
      OBVIOUS
    <3>2. QED
      BY <1>1, <1>3, <2>3, <3>1
  <2>4. QED
    BY <1>3, <2>1, <2>2, <2>3
<1>9. QED
  BY <1>4, <1>6, <1>7, <1>8 DEF Curated

\* The contexts in which calls recommend.
LEMMA RecommendInputShape ==
    ASSUME CallInput(input), input.kind = "recommend"
    PROVE  \E levels, history :
              /\ \A s \in DOMAIN levels : levels[s] \in Int
              /\ IsFiniteSet(DOMAIN history)
              /\ input.context = Practised(levels, history)
              /\ input.candidates \in
                   {PRACTICE_CATALOG, BASELINE_CATALOG \cup PRACTICE_CATALOG,
                    PRACTICE_CATALOG \cup FUTURE_CURRICULUM, FUTURE_CURRICULUM}
<1>1. RecommendInput(input)
  BY DEF CallInput, MeasureInput, EvaluateInput
<1> DEFINE Levels == UNION {[skills -> {20, 50, 80}] : skills \in SUBSET ProjectedSkills}
<1> DEFINE Offers == {PRACTICE_CATALOG, BASELINE_CATALOG \cup PRACTICE_CATALOG,
                      PRACTICE_CATALOG \cup FUTURE_CURRICULUM, FUTURE_CURRICULUM}
<1>2. ASSUME NEW levels \in Levels PROVE \A s \in DOMAIN levels : levels[s] \in Int
  OBVIOUS
<1>3. ASSUME NEW history \in Histories PROVE IsFiniteSet(DOMAIN history)
  <2>1. PICK k \in 0 .. 2 : DOMAIN history = 1 .. k
    BY DEF Histories
  <2>2. IsFiniteSet(1 .. k)
    BY FS_Interval, 1 \in Int, k \in Int
  <2>3. QED
    BY <2>1, <2>2, Zenon
<1>4. PICK levels \in Levels, history \in Histories, candidates \in Offers :
        input = [kind |-> "recommend", candidates |-> candidates,
                 context |-> [AssignmentContext(levels) EXCEPT !.history = history]]
  BY <1>1, Zenon DEF RecommendInput
<1> HIDE DEF Levels, Offers
<1>5. input.context = Practised(levels, history) /\ input.candidates = candidates
  BY <1>4 DEF Practised
<1>6. input.candidates \in Offers
  BY <1>5
<1>7. QED
  BY <1>2, <1>3, <1>5, <1>6 DEF Offers

\* The recommendation is active, and repeated only where it is needed more: in every call.
THEOREM RecommendationsAreSound == CallSpec => []RecommendationIsSound
<1>1. CallInv => RecommendationIsSound
  <2> SUFFICES ASSUME CallInv, Answered("recommend") PROVE RecommendationIsSound
    BY DEF RecommendationIsSound
  <2>1. result[1] = Recommended(input.candidates, input.context)
    BY DEF CallInv, Answered
  <2>2. PICK levels, history :
          /\ \A s \in DOMAIN levels : levels[s] \in Int
          /\ IsFiniteSet(DOMAIN history)
          /\ input.context = Practised(levels, history)
          /\ input.candidates \in
               {PRACTICE_CATALOG, BASELINE_CATALOG \cup PRACTICE_CATALOG,
                PRACTICE_CATALOG \cup FUTURE_CURRICULUM, FUTURE_CURRICULUM}
    BY RecommendInputShape DEF CallInv, Answered
  <2> DEFINE active == {c \in input.candidates : c.active}
  <2> DEFINE x == input.context
  <2>3. active = ValidOnes(input.candidates) /\ Curated(active)
    BY <2>2, ActiveIsCurated
  <2>4. /\ active = {} => Recommended(input.candidates, x) = NoChallenge
        /\ active # {} =>
             \E c \in active :
                /\ c.id = Recommended(input.candidates, x)
                /\ \A d \in active \ {c} : Better(c, d, x)
                /\ IsRepeated(c, x) =>
                     \A d \in active \ {c} : IsRepeated(d, x) \/ Needier(c, d, x)
    <3> HIDE DEF active, x
    <3>1. x = Practised(levels, history)
      BY <2>2 DEF x
    <3>2. QED
      BY <2>2, <2>3, <3>1, RecommendedIsBest
  <2> HIDE DEF active, x
  <2>5. IF active = {} THEN result[1] = NoChallenge
        ELSE \E c \in active :
               /\ c.id = result[1]
               /\ IsRepeated(c, x) =>
                    \A d \in active \ {c} : IsRepeated(d, x) \/ Needier(c, d, x)
    BY <2>1, <2>4 DEF x
  <2>6. QED
    BY <2>5 DEF RecommendationIsSound, active, x
<1>2. QED
  BY <1>1, CallInvariant, PTL
=============================================================================
