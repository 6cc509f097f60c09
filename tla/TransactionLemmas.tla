------------------------- MODULE TransactionLemmas -------------------------
(***************************************************************************)
(* Lemmas about transactions, for all units, dependencies and requests: what *)
(* the operators of the model compute, what each step of manager_add_job() *)
(* does to the jobs, the links and the marks, and the invariant TInv.      *)
(***************************************************************************)
EXTENDS Transaction, TLAPS

-----------------------------------------------------------------------------
(* The facts about numbers and finite sets that the lemmas rest on.  They  *)
(* are hypotheses here and proved in TransactionTheorems, which uses the    *)
(* library: its theorems in the context of every step make proofs slow.     *)

FiniteSetFacts ==
    /\ \A T : T \subseteq Nat /\ T # {} => \E m \in T : \A k \in T : m <= k
    /\ \A S : IsFiniteSet(S) => Cardinality(S) \in Nat
    /\ IsFiniteSet({}) /\ Cardinality({}) = 0
    /\ \A S, x : IsFiniteSet(S) => IsFiniteSet(S \cup {x})
    /\ \A S, T : IsFiniteSet(S) /\ T \subseteq S =>
         /\ IsFiniteSet(T) /\ Cardinality(T) <= Cardinality(S)
         /\ Cardinality(S) = Cardinality(T) => S = T
    /\ \A S, T, f :
         IsFiniteSet(S) /\ f \in [S -> T] /\ (\A y \in T : \E x \in S : f[x] = y) =>
           IsFiniteSet(T) /\ Cardinality(T) <= Cardinality(S)
    /\ \A S, T : IsFiniteSet(S) /\ IsFiniteSet(T) => IsFiniteSet(S \X T)

LEMMA LeastNumber ==
    ASSUME FiniteSetFacts, NEW T, T \subseteq Nat, T # {}
    PROVE  \E m \in T : \A k \in T : m <= k
  BY Zenon DEF FiniteSetFacts

LEMMA SizeType ==
    ASSUME FiniteSetFacts, NEW S, IsFiniteSet(S)
    PROVE  Cardinality(S) \in Nat
  BY Zenon DEF FiniteSetFacts

LEMMA SizeEmpty ==
    ASSUME FiniteSetFacts
    PROVE  IsFiniteSet({}) /\ Cardinality({}) = 0
  BY Zenon DEF FiniteSetFacts

LEMMA SizeAdd ==
    ASSUME FiniteSetFacts, NEW S, NEW x, IsFiniteSet(S)
    PROVE  IsFiniteSet(S \cup {x})
  BY Zenon DEF FiniteSetFacts

LEMMA SizeSubset ==
    ASSUME FiniteSetFacts, NEW S, IsFiniteSet(S), NEW T \in SUBSET S
    PROVE  /\ IsFiniteSet(T)
           /\ Cardinality(T) <= Cardinality(S)
           /\ Cardinality(S) = Cardinality(T) => S = T
  BY Zenon DEF FiniteSetFacts

LEMMA SizeSurjection ==
    ASSUME FiniteSetFacts, NEW S, NEW T, NEW f \in [S -> T], IsFiniteSet(S),
           \A y \in T : \E x \in S : f[x] = y
    PROVE  IsFiniteSet(T) /\ Cardinality(T) <= Cardinality(S)
  BY Zenon DEF FiniteSetFacts

LEMMA SizeProduct ==
    ASSUME FiniteSetFacts, NEW S, IsFiniteSet(S), NEW T, IsFiniteSet(T)
    PROVE  IsFiniteSet(S \X T)
  BY Zenon DEF FiniteSetFacts

LEMMA SetInduction ==
    ASSUME FiniteSetFacts, NEW T, 0 \in T, \A n \in Nat : n \in T => n + 1 \in T
    PROVE  \A n \in Nat : n \in T
  <1>1. SUFFICES ASSUME NEW U, U = {n \in Nat : n \notin T}, U # {} PROVE FALSE
    BY Zenon
  <1>2. PICK m \in U : \A k \in U : m <= k
    BY <1>1, LeastNumber
  <1>3. m \in Nat /\ m # 0 /\ m - 1 \in Nat /\ ~(m <= m - 1)
    BY <1>1
  <1>4. m - 1 \in T
    BY <1>1, <1>2, <1>3
  <1>5. (m - 1) + 1 \in T
    BY <1>3, <1>4
  <1> QED
    BY <1>1, <1>3, <1>5

-----------------------------------------------------------------------------
(* What Reach and Selected compute.                                        *)

\* A fact about nothing: with a record update in sight the SMT backend does
\* without its type inference, the cost of which grows with every step proved.
LEMMA Untyped == \A r : [r EXCEPT !.op = "none"] = [r EXCEPT !.op = "none"]
  OBVIOUS

USE Untyped

Grown(R, X) == UNION {{x} \cup {e[2] : e \in {y \in R : y[1] = x}} : x \in X}

Growth(f, R, S, N) == f = [i \in 0 .. N |-> IF i = 0 THEN S ELSE Grown(R, f[i - 1])]

LEMMA GrownExists ==
    ASSUME FiniteSetFacts, NEW R, NEW S, NEW N \in Nat
    PROVE  \E f : Growth(f, R, S, N)
  <1> DEFINE T == {n \in Nat : \E f : Growth(f, R, S, n)}
  <1>1. 0 \in T
    <2>1. PICK f : f = [i \in 0 .. 0 |-> S]
      BY Zenon
    <2>2. Growth(f, R, S, 0)
      BY <2>1 DEF Growth
    <2> QED
      BY <2>2
  <1>2. ASSUME NEW n \in Nat, n \in T PROVE n + 1 \in T
    <2>1. PICK f : f = [i \in 0 .. n |-> IF i = 0 THEN S ELSE Grown(R, f[i - 1])]
      BY <1>2 DEF Growth
    <2>2. PICK h : h = [i \in 0 .. n + 1 |-> IF i = n + 1 THEN Grown(R, f[n]) ELSE f[i]]
      BY Zenon
    <2>3. ASSUME NEW i \in 0 .. n + 1
          PROVE  h[i] = IF i = 0 THEN S ELSE Grown(R, h[i - 1])
      <3>1. CASE i = 0
        BY <2>1, <2>2, <3>1
      <3>2. CASE i = n + 1
        <4>1. h[n] = f[n] /\ n \in 0 .. n + 1 /\ i - 1 = n /\ i # 0
          BY <2>2, <3>2
        <4> QED
          BY <2>2, <3>2, <4>1
      <3>3. CASE i # 0 /\ i # n + 1
        <4>1. i \in 0 .. n /\ i - 1 \in 0 .. n /\ i - 1 # n + 1 /\ i - 1 \in 0 .. n + 1
          BY <3>3
        <4>2. h[i] = f[i] /\ h[i - 1] = f[i - 1]
          BY <2>2, <3>3, <4>1
        <4>3. f[i] = Grown(R, f[i - 1])
          BY Zenon, <2>1, <3>3, <4>1
        <4> QED
          BY <3>3, <4>2, <4>3
      <3> QED
        BY <3>1, <3>2, <3>3
    <2>4. Growth(h, R, S, n + 1)
      BY <2>2, <2>3 DEF Growth
    <2> QED
      BY <2>4
  <1>3. \A n \in Nat : n \in T
    <2> HIDE DEF T
    <2> QED
      BY <1>1, <1>2, SetInduction
  <1> QED
    BY <1>3

\* The sweeps of Reach, one after the other.
Sweeps(f, R, S) ==
    /\ Reach(R, S) = f[Cardinality(R)]
    /\ f[0] = S
    /\ \A n \in 1 .. Cardinality(R) : f[n] = Grown(R, f[n - 1])

LEMMA ReachSteps ==
    ASSUME FiniteSetFacts, NEW R, NEW S, Cardinality(R) \in Nat
    PROVE  \E f : Sweeps(f, R, S)
  <1>1. \E g : Growth(g, R, S, Cardinality(R))
    BY GrownExists
  <1>2. \E g : g = [n \in 0 .. Cardinality(R) |-> IF n = 0 THEN S
                ELSE UNION {{x} \cup {e[2] : e \in {y \in R : y[1] = x}} : x \in g[n - 1]}]
    BY Zenon, <1>1 DEF Grown, Growth
  <1> DEFINE f[n \in 0 .. Cardinality(R)] ==
                IF n = 0 THEN S
                ELSE UNION {{x} \cup {e[2] : e \in {y \in R : y[1] = x}} : x \in f[n - 1]}
  <1>3. f = [n \in 0 .. Cardinality(R) |-> IF n = 0 THEN S
                ELSE UNION {{x} \cup {e[2] : e \in {y \in R : y[1] = x}} : x \in f[n - 1]}]
    BY Zenon, <1>2
  <1>4. Reach(R, S) = f[Cardinality(R)]
    BY DEF Reach
  <1> HIDE DEF f
  <1>5. f[0] = S /\ \A n \in 1 .. Cardinality(R) : f[n] = Grown(R, f[n - 1])
    <2>1. f = [n \in 0 .. Cardinality(R) |-> IF n = 0 THEN S ELSE Grown(R, f[n - 1])]
      BY Zenon, <1>3 DEF Grown
    <2>2. 0 \in 0 .. Cardinality(R) /\ \A n \in 1 .. Cardinality(R) : n \in 0 .. Cardinality(R) /\ n # 0
      OBVIOUS
    <2> QED
      BY Zenon, <2>1, <2>2
  <1> QED
    BY <1>4, <1>5 DEF Sweeps

LEMMA GrownElements ==
    ASSUME NEW R, NEW X
    PROVE  /\ X \subseteq Grown(R, X)
           /\ \A e \in R : e[1] \in X => e[2] \in Grown(R, X)
           /\ \A x \in Grown(R, X) : x \in X \/ \E e \in R : e[1] \in X /\ x = e[2]
  BY DEF Grown

\* A set that S is part of and that no pair of R leaves holds what S reaches.
LEMMA ReachWithin ==
    ASSUME FiniteSetFacts, NEW R, NEW S, Cardinality(R) \in Nat, NEW C, S \subseteq C,
           \A e \in R : e[1] \in C => e[2] \in C
    PROVE  Reach(R, S) \subseteq C
  <1>a. PICK f : Sweeps(f, R, S)
    BY ReachSteps
  <1>1. /\ Reach(R, S) = f[Cardinality(R)]
        /\ f[0] = S
        /\ \A n \in 1 .. Cardinality(R) : f[n] = Grown(R, f[n - 1])
    BY <1>a DEF Sweeps
  <1> DEFINE T == {n \in Nat : n <= Cardinality(R) => f[n] \subseteq C}
  <1>2. 0 \in T
    BY <1>1
  <1>3. ASSUME NEW n \in Nat, n \in T, n + 1 <= Cardinality(R) PROVE f[n + 1] \subseteq C
    <2>1. n + 1 \in 1 .. Cardinality(R) /\ (n + 1) - 1 = n /\ n <= Cardinality(R)
      BY <1>3
    <2>2. f[n + 1] = Grown(R, f[n])
      BY <1>1, <2>1
    <2>3. f[n] \subseteq C
      BY <1>3, <2>1
    <2> QED
      BY <2>2, <2>3, GrownElements
  <1>4. \A n \in Nat : n \in T
    <2>1. \A n \in Nat : n \in T => n + 1 \in T
      BY <1>3
    <2> HIDE DEF T
    <2> QED
      BY <1>2, <2>1, SetInduction
  <1> QED
    BY <1>1, <1>4

LEMMA ReachContains ==
    ASSUME FiniteSetFacts, NEW R, NEW S, Cardinality(R) \in Nat
    PROVE  S \subseteq Reach(R, S)
  <1>a. PICK f : Sweeps(f, R, S)
    BY ReachSteps
  <1>1. /\ Reach(R, S) = f[Cardinality(R)]
        /\ f[0] = S
        /\ \A n \in 1 .. Cardinality(R) : f[n] = Grown(R, f[n - 1])
    BY <1>a DEF Sweeps
  <1> DEFINE T == {n \in Nat : n <= Cardinality(R) => S \subseteq f[n]}
  <1>2. 0 \in T
    BY <1>1
  <1>3. ASSUME NEW n \in Nat, n \in T, n + 1 <= Cardinality(R) PROVE S \subseteq f[n + 1]
    <2>1. n + 1 \in 1 .. Cardinality(R) /\ (n + 1) - 1 = n /\ n <= Cardinality(R)
      BY <1>3
    <2>2. f[n + 1] = Grown(R, f[n])
      BY <1>1, <2>1
    <2>3. S \subseteq f[n]
      BY <1>3, <2>1
    <2> QED
      BY <2>2, <2>3, GrownElements
  <1>4. \A n \in Nat : n \in T
    <2>1. \A n \in Nat : n \in T => n + 1 \in T
      BY <1>3
    <2> HIDE DEF T
    <2> QED
      BY <1>2, <2>1, SetInduction
  <1> QED
    BY <1>1, <1>4

\* No pair of R leaves the set that is reached: a sweep that adds nothing is the
\* last one, and there are fewer ends of pairs than sweeps.
LEMMA ReachClosed ==
    ASSUME FiniteSetFacts, NEW R, NEW S, IsFiniteSet(R)
    PROVE  \A e \in Reach(R, S) : \A r \in R : r[1] = e => r[2] \in Reach(R, S)
  <1> DEFINE Shut(X) == \A e \in R : e[1] \in X => e[2] \in X
  <1> DEFINE E == {e[2] : e \in R}
  <1>0. Cardinality(R) \in Nat
    BY SizeType
  <1>a. PICK f : Sweeps(f, R, S)
    BY <1>0, ReachSteps
  <1>1. /\ Reach(R, S) = f[Cardinality(R)]
        /\ f[0] = S
        /\ \A n \in 1 .. Cardinality(R) : f[n] = Grown(R, f[n - 1])
    BY <1>a DEF Sweeps
  <1>2. IsFiniteSet(E) /\ Cardinality(E) \in Nat /\ Cardinality(E) <= Cardinality(R)
    <2>1. PICK g : g = [e \in R |-> e[2]]
      BY Zenon
    <2>2. g \in [R -> E] /\ \A y \in E : \E x \in R : g[x] = y
      BY <2>1
    <2> QED
      BY Zenon, <2>2, SizeSurjection, SizeType
  <1> DEFINE P(n) == Shut(f[n]) \/ (f[n] \ S \subseteq E /\ n <= Cardinality(f[n] \ S))
  <1> DEFINE T == {n \in Nat : n <= Cardinality(R) => P(n)}
  <1>3. 0 \in T
    <2>1. f[0] \ S = {} /\ Cardinality({}) = 0
      BY <1>1, SizeEmpty
    <2> QED
      BY <2>1
  <1>4. ASSUME NEW n \in Nat, n \in T, n + 1 <= Cardinality(R)
        PROVE  P(n + 1)
    <2>1. n + 1 \in 1 .. Cardinality(R) /\ (n + 1) - 1 = n /\ n <= Cardinality(R)
      BY <1>0, <1>4
    <2>2. f[n + 1] = Grown(R, f[n])
      BY <1>1, <2>1
    <2>3. CASE Shut(f[n])
      <3>1. f[n] \subseteq f[n + 1] /\ f[n + 1] \subseteq f[n]
        BY <2>2, <2>3, GrownElements
      <3> QED
        BY <2>3, <3>1
    <2>4. CASE ~Shut(f[n])
      <3>1. f[n] \ S \subseteq E /\ n <= Cardinality(f[n] \ S)
        BY <1>4, <2>1, <2>4
      <3>2. PICK e \in R : e[1] \in f[n] /\ e[2] \notin f[n]
        BY <2>4
      <3>3. f[n] \subseteq f[n + 1] /\ e[2] \in f[n + 1] /\ f[n + 1] \ S \subseteq E
        BY <2>2, <3>1, <3>2, GrownElements
      <3>4. IsFiniteSet(f[n + 1] \ S) /\ IsFiniteSet(f[n] \ S)
        BY <1>2, <3>1, <3>3, SizeSubset
      <3>5. e[2] \notin S
        <4>1. S \subseteq f[n]
          <5> DEFINE U == {k \in Nat : k <= Cardinality(R) => S \subseteq f[k]}
          <5>1. 0 \in U
            BY <1>1
          <5>2. ASSUME NEW k \in Nat, k \in U, k + 1 <= Cardinality(R) PROVE S \subseteq f[k + 1]
            <6>1. k + 1 \in 1 .. Cardinality(R) /\ (k + 1) - 1 = k /\ k <= Cardinality(R)
              BY <1>0, <5>2
            <6>2. f[k + 1] = Grown(R, f[k]) /\ S \subseteq f[k]
              BY <1>1, <5>2, <6>1
            <6> QED
              BY <6>2, GrownElements
          <5>3. \A k \in Nat : k \in U => k + 1 \in U
            BY <5>2
          <5>4. \A k \in Nat : k \in U
            <6> HIDE DEF U
            <6> QED
              BY <5>1, <5>3, SetInduction
          <5> QED
            BY <2>1, <5>4
        <4> QED
          BY <3>2, <4>1
      <3>6. PICK A, B : A = f[n] \ S /\ B = f[n + 1] \ S
        BY Zenon
      <3>7. A \subseteq B /\ A # B
        BY <3>2, <3>3, <3>5, <3>6
      <3>8. Cardinality(A) < Cardinality(B) /\ Cardinality(A) \in Nat /\ Cardinality(B) \in Nat
        BY <3>4, <3>6, <3>7, SizeSubset, SizeType
      <3> QED
        BY <3>1, <3>3, <3>6, <3>8
    <2> QED
      BY <2>3, <2>4
  <1>5. \A n \in Nat : n \in T
    <2> HIDE DEF P
    <2>1. \A n \in Nat : n \in T => n + 1 \in T
      BY <1>4
    <2> HIDE DEF T
    <2> QED
      BY <1>3, <2>1, SetInduction
  <1>6. PICK X : X = Reach(R, S)
    OBVIOUS
  <1>7. Shut(X) \/ (X \ S \subseteq E /\ Cardinality(R) <= Cardinality(X \ S))
    <2>1. Cardinality(R) \in T /\ Cardinality(R) <= Cardinality(R)
      BY <1>0, <1>5
    <2>2. P(Cardinality(R))
      <3> HIDE DEF P
      <3> QED
        BY Zenon, <2>1
    <2> QED
      BY Zenon, <1>1, <1>6, <2>2
  <1>8. ASSUME ~Shut(X) PROVE FALSE
    <2>1. X \ S \subseteq E /\ Cardinality(R) <= Cardinality(X \ S) /\ S \subseteq X
      BY <1>0, <1>6, <1>7, <1>8, ReachContains
    <2>2. PICK e \in R : e[1] \in X /\ e[2] \notin X
      BY <1>8
    <2>3. PICK A : A = X \ S
      BY Zenon
    <2>4. A \subseteq E /\ e[2] \in E /\ e[2] \notin A /\ A # E
      BY <2>1, <2>2, <2>3
    <2>5. Cardinality(A) < Cardinality(E) /\ Cardinality(A) \in Nat
      BY <1>2, <2>4, SizeSubset, SizeType
    <2> QED
      BY <1>0, <1>2, <2>1, <2>3, <2>5
  <1> QED
    BY <1>6, <1>8

-----------------------------------------------------------------------------
(* What the jobs of a list merge into.                                     *)

MergeStep(t, x, s) == IF t = NoMerge THEN NoMerge ELSE job_type_merge_and_collapse(t, x, s)

Merging(f, list, s, N) ==
    f = [i \in 1 .. N |-> IF i = 1 THEN list[1] ELSE MergeStep(f[i - 1], list[i], s)]

LEMMA MergingExists ==
    ASSUME FiniteSetFacts, NEW list, NEW s, NEW N \in Nat
    PROVE  \E f : Merging(f, list, s, N)
  <1> DEFINE T == {n \in Nat : \E f : Merging(f, list, s, n)}
  <1>1. 0 \in T
    <2>1. PICK f : f = [i \in 1 .. 0 |-> list[1]]
      OBVIOUS
    <2>2. Merging(f, list, s, 0)
      BY <2>1 DEF Merging
    <2> QED
      BY <2>2
  <1>2. ASSUME NEW n \in Nat, n \in T PROVE n + 1 \in T
    <2>1. PICK f : f = [i \in 1 .. n |-> IF i = 1 THEN list[1] ELSE MergeStep(f[i - 1], list[i], s)]
      BY <1>2 DEF Merging
    <2>2. PICK h : h = [i \in 1 .. n + 1 |-> IF i = n + 1
                                             THEN IF i = 1 THEN list[1] ELSE MergeStep(f[n], list[i], s)
                                             ELSE f[i]]
      BY Zenon
    <2>3. ASSUME NEW i \in 1 .. n + 1
          PROVE  h[i] = IF i = 1 THEN list[1] ELSE MergeStep(h[i - 1], list[i], s)
      <3>1. CASE i = n + 1 /\ i = 1
        BY <2>2, <3>1
      <3>2. CASE i = n + 1 /\ i # 1
        <4>1. n \in 1 .. n + 1 /\ n # n + 1 /\ i - 1 = n
          BY <3>2
        <4>2. h[n] = f[n]
          BY <2>2, <4>1
        <4> QED
          BY <2>2, <3>2, <4>1, <4>2
      <3>3. CASE i # n + 1 /\ i = 1
        <4>1. i \in 1 .. n
          BY <3>3
        <4> QED
          BY <2>1, <2>2, <3>3, <4>1
      <3>4. CASE i # n + 1 /\ i # 1
        <4>1. i \in 1 .. n /\ i - 1 \in 1 .. n /\ i - 1 # n + 1 /\ i - 1 \in 1 .. n + 1
          BY <3>4
        <4>2. h[i] = f[i] /\ h[i - 1] = f[i - 1]
          BY <2>2, <3>4, <4>1
        <4>3. f[i] = MergeStep(f[i - 1], list[i], s)
          BY <2>1, <3>4, <4>1
        <4> QED
          BY <3>4, <4>2, <4>3
      <3> QED
        BY <3>1, <3>2, <3>3, <3>4
    <2>4. Merging(h, list, s, n + 1)
      BY <2>2, <2>3 DEF Merging
    <2> QED
      BY <2>4
  <1>3. \A n \in Nat : n \in T
    <2> HIDE DEF T
    <2> QED
      BY <1>1, <1>2, SetInduction
  <1> QED
    BY <1>3

\* The merges of MergedType, one after the other.
Merges(f, list, s) ==
    /\ MergedType(list, s) = f[Len(list)]
    /\ f[1] = list[1]
    /\ \A i \in 2 .. Len(list) : f[i] = MergeStep(f[i - 1], list[i], s)

LEMMA MergeSteps ==
    ASSUME FiniteSetFacts, NEW list, NEW s, Len(list) \in Nat \ {0}
    PROVE  \E f : Merges(f, list, s)
  <1>1. \E g : Merging(g, list, s, Len(list))
    BY MergingExists
  <1>2. \E g : g = [i \in 1 .. Len(list) |->
                      IF i = 1 THEN list[1]
                      ELSE LET t == g[i - 1] IN
                           IF t = NoMerge THEN NoMerge ELSE job_type_merge_and_collapse(t, list[i], s)]
    BY Zenon, <1>1 DEF Merging, MergeStep
  <1> DEFINE f[i \in 1 .. Len(list)] ==
                      IF i = 1 THEN list[1]
                      ELSE LET t == f[i - 1] IN
                           IF t = NoMerge THEN NoMerge ELSE job_type_merge_and_collapse(t, list[i], s)
  <1>3. f = [i \in 1 .. Len(list) |->
                      IF i = 1 THEN list[1]
                      ELSE LET t == f[i - 1] IN
                           IF t = NoMerge THEN NoMerge ELSE job_type_merge_and_collapse(t, list[i], s)]
    BY Zenon, <1>2
  <1>4. MergedType(list, s) = f[Len(list)]
    BY DEF MergedType
  <1> HIDE DEF f
  <1>5. f = [i \in 1 .. Len(list) |-> IF i = 1 THEN list[1] ELSE MergeStep(f[i - 1], list[i], s)]
    BY Zenon, <1>3 DEF MergeStep
  <1>6. 1 \in 1 .. Len(list) /\ \A i \in 2 .. Len(list) : i \in 1 .. Len(list) /\ i # 1
    OBVIOUS
  <1>7. f[1] = list[1] /\ \A i \in 2 .. Len(list) : f[i] = MergeStep(f[i - 1], list[i], s)
    BY Zenon, <1>5, <1>6
  <1> QED
    BY <1>4, <1>7 DEF Merges

\* Types that are merged into types of the same set stay in it.
LEMMA MergedWithin ==
    ASSUME FiniteSetFacts, NEW list, NEW s, Len(list) \in Nat \ {0}, NEW K,
           \A i \in 1 .. Len(list) : list[i] \in K,
           \A a, b \in K : job_type_merge_and_collapse(a, b, s) \in K \cup {NoMerge}
    PROVE  MergedType(list, s) \in K \cup {NoMerge}
  <1>1. PICK f : Merges(f, list, s)
    BY Zenon, MergeSteps
  <1>2. /\ MergedType(list, s) = f[Len(list)]
        /\ f[1] = list[1]
        /\ \A i \in 2 .. Len(list) : f[i] = MergeStep(f[i - 1], list[i], s)
    BY <1>1 DEF Merges
  <1> DEFINE T == {n \in Nat : n + 1 <= Len(list) => f[n + 1] \in K \cup {NoMerge}}
  <1>3. 0 \in T
    BY <1>2
  <1>4. ASSUME NEW n \in Nat, n \in T, (n + 1) + 1 <= Len(list)
        PROVE  f[(n + 1) + 1] \in K \cup {NoMerge}
    <2>1. /\ (n + 1) + 1 \in 2 .. Len(list) /\ ((n + 1) + 1) - 1 = n + 1 /\ n + 1 <= Len(list)
          /\ (n + 1) + 1 \in 1 .. Len(list)
      BY <1>4
    <2>2. f[(n + 1) + 1] = MergeStep(f[n + 1], list[(n + 1) + 1], s)
      BY <1>2, <2>1
    <2>3. f[n + 1] \in K \cup {NoMerge} /\ list[(n + 1) + 1] \in K
      BY <1>4, <2>1
    <2> QED
      BY <2>2, <2>3 DEF MergeStep
  <1>5. \A n \in Nat : n \in T
    <2>1. \A n \in Nat : n \in T => n + 1 \in T
      BY <1>4
    <2> HIDE DEF T
    <2> QED
      BY <1>3, <2>1, SetInduction
  <1>6. Len(list) - 1 \in Nat /\ (Len(list) - 1) + 1 = Len(list)
    OBVIOUS
  <1>7. Len(list) - 1 \in T
    BY Zenon, <1>5, <1>6
  <1> QED
    BY <1>2, <1>6, <1>7

-----------------------------------------------------------------------------
(* Taking jobs out of a transaction.                                       *)

Selecting(f, s, K, N) ==
    f = [i \in 0 .. N |-> IF i = 0 THEN <<>>
                          ELSE f[i - 1] \o (IF s[i] \in K THEN <<s[i]>> ELSE <<>>)]

LEMMA SelectingExists ==
    ASSUME FiniteSetFacts, NEW s, NEW K, NEW N \in Nat
    PROVE  \E f : Selecting(f, s, K, N)
  <1> DEFINE T == {n \in Nat : \E f : Selecting(f, s, K, n)}
  <1> DEFINE More(x, i) == x \o (IF s[i] \in K THEN <<s[i]>> ELSE <<>>)
  <1>1. 0 \in T
    <2>1. PICK f : f = [i \in 0 .. 0 |-> <<>>]
      BY Zenon
    <2>2. Selecting(f, s, K, 0)
      BY <2>1 DEF Selecting
    <2> QED
      BY <2>2
  <1>2. ASSUME NEW n \in Nat, n \in T PROVE n + 1 \in T
    <2>1. PICK f : f = [i \in 0 .. n |-> IF i = 0 THEN <<>> ELSE More(f[i - 1], i)]
      BY Zenon, <1>2 DEF Selecting
    <2>2. PICK h : h = [i \in 0 .. n + 1 |-> IF i = n + 1 THEN More(f[n], i) ELSE f[i]]
      BY Zenon
    <2>3. ASSUME NEW i \in 0 .. n + 1
          PROVE  h[i] = IF i = 0 THEN <<>> ELSE More(h[i - 1], i)
      <3> HIDE DEF More
      <3>1. CASE i = 0
        BY <2>1, <2>2, <3>1
      <3>2. CASE i = n + 1
        <4>1. h[n] = f[n] /\ n \in 0 .. n + 1 /\ i - 1 = n /\ i # 0
          BY <2>2, <3>2
        <4> QED
          BY <2>2, <3>2, <4>1
      <3>3. CASE i # 0 /\ i # n + 1
        <4>1. i \in 0 .. n /\ i - 1 \in 0 .. n /\ i - 1 # n + 1 /\ i - 1 \in 0 .. n + 1
          BY <3>3
        <4>2. h[i] = f[i] /\ h[i - 1] = f[i - 1]
          BY <2>2, <3>3, <4>1
        <4>3. f[i] = More(f[i - 1], i)
          BY Zenon, <2>1, <3>3, <4>1
        <4> QED
          BY <3>3, <4>2, <4>3
      <3> QED
        BY <3>1, <3>2, <3>3
    <2>4. h = [i \in 0 .. n + 1 |-> IF i = 0 THEN <<>> ELSE More(h[i - 1], i)]
      <3> HIDE DEF More
      <3> QED
        BY <2>2, <2>3
    <2>5. Selecting(h, s, K, n + 1)
      BY Zenon, <2>4 DEF Selecting
    <2> QED
      BY <2>5
  <1>3. \A n \in Nat : n \in T
    <2> HIDE DEF T
    <2> QED
      BY <1>1, <1>2, SetInduction
  <1> QED
    BY <1>3

\* The steps of Selected, one after the other.
Selects(f, s, K) ==
    /\ Selected(s, K) = f[Len(s)]
    /\ f[0] = <<>>
    /\ \A i \in 1 .. Len(s) : f[i] = f[i - 1] \o (IF s[i] \in K THEN <<s[i]>> ELSE <<>>)

LEMMA SelectSteps ==
    ASSUME FiniteSetFacts, NEW s, NEW K, Len(s) \in Nat
    PROVE  \E f : Selects(f, s, K)
  <1>1. \E g : Selecting(g, s, K, Len(s))
    BY SelectingExists
  <1>2. \E g : g = [i \in 0 .. Len(s) |-> IF i = 0 THEN <<>>
                      ELSE g[i - 1] \o (IF s[i] \in K THEN <<s[i]>> ELSE <<>>)]
    BY Zenon, <1>1 DEF Selecting
  <1> DEFINE f[i \in 0 .. Len(s)] ==
                      IF i = 0 THEN <<>>
                      ELSE f[i - 1] \o (IF s[i] \in K THEN <<s[i]>> ELSE <<>>)
  <1>3. f = [i \in 0 .. Len(s) |-> IF i = 0 THEN <<>>
                      ELSE f[i - 1] \o (IF s[i] \in K THEN <<s[i]>> ELSE <<>>)]
    BY Zenon, <1>2
  <1>4. Selected(s, K) = f[Len(s)]
    BY DEF Selected
  <1> HIDE DEF f
  <1>5. 0 \in 0 .. Len(s) /\ \A i \in 1 .. Len(s) : i \in 0 .. Len(s) /\ i # 0
    OBVIOUS
  <1>6. f[0] = <<>> /\ \A i \in 1 .. Len(s) : f[i] = f[i - 1] \o (IF s[i] \in K THEN <<s[i]>> ELSE <<>>)
    BY Zenon, <1>3, <1>5
  <1> QED
    BY Zenon, <1>4, <1>6 DEF Selects

\* x holds the elements of the first n of s that are in K, and no others.
Selection(x, s, n, K, A) ==
    /\ x \in Seq(A) /\ Len(x) <= n
    /\ \A i \in 1 .. Len(x) : \E k \in 1 .. n : s[k] \in K /\ x[i] = s[k]
    /\ \A k \in 1 .. n : s[k] \in K => \E i \in 1 .. Len(x) : x[i] = s[k]

LEMMA SelectionSkips ==
    ASSUME NEW A, NEW s, NEW K, NEW n \in Nat, NEW x, Selection(x, s, n, K, A), s[n + 1] \notin K
    PROVE  Selection(x, s, n + 1, K, A)
  <1>1. /\ x \in Seq(A) /\ Len(x) <= n /\ Len(x) \in Nat
        /\ \A i \in 1 .. Len(x) : \E k \in 1 .. n : s[k] \in K /\ x[i] = s[k]
        /\ \A k \in 1 .. n : s[k] \in K => \E i \in 1 .. Len(x) : x[i] = s[k]
    BY DEF Selection
  <1>2. ASSUME NEW i \in 1 .. Len(x) PROVE \E k \in 1 .. n + 1 : s[k] \in K /\ x[i] = s[k]
    <2>1. PICK k \in 1 .. n : s[k] \in K /\ x[i] = s[k]
      BY <1>1
    <2> QED
      BY <2>1
  <1>3. ASSUME NEW k \in 1 .. n + 1, s[k] \in K PROVE \E i \in 1 .. Len(x) : x[i] = s[k]
    <2>1. k # n + 1
      BY <1>3
    <2>2. k \in 1 .. n
      BY <2>1
    <2> QED
      BY <1>1, <1>3, <2>2
  <1>4. Len(x) <= n + 1
    BY <1>1
  <1> QED
    BY <1>1, <1>2, <1>3, <1>4 DEF Selection

LEMMA SelectionTakes ==
    ASSUME NEW A, NEW s, NEW K, NEW n \in Nat, NEW x, Selection(x, s, n, K, A),
           s[n + 1] \in K, s[n + 1] \in A
    PROVE  Selection(x \o <<s[n + 1]>>, s, n + 1, K, A)
  <1>1. /\ x \in Seq(A) /\ Len(x) <= n /\ Len(x) \in Nat
        /\ \A i \in 1 .. Len(x) : \E k \in 1 .. n : s[k] \in K /\ x[i] = s[k]
        /\ \A k \in 1 .. n : s[k] \in K => \E i \in 1 .. Len(x) : x[i] = s[k]
    BY DEF Selection
  <1>2. PICK z : z = s[n + 1]
    OBVIOUS
  <1>3. PICK y : y = x \o <<z>>
    BY Zenon
  <1>4. /\ y \in Seq(A) /\ Len(y) = Len(x) + 1 /\ y[Len(x) + 1] = z
        /\ \A i \in 1 .. Len(x) : y[i] = x[i]
    BY <1>1, <1>2, <1>3
  <1>5. ASSUME NEW i \in 1 .. Len(y) PROVE \E k \in 1 .. n + 1 : s[k] \in K /\ y[i] = s[k]
    <2>1. CASE i = Len(x) + 1
      <3>1. n + 1 \in 1 .. n + 1 /\ y[i] = s[n + 1]
        BY <1>2, <1>4, <2>1
      <3> QED
        BY <3>1
    <2>2. CASE i # Len(x) + 1
      <3>1. i \in 1 .. Len(x) /\ y[i] = x[i]
        BY <1>1, <1>4, <2>2
      <3>2. PICK k \in 1 .. n : s[k] \in K /\ x[i] = s[k]
        BY <1>1, <3>1
      <3> QED
        BY <3>1, <3>2
    <2> QED
      BY <2>1, <2>2
  <1>6. ASSUME NEW k \in 1 .. n + 1, s[k] \in K PROVE \E i \in 1 .. Len(y) : y[i] = s[k]
    <2>1. CASE k = n + 1
      <3>1. Len(x) + 1 \in 1 .. Len(y) /\ y[Len(x) + 1] = s[k]
        BY <1>1, <1>2, <1>4, <2>1
      <3> QED
        BY <3>1
    <2>2. CASE k # n + 1
      <3>1. k \in 1 .. n
        BY <2>2
      <3>2. PICK i \in 1 .. Len(x) : x[i] = s[k]
        BY <1>1, <1>6, <3>1
      <3>3. i \in 1 .. Len(y) /\ y[i] = s[k]
        BY <1>1, <1>4, <3>2
      <3> QED
        BY <3>3
    <2> QED
      BY <2>1, <2>2
  <1>7. Len(y) <= n + 1
    BY <1>1, <1>4
  <1>8. Selection(y, s, n + 1, K, A)
    BY <1>4, <1>5, <1>6, <1>7 DEF Selection
  <1> QED
    BY <1>2, <1>3, <1>8

LEMMA SelectedIs ==
    ASSUME FiniteSetFacts, NEW A, NEW s \in Seq(A), NEW K
    PROVE  /\ Selected(s, K) \in Seq(A)
           /\ InList(Selected(s, K)) = InList(s) \cap K
           /\ Len(Selected(s, K)) <= Len(s)
  <1>0. Len(s) \in Nat
    OBVIOUS
  <1>a. PICK f : Selects(f, s, K)
    BY Zenon, <1>0, SelectSteps
  <1>1. /\ Selected(s, K) = f[Len(s)]
        /\ f[0] = <<>>
        /\ \A i \in 1 .. Len(s) : f[i] = f[i - 1] \o (IF s[i] \in K THEN <<s[i]>> ELSE <<>>)
    BY Zenon, <1>a DEF Selects
  <1> DEFINE T == {n \in Nat : n <= Len(s) => Selection(f[n], s, n, K, A)}
  <1>2. 0 \in T
    <2>0. << >> \in Seq(A) /\ Len(<< >>) = 0
      OBVIOUS
    <2>1. PICK x : x = << >> /\ x \in Seq(A) /\ Len(x) = 0
      BY Zenon, <2>0
    <2>2. Selection(x, s, 0, K, A)
      BY <2>1 DEF Selection
    <2> QED
      BY <1>1, <2>1, <2>2
  <1>3. ASSUME NEW n \in Nat, n \in T, n + 1 <= Len(s) PROVE Selection(f[n + 1], s, n + 1, K, A)
    <2>1. n + 1 \in 1 .. Len(s) /\ (n + 1) - 1 = n /\ n <= Len(s) /\ s[n + 1] \in A
      BY <1>0, <1>3
    <2>2. f[n + 1] = f[n] \o (IF s[n + 1] \in K THEN <<s[n + 1]>> ELSE <<>>)
      BY Zenon, <1>1, <2>1
    <2>3. Selection(f[n], s, n, K, A)
      BY <1>3, <2>1
    <2>4. CASE s[n + 1] \notin K
      <3>1. f[n] \in Seq(A)
        BY <2>3 DEF Selection
      <3>2. f[n + 1] = f[n]
        BY <2>2, <2>4, <3>1
      <3> QED
        BY <2>3, <2>4, <3>2, SelectionSkips
    <2>5. CASE s[n + 1] \in K
      BY <2>1, <2>2, <2>3, <2>5, SelectionTakes
    <2> QED
      BY <2>4, <2>5
  <1>4. \A n \in Nat : n \in T
    <2>1. \A n \in Nat : n \in T => n + 1 \in T
      BY <1>3
    <2> HIDE DEF T
    <2> QED
      BY <1>2, <2>1, SetInduction
  <1>5. Selection(f[Len(s)], s, Len(s), K, A)
    BY <1>0, <1>4
  <1>6. PICK x : x = Selected(s, K)
    OBVIOUS
  <1>7. /\ x \in Seq(A) /\ Len(x) <= Len(s)
        /\ \A i \in 1 .. Len(x) : \E k \in 1 .. Len(s) : s[k] \in K /\ x[i] = s[k]
        /\ \A k \in 1 .. Len(s) : s[k] \in K => \E i \in 1 .. Len(x) : x[i] = s[k]
    BY <1>1, <1>5, <1>6 DEF Selection
  <1>8. DOMAIN x = 1 .. Len(x) /\ DOMAIN s = 1 .. Len(s)
    BY <1>7
  <1>9. ASSUME NEW y PROVE y \in InList(x) <=> y \in InList(s) \cap K
    <2>1. ASSUME y \in InList(x) PROVE y \in InList(s) \cap K
      <3>1. PICK i \in DOMAIN x : y = x[i]
        BY <2>1 DEF InList
      <3>2. PICK k \in 1 .. Len(s) : s[k] \in K /\ x[i] = s[k]
        BY <1>7, <1>8
      <3> QED
        BY <1>8, <3>1, <3>2 DEF InList
    <2>2. ASSUME y \in InList(s) \cap K PROVE y \in InList(x)
      <3>1. PICK k \in DOMAIN s : y = s[k]
        BY <2>2 DEF InList
      <3>2. PICK i \in 1 .. Len(x) : x[i] = s[k]
        BY <1>7, <1>8, <2>2, <3>1
      <3> QED
        BY <1>8, <3>1, <3>2 DEF InList
    <2> QED
      BY <2>1, <2>2
  <1>10. InList(x) = InList(s) \cap K
    BY <1>9
  <1> QED
    BY <1>6, <1>7, <1>10

-----------------------------------------------------------------------------
(* The operations on a transaction.                                        *)

WellFormed(t) ==
    /\ t \in Tr
    /\ IsFiniteSet(t.links)
    /\ \A l \in t.links : l.subject \in JobsOf(t) /\ l.object \in JobsOf(t)
    /\ t.matter \subseteq JobsOf(t)

ClosedMarks(t) ==
    \A l \in t.links : l.matters /\ l.subject \in t.matter => l.object \in t.matter

LEMMA JobsOfIs ==
    ASSUME NEW t \in Tr, NEW j \in TJob
    PROVE  j \in JobsOf(t) <=> \E i \in 1 .. Len(t.jobs[j[1]]) : t.jobs[j[1]][i] = j[2]
  <1>1. t.jobs[j[1]] \in Seq(TransactionType)
    BY DEF Tr, TJob
  <1>2. PICK s : s = t.jobs[j[1]]
    OBVIOUS
  <1>3. DOMAIN s = 1 .. Len(s)
    BY <1>1, <1>2
  <1>4. j \in JobsOf(t) <=> j[2] \in InList(s)
    BY <1>2 DEF JobsOf
  <1>5. j[2] \in InList(s) <=> \E i \in 1 .. Len(s) : s[i] = j[2]
    BY Zenon, <1>3 DEF InList
  <1> QED
    BY <1>2, <1>4, <1>5

LEMMA WithoutJobs ==
    ASSUME FiniteSetFacts, NEW t \in Tr, NEW S
    PROVE  /\ Without(t, S) \in Tr
           /\ JobsOf(Without(t, S)) = JobsOf(t) \ S
           /\ \A u \in Unit : Len(Without(t, S).jobs[u]) <= Len(t.jobs[u])
           /\ Without(t, S).links = {l \in t.links : l.subject \notin S /\ l.object \notin S}
           /\ Without(t, S).matter = t.matter \ S
  <1>1. PICK w : w = Without(t, S)
    OBVIOUS
  <1> DEFINE K(u) == {x \in TransactionType : <<u, x>> \notin S}
  <1>2. /\ w = [jobs |-> [u \in Unit |-> Selected(t.jobs[u], K(u))],
                links |-> {l \in t.links : l.subject \notin S /\ l.object \notin S},
                matter |-> t.matter \ S]
    BY <1>1 DEF Without
  <1>3. /\ w.links = {l \in t.links : l.subject \notin S /\ l.object \notin S}
        /\ w.matter = t.matter \ S
        /\ w.jobs = [u \in Unit |-> Selected(t.jobs[u], K(u))]
    BY <1>2
  <1>4. /\ t.jobs \in [Unit -> Seq(TransactionType)] /\ t.links \subseteq Link
        /\ t.matter \subseteq TJob
    BY DEF Tr
  <1>5. ASSUME NEW u \in Unit
        PROVE  /\ w.jobs[u] \in Seq(TransactionType)
               /\ InList(w.jobs[u]) = InList(t.jobs[u]) \cap K(u)
               /\ Len(w.jobs[u]) <= Len(t.jobs[u])
    <2>1. t.jobs[u] \in Seq(TransactionType)
      BY <1>4
    <2>2. w.jobs[u] = Selected(t.jobs[u], K(u))
      BY <1>3
    <2> QED
      BY <2>1, <2>2, SelectedIs
  <1>6. w \in Tr
    <2>1. w.jobs \in [Unit -> Seq(TransactionType)]
      BY Zenon, <1>3, <1>5
    <2>2. w.links \subseteq Link /\ w.matter \subseteq TJob
      BY <1>3, <1>4
    <2>3. w = [jobs |-> w.jobs, links |-> w.links, matter |-> w.matter]
      BY <1>2
    <2> QED
      BY <2>1, <2>2, <2>3 DEF Tr
  <1>7. ASSUME NEW j \in TJob PROVE j \in JobsOf(w) <=> j \in JobsOf(t) \ S
    <2>1. j[1] \in Unit /\ j[2] \in TransactionType /\ j = <<j[1], j[2]>>
      BY DEF TJob
    <2>2. j[2] \in InList(w.jobs[j[1]]) <=> j[2] \in InList(t.jobs[j[1]]) /\ j \notin S
      <3>1. j[2] \in K(j[1]) <=> j \notin S
        BY <2>1
      <3> QED
        BY <1>5, <2>1, <3>1
    <2> QED
      BY <2>2 DEF JobsOf
  <1>8. JobsOf(w) \subseteq TJob /\ JobsOf(t) \subseteq TJob
    BY DEF JobsOf
  <1>9. JobsOf(w) = JobsOf(t) \ S
    BY <1>7, <1>8
  <1> QED
    BY Zenon, <1>1, <1>3, <1>5, <1>6, <1>9

LEMMA WithoutWellFormed ==
    ASSUME FiniteSetFacts, NEW t, WellFormed(t), NEW S
    PROVE  /\ WellFormed(Without(t, S))
           /\ ClosedMarks(t) => ClosedMarks(Without(t, S))
  <1>1. PICK w : w = Without(t, S)
    OBVIOUS
  <1>2. /\ w \in Tr /\ JobsOf(w) = JobsOf(t) \ S
        /\ w.links = {l \in t.links : l.subject \notin S /\ l.object \notin S}
        /\ w.matter = t.matter \ S
    BY <1>1, WithoutJobs DEF WellFormed
  <1>3. IsFiniteSet(w.links)
    BY <1>2, SizeSubset DEF WellFormed
  <1>4. WellFormed(w)
    BY <1>2, <1>3 DEF WellFormed
  <1>5. ClosedMarks(t) => ClosedMarks(w)
    BY <1>2 DEF ClosedMarks
  <1> QED
    BY <1>1, <1>4, <1>5

LEMMA FiniteImage ==
    ASSUME FiniteSetFacts, NEW S, IsFiniteSet(S), NEW f, NEW T, T = {f[x] : x \in S}
    PROVE  IsFiniteSet(T)
  <1>1. PICK g : g = [x \in S |-> f[x]]
    BY Zenon
  <1>2. g \in [S -> T] /\ \A y \in T : \E x \in S : g[x] = y
    BY <1>1
  <1> QED
    BY Zenon, <1>2, SizeSurjection

LEMMA FiniteRelation ==
    ASSUME FiniteSetFacts, NEW L, IsFiniteSet(L)
    PROVE  /\ IsFiniteSet({<<l.object, l.subject>> : l \in {x \in L : x.matters}})
           /\ IsFiniteSet({<<l.subject, l.object>> : l \in {x \in L : x.matters}})
  <1>1. PICK M : M = {x \in L : x.matters}
    BY Zenon
  <1>2. IsFiniteSet(M)
    BY <1>1, SizeSubset
  <1>3. PICK f : f = [l \in M |-> <<l.object, l.subject>>]
    BY Zenon
  <1>4. {<<l.object, l.subject>> : l \in M} = {f[x] : x \in M}
    BY <1>3
  <1>5. IsFiniteSet({<<l.object, l.subject>> : l \in M})
    BY <1>2, <1>4, FiniteImage
  <1>6. PICK g : g = [l \in M |-> <<l.subject, l.object>>]
    BY Zenon
  <1>7. {<<l.subject, l.object>> : l \in M} = {g[x] : x \in M}
    BY <1>6
  <1>8. IsFiniteSet({<<l.subject, l.object>> : l \in M})
    BY <1>2, <1>7, FiniteImage
  <1> QED
    BY <1>1, <1>5, <1>8

\* With a job, all that has a link to it that matters is in X.
Upward(t, X) == \A l \in t.links : l.matters /\ l.object \in X => l.subject \in X

\* Deleting the jobs of S deletes those of X.
Deletes(t, S, X) ==
    DeleteWithDependents(t, S) = Without(t, X) /\ S \subseteq X /\ Upward(t, X)

\* What transaction_delete_job() takes with it: all that can not do without a
\* job that goes, and nothing outside a set C that needs nothing inside it.
LEMMA DeletedIs ==
    ASSUME FiniteSetFacts, NEW t, WellFormed(t), NEW S, NEW C, S \subseteq C, Upward(t, C)
    PROVE  \E X : Deletes(t, S, X) /\ X \subseteq C
  <1> DEFINE R == {<<l.object, l.subject>> : l \in {x \in t.links : x.matters}}
  <1>1. IsFiniteSet(R)
    BY Zenon, FiniteRelation DEF WellFormed
  <1>2. Cardinality(R) \in Nat
    BY <1>1, SizeType
  <1>3. \A e \in R : e[1] \in C => e[2] \in C
    BY DEF Upward
  <1>4. \A l \in t.links : l.matters => <<l.object, l.subject>> \in R
    OBVIOUS
  <1>5. DeleteWithDependents(t, S) = Without(t, Reach(R, S))
    BY DEF DeleteWithDependents
  <1> HIDE DEF R
  <1>6. Reach(R, S) \subseteq C
    BY <1>2, <1>3, ReachWithin
  <1>7. S \subseteq Reach(R, S)
    BY <1>2, ReachContains
  <1>8. \A e \in R : e[1] \in Reach(R, S) => e[2] \in Reach(R, S)
    BY <1>1, ReachClosed
  <1>9. PICK X : X = Reach(R, S)
    OBVIOUS
  <1>10. Upward(t, X)
    BY Zenon, <1>4, <1>8, <1>9 DEF Upward
  <1>11. Deletes(t, S, X)
    BY <1>5, <1>7, <1>9, <1>10 DEF Deletes
  <1> QED
    BY <1>6, <1>9, <1>11

-----------------------------------------------------------------------------
(* What a job pulls in.                                                    *)

GroupRecord == [units : SUBSET Unit, type : JobType, matters : BOOLEAN, conflicts : BOOLEAN,
                strict : BOOLEAN]

LEMMA Concatenation ==
    ASSUME NEW A, NEW x \in Seq(A), NEW y \in Seq(A)
    PROVE  /\ x \o y \in Seq(A)
           /\ InList(x) \subseteq InList(x \o y)
           /\ InList(y) \subseteq InList(x \o y)
  <1>1. PICK z : z = x \o y
    BY Zenon
  <1>2. /\ z \in Seq(A) /\ Len(z) = Len(x) + Len(y)
        /\ \A i \in 1 .. Len(x) : z[i] = x[i]
        /\ \A i \in 1 .. Len(y) : z[Len(x) + i] = y[i]
    BY <1>1
  <1>3. /\ DOMAIN x = 1 .. Len(x) /\ DOMAIN y = 1 .. Len(y) /\ DOMAIN z = 1 .. Len(z)
        /\ Len(x) \in Nat /\ Len(y) \in Nat
    BY <1>2
  <1>4. ASSUME NEW v \in InList(x) PROVE v \in InList(z)
    <2>1. PICK i \in DOMAIN x : v = x[i]
      BY DEF InList
    <2>2. i \in DOMAIN z /\ v = z[i]
      BY <1>2, <1>3, <2>1
    <2> QED
      BY <2>2 DEF InList
  <1>5. ASSUME NEW v \in InList(y) PROVE v \in InList(z)
    <2>1. PICK i \in DOMAIN y : v = y[i]
      BY DEF InList
    <2>2. Len(x) + i \in DOMAIN z /\ v = z[Len(x) + i]
      BY <1>2, <1>3, <2>1
    <2> QED
      BY <2>2 DEF InList
  <1> QED
    BY <1>1, <1>2, <1>4, <1>5

LEMMA GroupIs ==
    ASSUME NEW S, NEW t, NEW m, NEW c, NEW strict, NEW A,
           S # {} => [units |-> S, type |-> t, matters |-> m, conflicts |-> c, strict |-> strict] \in A
    PROVE  /\ Group(S, t, m, c, strict) \in Seq(A)
           /\ S # {} => [units |-> S, type |-> t, matters |-> m, conflicts |-> c, strict |-> strict]
                            \in InList(Group(S, t, m, c, strict))
  <1>1. CASE S = {}
    <2>1. Group(S, t, m, c, strict) = << >>
      BY <1>1 DEF Group
    <2>2. << >> \in Seq(A)
      OBVIOUS
    <2> QED
      BY Zenon, <1>1, <2>1, <2>2
  <1>2. CASE S # {}
    <2>1. PICK g : g = [units |-> S, type |-> t, matters |-> m, conflicts |-> c, strict |-> strict]
      OBVIOUS
    <2>2. Group(S, t, m, c, strict) = <<g>>
      BY <1>2, <2>1 DEF Group
    <2>3. g \in A
      BY <1>2, <2>1
    <2>4. <<g>> \in Seq(A) /\ DOMAIN <<g>> = 1 .. 1 /\ <<g>>[1] = g
      BY <2>3
    <2>5. g \in InList(<<g>>)
      BY <2>4 DEF InList
    <2> QED
      BY <2>1, <2>2, <2>4, <2>5
  <1> QED
    BY <1>1, <1>2

\* The types a job of type t may pull in.
Pulled(t) == IF t \in {"reload", "nop"} THEN {"reload", "try-reload"}
             ELSE {"start", "verify-active", "stop", "restart", "try-restart"}

\* A group of jobs that a job can not do without.
Needed(S, t, c) == [units |-> S, type |-> t, matters |-> TRUE, conflicts |-> c, strict |-> TRUE]

LEMMA GroupsTyped ==
    ASSUME NEW j \in TJob
    PROVE  /\ Groups(j) \in Seq({g \in GroupRecord : g.type \in Pulled(j[2])})
           /\ j[2] \in {"start", "restart"} =>
                 /\ \A d \in {"requires", "binds_to"} : DepsOf(d, j[1]) # {} =>
                       Needed(DepsOf(d, j[1]), "start", FALSE) \in InList(Groups(j))
                 /\ DepsOf("conflicts", j[1]) # {} =>
                       Needed(DepsOf("conflicts", j[1]), "stop", TRUE) \in InList(Groups(j))
           /\ j[2] = "stop" =>
                 \A d \in {"requires", "requisite", "binds_to", "part_of"} : InverseDep(d, j[1]) # {} =>
                       Needed(InverseDep(d, j[1]), "stop", FALSE) \in InList(Groups(j))
  <1> DEFINE A == {g \in GroupRecord : g.type \in Pulled(j[2])}
  <1> DEFINE u == j[1]
             t == j[2]
             ptype == IF t = "restart" THEN "try-restart" ELSE "stop"
             Propagate(d) == Group(InverseDep(d, u), ptype, TRUE, FALSE, TRUE)
  <1>0. t \in TransactionType
    BY DEF TJob
  <1>1. ASSUME NEW S \in SUBSET Unit, NEW x \in JobType, NEW m \in BOOLEAN, NEW c \in BOOLEAN,
               NEW strict \in BOOLEAN, S # {} => x \in Pulled(t)
        PROVE  /\ Group(S, x, m, c, strict) \in Seq(A)
               /\ S # {} => [units |-> S, type |-> x, matters |-> m, conflicts |-> c, strict |-> strict]
                                \in InList(Group(S, x, m, c, strict))
    <2>1. S # {} => [units |-> S, type |-> x, matters |-> m, conflicts |-> c, strict |-> strict] \in A
      BY <1>1 DEF GroupRecord
    <2> HIDE DEF A
    <2> QED
      BY <2>1, GroupIs
  <1>2. \A d : DepsOf(d, u) \in SUBSET Unit /\ InverseDep(d, u) \in SUBSET Unit
    BY DEF DepsOf, InverseDep
  <1>3. << >> \in Seq(A)
    OBVIOUS
  <1>4. \A x, y \in Seq(A) : /\ x \o y \in Seq(A)
                            /\ InList(x) \subseteq InList(x \o y)
                            /\ InList(y) \subseteq InList(x \o y)
    <2> HIDE DEF A
    <2> QED
      BY Concatenation
  <1>5. PICK following : following = Group(IF t = "nop" THEN {} ELSE DepsOf("following", u), t, FALSE, FALSE, FALSE)
    BY Zenon
  <1>6. following \in Seq(A)
    <2>1. (IF t = "nop" THEN {} ELSE DepsOf("following", u)) \in SUBSET Unit
      BY <1>2
    <2>2. t \in JobType
      BY <1>0 DEF JobType
    <2>3. (IF t = "nop" THEN {} ELSE DepsOf("following", u)) # {} => t \in Pulled(t)
      BY <1>0 DEF Pulled, TransactionType, MergingType
    <2> HIDE DEF A, t
    <2> QED
      BY Zenon, <1>1, <1>5, <2>1, <2>2, <2>3
  <1>7. PICK starts : starts = IF t \in {"start", "restart"}
           THEN Group(DepsOf("requires", u), "start", TRUE, FALSE, TRUE)
                \o Group(DepsOf("binds_to", u), "start", TRUE, FALSE, TRUE)
                \o Group(DepsOf("wants", u), "start", FALSE, FALSE, FALSE)
                \o Group(DepsOf("requisite", u), "verify-active", TRUE, FALSE, TRUE)
                \o Group(DepsOf("conflicts", u), "stop", TRUE, TRUE, TRUE)
                \o Group(InverseDep("conflicts", u), "stop", FALSE, FALSE, FALSE)
           ELSE <<>>
    BY Zenon
  <1>8. /\ starts \in Seq(A)
        /\ t \in {"start", "restart"} =>
                 /\ \A d \in {"requires", "binds_to"} : DepsOf(d, u) # {} =>
                       Needed(DepsOf(d, u), "start", FALSE) \in InList(starts)
                 /\ DepsOf("conflicts", u) # {} =>
                       Needed(DepsOf("conflicts", u), "stop", TRUE) \in InList(starts)
    <2>1. CASE t \in {"start", "restart"}
      <3>1. \A x \in {"start", "verify-active", "stop"} : x \in Pulled(t) /\ x \in JobType
        BY <2>1 DEF Pulled, JobType, TransactionType, MergingType
      <3>a. PICK a1, a2, a3, a4, a5, a6 :
                 /\ a1 = Group(DepsOf("requires", u), "start", TRUE, FALSE, TRUE)
                 /\ a2 = Group(DepsOf("binds_to", u), "start", TRUE, FALSE, TRUE)
                 /\ a3 = Group(DepsOf("wants", u), "start", FALSE, FALSE, FALSE)
                 /\ a4 = Group(DepsOf("requisite", u), "verify-active", TRUE, FALSE, TRUE)
                 /\ a5 = Group(DepsOf("conflicts", u), "stop", TRUE, TRUE, TRUE)
                 /\ a6 = Group(InverseDep("conflicts", u), "stop", FALSE, FALSE, FALSE)
        BY Zenon
      <3>b. PICK b2, b3, b4, b5 : b2 = a1 \o a2 /\ b3 = b2 \o a3 /\ b4 = b3 \o a4 /\ b5 = b4 \o a5
        BY Zenon
      <3>c. starts = b5 \o a6
        BY Zenon, <1>7, <2>1, <3>a, <3>b
      <3> HIDE DEF A, t, u
      <3>2. a1 \in Seq(A) /\ (DepsOf("requires", u) # {} => Needed(DepsOf("requires", u), "start", FALSE) \in InList(a1))
        BY Zenon, <1>1, <1>2, <3>1, <3>a DEF Needed
      <3>3. a2 \in Seq(A) /\ (DepsOf("binds_to", u) # {} => Needed(DepsOf("binds_to", u), "start", FALSE) \in InList(a2))
        BY Zenon, <1>1, <1>2, <3>1, <3>a DEF Needed
      <3>4. a3 \in Seq(A)
        BY Zenon, <1>1, <1>2, <3>1, <3>a
      <3>5. a4 \in Seq(A)
        BY Zenon, <1>1, <1>2, <3>1, <3>a
      <3>6. a5 \in Seq(A) /\ (DepsOf("conflicts", u) # {} => Needed(DepsOf("conflicts", u), "stop", TRUE) \in InList(a5))
        BY Zenon, <1>1, <1>2, <3>1, <3>a DEF Needed
      <3>7. a6 \in Seq(A)
        BY Zenon, <1>1, <1>2, <3>1, <3>a
      <3>8. b2 \in Seq(A) /\ InList(a1) \subseteq InList(b2) /\ InList(a2) \subseteq InList(b2)
        BY Zenon, <1>4, <3>2, <3>3, <3>b
      <3>9. b3 \in Seq(A) /\ InList(b2) \subseteq InList(b3)
        BY Zenon, <1>4, <3>8, <3>4, <3>b
      <3>10. b4 \in Seq(A) /\ InList(b3) \subseteq InList(b4)
        BY Zenon, <1>4, <3>9, <3>5, <3>b
      <3>11. b5 \in Seq(A) /\ InList(b4) \subseteq InList(b5) /\ InList(a5) \subseteq InList(b5)
        BY Zenon, <1>4, <3>10, <3>6, <3>b
      <3>12. starts \in Seq(A) /\ InList(b5) \subseteq InList(starts)
        BY Zenon, <1>4, <3>11, <3>7, <3>c
      <3>13. InList(a1) \subseteq InList(starts) /\ InList(a2) \subseteq InList(starts) /\ InList(a5) \subseteq InList(starts)
        BY <3>8, <3>9, <3>10, <3>11, <3>12
      <3> QED
        BY Zenon, <3>2, <3>3, <3>6, <3>12, <3>13
    <2>2. CASE t \notin {"start", "restart"}
      BY Zenon, <1>3, <1>7, <2>2
    <2> QED
      BY Zenon, <2>1, <2>2
  <1>9. PICK stops : stops = IF t \in {"stop", "restart"}
           THEN Propagate("requires") \o Propagate("requisite") \o Propagate("binds_to")
                \o Propagate("part_of")
           ELSE <<>>
    BY Zenon
  <1>10. /\ stops \in Seq(A)
         /\ t = "stop" =>
               \A d \in {"requires", "requisite", "binds_to", "part_of"} : InverseDep(d, u) # {} =>
                       Needed(InverseDep(d, u), "stop", FALSE) \in InList(stops)
    <2>1. CASE t \in {"stop", "restart"}
      <3>1. ptype \in Pulled(t) /\ ptype \in JobType /\ (t = "stop" => ptype = "stop")
        BY <2>1 DEF Pulled, JobType, TransactionType, MergingType
      <3> HIDE DEF A, t, u, ptype
      <3>2. \A d \in {"requires", "requisite", "binds_to", "part_of"} :
                  /\ Propagate(d) \in Seq(A)
                  /\ InverseDep(d, u) # {} => Needed(InverseDep(d, u), ptype, FALSE) \in InList(Propagate(d))
        BY Zenon, <1>1, <1>2, <3>1 DEF Needed
      <3>3. PICK p1, p2, p3, p4 : /\ p1 = Propagate("requires") /\ p2 = Propagate("requisite")
                                  /\ p3 = Propagate("binds_to") /\ p4 = Propagate("part_of")
        BY Zenon
      <3>a. p1 \in Seq(A) /\ p2 \in Seq(A) /\ p3 \in Seq(A) /\ p4 \in Seq(A)
        BY Zenon, <3>2, <3>3
      <3>b. PICK b2, b3 : b2 = p1 \o p2 /\ b3 = b2 \o p3
        BY Zenon
      <3>4. stops = b3 \o p4
        BY Zenon, <1>9, <2>1, <3>3, <3>b
      <3>5. b2 \in Seq(A) /\ InList(p1) \subseteq InList(b2) /\ InList(p2) \subseteq InList(b2)
        BY Zenon, <1>4, <3>a, <3>b
      <3>6. b3 \in Seq(A) /\ InList(b2) \subseteq InList(b3) /\ InList(p3) \subseteq InList(b3)
        BY Zenon, <1>4, <3>a, <3>b, <3>5
      <3>7. stops \in Seq(A) /\ InList(b3) \subseteq InList(stops) /\ InList(p4) \subseteq InList(stops)
        BY Zenon, <1>4, <3>a, <3>4, <3>6
      <3>8. ASSUME t = "stop", NEW d \in {"requires", "requisite", "binds_to", "part_of"}, InverseDep(d, u) # {}
            PROVE  Needed(InverseDep(d, u), "stop", FALSE) \in InList(stops)
        <4>1. InList(Propagate(d)) \subseteq InList(stops)
          BY Zenon, <3>3, <3>5, <3>6, <3>7
        <4>2. Needed(InverseDep(d, u), "stop", FALSE) \in InList(Propagate(d))
          BY Zenon, <3>1, <3>2, <3>8
        <4> QED
          BY Zenon, <4>1, <4>2
      <3> QED
        BY Zenon, <3>7, <3>8
    <2>2. CASE t \notin {"stop", "restart"}
      BY Zenon, <1>3, <1>9, <2>2
    <2> QED
      BY Zenon, <2>1, <2>2
  <1>11. PICK reloads : reloads = IF t \in {"reload", "nop"}
           THEN Group(DepsOf("propagates_reload_to", u), "try-reload", FALSE, FALSE, FALSE)
           ELSE <<>>
    BY Zenon
  <1>12. reloads \in Seq(A)
    <2>1. CASE t \in {"reload", "nop"}
      <3>1. "try-reload" \in Pulled(t) /\ "try-reload" \in JobType
        BY <2>1 DEF Pulled, JobType
      <3> HIDE DEF A, t, u
      <3> QED
        BY Zenon, <1>1, <1>2, <1>11, <2>1, <3>1
    <2>2. CASE t \notin {"reload", "nop"}
      BY <1>3, <1>11, <2>2
    <2> QED
      BY <2>1, <2>2
  <1>13. Groups(j) = following \o starts \o stops \o reloads
    BY <1>5, <1>7, <1>9, <1>11 DEF Groups
  <1>15. PICK x, y : x = following \o starts /\ y = x \o stops
    BY Zenon
  <1>14. Groups(j) \in Seq(A)
    <2> HIDE DEF A
    <2>1. x \in Seq(A)
      BY Zenon, <1>4, <1>6, <1>8, <1>15
    <2>2. y \in Seq(A)
      BY Zenon, <1>4, <1>10, <1>15, <2>1
    <2> QED
      BY Zenon, <1>4, <1>12, <1>13, <1>15, <2>2
  <1>16. InList(starts) \subseteq InList(Groups(j)) /\ InList(stops) \subseteq InList(Groups(j))
    <2> HIDE DEF A
    <2>1. x \in Seq(A) /\ y \in Seq(A)
      BY Zenon, <1>4, <1>6, <1>8, <1>10, <1>15
    <2>2. InList(starts) \subseteq InList(x) /\ InList(x) \subseteq InList(y) /\ InList(stops) \subseteq InList(y)
      BY Zenon, <1>4, <1>6, <1>8, <1>10, <1>15, <2>1
    <2>3. InList(y) \subseteq InList(Groups(j))
      BY Zenon, <1>4, <1>12, <1>13, <1>15, <2>1
    <2> QED
      BY <2>2, <2>3
  <1> QED
    BY Zenon, <1>14, <1>8, <1>10, <1>16

\* A deletion among the jobs that do not matter leaves those that do.
LEMMA DeletedSafe ==
    ASSUME FiniteSetFacts, NEW t, WellFormed(t), ClosedMarks(t), NEW S, S \cap t.matter = {}
    PROVE  \E X : Deletes(t, S, X) /\ X \cap t.matter = {}
  <1>1. PICK C : C = (JobsOf(t) \cup S) \ t.matter
    BY Zenon
  <1>2. Upward(t, C)
    BY <1>1 DEF WellFormed, ClosedMarks, Upward
  <1>3. S \subseteq C
    BY <1>1
  <1>4. \E X : Deletes(t, S, X) /\ X \subseteq C
    BY Zenon, <1>2, <1>3, DeletedIs
  <1> QED
    BY <1>1, <1>4

LEMMA WithJobIs ==
    ASSUME FiniteSetFacts, NEW t, WellFormed(t), NEW j \in TJob, NEW by \in JobsOf(t), NEW m \in BOOLEAN, NEW c \in BOOLEAN
    PROVE  /\ WellFormed(WithJob(t, j, by, m, c))
           /\ JobsOf(WithJob(t, j, by, m, c)) = JobsOf(t) \cup {j}
           /\ WithJob(t, j, by, m, c).links =
                  t.links \cup {[subject |-> by, object |-> j, matters |-> m, conflicts |-> c]}
           /\ WithJob(t, j, by, m, c).matter = t.matter
  <1>1. PICK w : w = WithJob(t, j, by, m, c)
    OBVIOUS
  <1>2. PICK l : l = [subject |-> by, object |-> j, matters |-> m, conflicts |-> c]
    BY Zenon
  <1>3. PICK u, x : u = j[1] /\ x = j[2]
    OBVIOUS
  <1>4. u \in Unit /\ x \in TransactionType /\ j = <<u, x>>
    BY <1>3 DEF TJob
  <1>5. t \in Tr /\ t.jobs \in [Unit -> Seq(TransactionType)] /\ t.links \subseteq Link /\ t.matter \subseteq TJob
    BY DEF WellFormed, Tr
  <1>6. PICK s : s = IF x \in InList(t.jobs[u]) THEN t.jobs[u] ELSE <<x>> \o t.jobs[u]
    BY Zenon
  <1>7. w.jobs = [t.jobs EXCEPT ![u] = s] /\ w.links = t.links \cup {l} /\ w.matter = t.matter
        /\ w = [jobs |-> w.jobs, links |-> w.links, matter |-> w.matter]
    BY Zenon, <1>1, <1>2, <1>3, <1>5, <1>6 DEF WithJob, Tr
  <1>8. s \in Seq(TransactionType) /\ InList(s) = InList(t.jobs[u]) \cup {x}
    <2>1. t.jobs[u] \in Seq(TransactionType)
      BY <1>4, <1>5
    <2>2. CASE x \in InList(t.jobs[u])
      BY <1>6, <2>1, <2>2
    <2>3. CASE x \notin InList(t.jobs[u])
      <3>1. PICK r : r = t.jobs[u]
        OBVIOUS
      <3>2. s = <<x>> \o r /\ r \in Seq(TransactionType)
        BY <1>6, <2>1, <2>3, <3>1
      <3>3. /\ s \in Seq(TransactionType) /\ Len(s) = Len(r) + 1 /\ s[1] = x
            /\ \A i \in 1 .. Len(r) : s[i + 1] = r[i]
        BY <1>4, <3>2
      <3>4. DOMAIN s = 1 .. Len(s) /\ DOMAIN r = 1 .. Len(r) /\ Len(r) \in Nat
        BY <3>2, <3>3
      <3>5. ASSUME NEW y \in InList(s) PROVE y \in InList(r) \cup {x}
        <4>1. PICK i \in DOMAIN s : y = s[i]
          BY DEF InList
        <4>2. CASE i = 1
          BY <3>3, <4>1, <4>2
        <4>3. CASE i # 1
          <5>1. i - 1 \in 1 .. Len(r) /\ (i - 1) + 1 = i
            BY <3>3, <3>4, <4>3
          <5>2. y = r[i - 1]
            BY <3>3, <4>1, <5>1
          <5> QED
            BY <3>4, <5>1, <5>2 DEF InList
        <4> QED
          BY <4>2, <4>3
      <3>6. ASSUME NEW y \in InList(r) PROVE y \in InList(s)
        <4>1. PICK i \in DOMAIN r : y = r[i]
          BY DEF InList
        <4>2. i + 1 \in DOMAIN s /\ y = s[i + 1]
          BY <3>3, <3>4, <4>1
        <4> QED
          BY <4>2 DEF InList
      <3>7. x \in InList(s)
        <4>1. 1 \in DOMAIN s
          BY <3>3, <3>4
        <4> QED
          BY <3>3, <4>1 DEF InList
      <3> QED
        BY <3>1, <3>3, <3>5, <3>6, <3>7
    <2> QED
      BY <2>2, <2>3
  <1>9. l \in Link /\ l.subject = by /\ l.object = j
    BY <1>2 DEF Link, JobsOf
  <1>10. w \in Tr
    <2>1. w.jobs \in [Unit -> Seq(TransactionType)]
      BY <1>4, <1>5, <1>7, <1>8
    <2>2. w.links \subseteq Link /\ w.matter \subseteq TJob
      BY <1>5, <1>7, <1>9
    <2> QED
      BY <1>7, <2>1, <2>2 DEF Tr
  <1>11. ASSUME NEW k \in TJob PROVE k \in JobsOf(w) <=> k \in JobsOf(t) \cup {j}
    <2>1. k[1] \in Unit /\ k = <<k[1], k[2]>>
      BY DEF TJob
    <2>2. CASE k[1] = u
      <3>1. InList(w.jobs[k[1]]) = InList(t.jobs[k[1]]) \cup {x}
        BY <1>4, <1>5, <1>7, <1>8, <2>2
      <3>2. k[2] = x <=> k = j
        BY <1>4, <2>1, <2>2
      <3> QED
        BY <3>1, <3>2 DEF JobsOf
    <2>3. CASE k[1] # u
      <3>1. w.jobs[k[1]] = t.jobs[k[1]]
        BY <1>5, <1>7, <2>1, <2>3
      <3>2. k # j
        BY <1>3, <2>3
      <3> QED
        BY <3>1, <3>2 DEF JobsOf
    <2> QED
      BY <2>2, <2>3
  <1>12. JobsOf(w) = JobsOf(t) \cup {j}
    <2>1. JobsOf(w) \subseteq TJob /\ JobsOf(t) \subseteq TJob
      BY DEF JobsOf
    <2> QED
      BY <1>11, <2>1
  <1>13. IsFiniteSet(w.links)
    <2>1. IsFiniteSet(t.links)
      BY Zenon DEF WellFormed
    <2>2. IsFiniteSet(t.links \cup {l})
      BY Zenon, <2>1, SizeAdd
    <2>3. w.links = t.links \cup {l}
      BY <1>7
    <2> QED
      BY Zenon, <2>2, <2>3
  <1>14. WellFormed(w)
    <2>1. \A k \in w.links : k.subject \in JobsOf(w) /\ k.object \in JobsOf(w)
      BY <1>7, <1>9, <1>12 DEF WellFormed
    <2>2. w.matter \subseteq JobsOf(w)
      BY <1>7, <1>12 DEF WellFormed
    <2> QED
      BY <1>10, <1>13, <2>1, <2>2 DEF WellFormed
  <1> QED
    BY <1>1, <1>2, <1>7, <1>12, <1>14

LEMMA MarkedIs ==
    ASSUME FiniteSetFacts, NEW t, WellFormed(t), anchor \in JobsOf(t)
    PROVE  /\ WellFormed(Marked(t))
           /\ Marked(t).jobs = t.jobs /\ JobsOf(Marked(t)) = JobsOf(t)
           /\ Marked(t).links = t.links
           /\ Marked(t).matter = Reach({<<l.subject, l.object>> : l \in {x \in t.links : x.matters}}, {anchor})
           /\ anchor \in Marked(t).matter
           /\ ClosedMarks(Marked(t))
  <1>1. PICK w : w = Marked(t)
    OBVIOUS
  <1> DEFINE R == {<<l.subject, l.object>> : l \in {x \in t.links : x.matters}}
  <1>2. t \in Tr
    BY DEF WellFormed
  <1>3. w.matter = Reach(R, {anchor}) /\ w.jobs = t.jobs /\ w.links = t.links
        /\ w = [jobs |-> w.jobs, links |-> w.links, matter |-> w.matter]
    BY <1>1, <1>2 DEF Marked, Tr
  <1>4. IsFiniteSet(R)
    BY Zenon, FiniteRelation DEF WellFormed
  <1>5. Cardinality(R) \in Nat
    BY <1>4, SizeType
  <1>6. \A e \in R : e[1] \in JobsOf(t) => e[2] \in JobsOf(t)
    BY DEF WellFormed
  <1>7. \A l \in t.links : l.matters => <<l.subject, l.object>> \in R
    OBVIOUS
  <1> HIDE DEF R
  <1>8. Reach(R, {anchor}) \subseteq JobsOf(t)
    BY <1>5, <1>6, ReachWithin
  <1>9. anchor \in Reach(R, {anchor})
    BY <1>5, ReachContains
  <1>10. \A e \in R : e[1] \in Reach(R, {anchor}) => e[2] \in Reach(R, {anchor})
    BY <1>4, ReachClosed
  <1>11. ClosedMarks(w)
    <2>1. ASSUME NEW l \in t.links, l.matters, l.subject \in Reach(R, {anchor})
          PROVE  l.object \in Reach(R, {anchor})
      <3>1. PICK e : e = <<l.subject, l.object>> /\ e \in R
        BY Zenon, <1>7, <2>1
      <3>2. e[1] = l.subject /\ e[2] = l.object
        BY <3>1
      <3> QED
        BY <1>10, <2>1, <3>1, <3>2
    <2> QED
      BY <1>3, <2>1 DEF ClosedMarks
  <1>12. JobsOf(w) = JobsOf(t)
    BY <1>3 DEF JobsOf
  <1>13. w \in Tr
    <2>1. JobsOf(t) \subseteq TJob
      BY DEF JobsOf
    <2> QED
      BY Zenon, <1>2, <1>3, <1>8, <2>1 DEF Tr
  <1>14. WellFormed(w)
    BY <1>3, <1>8, <1>12, <1>13 DEF WellFormed
  <1> QED
    BY <1>1, <1>3, <1>9, <1>11, <1>12, <1>14 DEF R

-----------------------------------------------------------------------------
(* The invariant.                                                          *)

Building == {"build", "stop others"}

Marking == {"minimize", "redundant", "gc before order", "order", "gc before merge", "merge"}

Merged == {"redundant again", "activate"}

\* The calls under way: each is for a job of the transaction, at a group of
\* what the job pulls in.
Sound(t) ==
    {f \in Call : /\ f.job \in JobsOf(t)
                  /\ f.at \in 1 .. Len(Groups(f.job))
                  /\ f.left \subseteq Groups(f.job)[f.at].units}

CallsOK == calls \in Seq(Sound(tr)) /\ (calls # <<>> => phase \in Building)

\* A transaction either reloads and nothing else, or reloads nothing, until
\* jobs are merged.
OneKind(t) ==
    \/ \A j \in JobsOf(t) : j[2] \in {"reload", "nop"}
    \/ \A j \in JobsOf(t) : j[2] \notin {"reload", "nop"}

Staged ==
    /\ AnchorKept
    /\ phase = "stop others" => mode \in {"isolate", "triggering"}
    /\ phase \in Building /\ mode \in {"isolate", "triggering"} => anchor[2] \in {"start", "stop"}
    /\ phase \in Marking => anchor \in tr.matter /\ ClosedMarks(tr)
    /\ phase \notin Merged => OneKind(tr)
    /\ phase \in Merged => \A u \in Unit : Len(tr.jobs[u]) <= 1

TInv == TypeOK /\ WellFormed(tr) /\ CallsOK /\ Staged

LEMMA EmptyIs ==
    ASSUME FiniteSetFacts
    PROVE  WellFormed(EmptyTr) /\ JobsOf(EmptyTr) = {} /\ OneKind(EmptyTr)
  <1>1. << >> \in Seq(TransactionType)
    OBVIOUS
  <1>2. EmptyTr \in Tr
    BY <1>1 DEF EmptyTr, Tr
  <1>3. JobsOf(EmptyTr) = {}
    <2>1. \A u \in Unit : EmptyTr.jobs[u] = << >>
      BY DEF EmptyTr
    <2>2. InList(<< >>) = {}
      BY DEF InList
    <2>3. \A j \in TJob : j[1] \in Unit
      BY DEF TJob
    <2> QED
      BY <2>1, <2>2, <2>3 DEF JobsOf
  <1>4. EmptyTr.links = {} /\ EmptyTr.matter = {}
    BY DEF EmptyTr
  <1>5. IsFiniteSet(EmptyTr.links)
    BY <1>4, SizeEmpty
  <1> QED
    BY <1>2, <1>3, <1>4, <1>5 DEF WellFormed, OneKind

LEMMA SingleIs ==
    ASSUME FiniteSetFacts, NEW u \in Unit, NEW t \in TransactionType
    PROVE  /\ WellFormed([EmptyTr EXCEPT !.jobs[u] = <<t>>])
           /\ JobsOf([EmptyTr EXCEPT !.jobs[u] = <<t>>]) = {<<u, t>>}
           /\ OneKind([EmptyTr EXCEPT !.jobs[u] = <<t>>])
           /\ [EmptyTr EXCEPT !.jobs[u] = <<t>>].links = {}
  <1>1. PICK w : w = [EmptyTr EXCEPT !.jobs[u] = <<t>>]
    BY Zenon
  <1>2. << >> \in Seq(TransactionType) /\ <<t>> \in Seq(TransactionType)
    OBVIOUS
  <1>3. w.links = {} /\ w.matter = {} /\ w.jobs = [x \in Unit |-> IF x = u THEN <<t>> ELSE << >>]
        /\ w = [jobs |-> w.jobs, links |-> w.links, matter |-> w.matter]
    BY Zenon, <1>1 DEF EmptyTr
  <1>4. w \in Tr
    BY Zenon, <1>2, <1>3 DEF Tr
  <1>5. InList(<< >>) = {} /\ InList(<<t>>) = {t}
    <2>1. DOMAIN <<t>> = {1} /\ <<t>>[1] = t
      OBVIOUS
    <2> QED
      BY <2>1 DEF InList
  <1>6. ASSUME NEW j \in TJob PROVE j \in JobsOf(w) <=> j = <<u, t>>
    <2>1. j[1] \in Unit /\ j[2] \in TransactionType /\ j = <<j[1], j[2]>>
      BY DEF TJob
    <2>2. CASE j[1] = u
      BY <1>3, <1>5, <2>1, <2>2 DEF JobsOf
    <2>3. CASE j[1] # u
      <3>1. w.jobs[j[1]] = << >>
        BY <1>3, <2>1, <2>3
      <3>2. j \notin JobsOf(w)
        BY <1>5, <3>1 DEF JobsOf
      <3> QED
        BY <2>1, <2>3, <3>2
    <2> QED
      BY <2>2, <2>3
  <1>7. <<u, t>> \in TJob /\ JobsOf(w) \subseteq TJob
    BY DEF TJob, JobsOf
  <1>8. JobsOf(w) = {<<u, t>>}
    BY <1>6, <1>7
  <1>9. IsFiniteSet(w.links)
    BY <1>3, SizeEmpty
  <1>10. WellFormed(w)
    BY <1>3, <1>4, <1>9 DEF WellFormed
  <1>11. OneKind(w)
    BY <1>8 DEF OneKind
  <1> QED
    BY <1>1, <1>3, <1>8, <1>10, <1>11

LEMMA GroupsSame ==
    ASSUME dep' = dep
    PROVE  \A j : Groups(j)' = Groups(j)
  BY DEF Groups, DepsOf, InverseDep, Group

LEMMA SoundGrows ==
    ASSUME dep' = dep, JobsOf(tr) \subseteq JobsOf(tr')
    PROVE  Sound(tr) \subseteq Sound(tr)'
  BY GroupsSame DEF Sound

LEMMA GroupAt ==
    ASSUME NEW j \in TJob, NEW i \in 1 .. Len(Groups(j))
    PROVE  Groups(j)[i] \in GroupRecord /\ Groups(j)[i].type \in Pulled(j[2]) /\ Groups(j)[i].units \subseteq Unit
  <1>1. PICK A : A = {g \in GroupRecord : g.type \in Pulled(j[2])}
    BY Zenon
  <1>2. Groups(j) \in Seq(A)
    BY Zenon, <1>1, GroupsTyped
  <1>3. Groups(j)[i] \in A
    BY <1>2
  <1> QED
    BY <1>1, <1>3 DEF GroupRecord

LEMMA GoOnSound ==
    ASSUME NEW t, NEW j \in JobsOf(t), NEW i \in Nat \ {0}
    PROVE  GoOn(j, i) \in Seq(Sound(t))
  <1>1. j \in TJob
    BY DEF JobsOf
  <1>2. Len(Groups(j)) \in Nat
    BY <1>1, GroupsTyped
  <1>3. CASE i > Len(Groups(j))
    <2>1. GoOn(j, i) = << >>
      BY <1>3 DEF GoOn
    <2>2. << >> \in Seq(Sound(t))
      OBVIOUS
    <2> QED
      BY <2>1, <2>2
  <1>4. CASE ~(i > Len(Groups(j)))
    <2>1. i \in 1 .. Len(Groups(j))
      BY <1>2, <1>4
    <2>2. PICK f : f = [job |-> j, at |-> i, left |-> Groups(j)[i].units]
      BY Zenon
    <2>3. f \in Sound(t)
      BY <1>1, <2>1, <2>2, GroupAt DEF Sound, Call
    <2>4. GoOn(j, i) = <<f>>
      BY <1>4, <2>2 DEF GoOn
    <2> QED
      BY <2>3, <2>4
  <1> QED
    BY <1>3, <1>4

LEMMA CollapsedType ==
    ASSUME NEW x \in JobType, NEW s
    PROVE  job_type_collapse(x, s) \in TransactionType
  BY DEF job_type_collapse, JobType, TransactionType, MergingType

LEMMA CollapsedKind ==
    ASSUME NEW x, NEW s, NEW y \in TransactionType, x \in Pulled(y), job_type_collapse(x, s) # "nop"
    PROVE  job_type_collapse(x, s) \in {"reload", "nop"} <=> y \in {"reload", "nop"}
  BY DEF job_type_collapse, Pulled, TransactionType, MergingType

LEMMA KindKept ==
    ASSUME NEW t, NEW w, OneKind(t), NEW y \in JobsOf(t), NEW j, JobsOf(w) = JobsOf(t) \cup {j},
           j[2] \in {"reload", "nop"} <=> y[2] \in {"reload", "nop"}
    PROVE  OneKind(w)
  BY DEF OneKind

-----------------------------------------------------------------------------
(* Every action keeps the invariant.                                       *)

LEMMA InitInvariant ==
    ASSUME FiniteSetFacts, Init PROVE TInv
  <1>1. << >> \in Seq(Call) /\ << >> \in Seq(WalkStep) /\ << >> \in Seq(Sound(tr))
    OBVIOUS
  <1>2. tr = EmptyTr /\ tr \in Tr
    BY EmptyIs DEF Init, WellFormed
  <1>3. dep \subseteq DepType \X Unit \X Unit
    BY DepsAssumption DEF Init
  <1>4. TypeOK
    BY <1>1, <1>2, <1>3, BoundAssumption DEF Init, TypeOK, Phase, Mode
  <1>5. CallsOK
    BY <1>1 DEF Init, CallsOK
  <1>6. Staged
    BY <1>2, EmptyIs DEF Init, Staged, AnchorKept, Building, Marking, Merged
  <1> QED
    BY <1>2, <1>4, <1>5, <1>6, EmptyIs DEF TInv

\* The call under way, and the group it is at.
LEMMA HeadCall ==
    ASSUME TInv, calls # << >>
    PROVE  /\ Head(calls) \in Sound(tr) /\ Tail(calls) \in Seq(Sound(tr))
           /\ Head(calls).job \in JobsOf(tr) /\ Head(calls).job \in TJob
           /\ Head(calls).at \in 1 .. Len(Groups(Head(calls).job))
           /\ Groups(Head(calls).job)[Head(calls).at] \in GroupRecord
           /\ Groups(Head(calls).job)[Head(calls).at].type \in Pulled(Head(calls).job[2])
           /\ Head(calls).left \subseteq Groups(Head(calls).job)[Head(calls).at].units
           /\ Head(calls).left \subseteq Unit
           /\ phase \in Building
  <1>1. calls \in Seq(Sound(tr)) /\ phase \in Building
    BY DEF TInv, CallsOK
  <1>2. Head(calls) \in Sound(tr) /\ Tail(calls) \in Seq(Sound(tr))
    BY <1>1
  <1>3. PICK f : f = Head(calls)
    OBVIOUS
  <1>4. f \in Call /\ f.job \in JobsOf(tr) /\ f.at \in 1 .. Len(Groups(f.job))
        /\ f.left \subseteq Groups(f.job)[f.at].units
    BY <1>2, <1>3 DEF Sound
  <1>5. f.job \in TJob /\ f.left \subseteq Unit
    BY <1>4 DEF Call
  <1>6. Groups(f.job)[f.at] \in GroupRecord /\ Groups(f.job)[f.at].type \in Pulled(f.job[2])
    BY <1>4, <1>5, GroupAt
  <1> QED
    BY <1>1, <1>2, <1>3, <1>4, <1>5, <1>6

LEMMA RestSound ==
    ASSUME TInv, calls # << >>, NEW v
    PROVE  <<[Head(calls) EXCEPT !.left = @ \ {v}]>> \o Tail(calls) \in Seq(Sound(tr))
  <1>1. PICK f : f = Head(calls)
    OBVIOUS
  <1>2. PICK h : h = [f EXCEPT !.left = @ \ {v}]
    BY Zenon
  <1>3. f \in Sound(tr) /\ Tail(calls) \in Seq(Sound(tr))
    BY <1>1, HeadCall
  <1>4. h.job = f.job /\ h.at = f.at /\ h.left = f.left \ {v} /\ h \in Call
    BY Zenon, <1>2, <1>3 DEF Sound, Call
  <1>5. h \in Sound(tr)
    BY <1>3, <1>4 DEF Sound
  <1>6. <<h>> \o Tail(calls) \in Seq(Sound(tr))
    BY <1>3, <1>5
  <1> QED
    BY <1>1, <1>2, <1>6

LEMMA UnwoundSound ==
    ASSUME FiniteSetFacts, NEW A, NEW cs \in Seq(A)
    PROVE  Unwound(cs) \in Seq(A)
  <1> DEFINE Lenient(i) == ~Groups(cs[i].job)[cs[i].at].strict
  <1> DEFINE S == {i \in 2 .. Len(cs) : Lenient(i)}
  <1>1. CASE S = {}
    <2>1. Unwound(cs) = << >>
      BY <1>1 DEF Unwound
    <2>2. << >> \in Seq(A)
      OBVIOUS
    <2> QED
      BY <2>1, <2>2
  <1>2. CASE S # {}
    <2>1. S \subseteq Nat
      OBVIOUS
    <2>2. Unwound(cs) = SubSeq(cs, CHOOSE i \in S : \A k \in S : i <= k, Len(cs))
      BY Zenon, <1>2 DEF Unwound
    <2>3. S \subseteq 2 .. Len(cs)
      OBVIOUS
    <2> HIDE DEF S
    <2>4. \E i \in S : \A k \in S : i <= k
      BY <1>2, <2>1, LeastNumber
    <2>5. PICK m : m = CHOOSE i \in S : \A k \in S : i <= k
      OBVIOUS
    <2>6. m \in S
      BY <2>4, <2>5
    <2>7. m \in 2 .. Len(cs)
      BY <2>3, <2>6
    <2>8. SubSeq(cs, m, Len(cs)) \in Seq(A)
      BY <2>7
    <2> QED
      BY <2>2, <2>5, <2>8
  <1> QED
    BY <1>1, <1>2

\* A step that changes the calls only.
LEMMA CallsStep ==
    ASSUME TInv, phase \in Building, calls' \in Seq(Sound(tr)),
           UNCHANGED <<dep, ustate, installed, phase, mode, anchor, tr, visit, walk, seen, nreq>>
    PROVE  TInv'
  <1>1. Sound(tr) \subseteq Sound(tr)'
    BY SoundGrows
  <1>2. Sound(tr) \subseteq Call
    BY DEF Sound
  <1>3. calls' \in Seq(Sound(tr)') /\ calls' \in Seq(Call)
    BY <1>1, <1>2
  <1>4. TypeOK'
    BY <1>3 DEF TInv, TypeOK
  <1>5. CallsOK'
    BY <1>3 DEF CallsOK
  <1>6. Staged'
    BY Zenon DEF TInv, Staged, AnchorKept, ClosedMarks, OneKind, JobsOf
  <1>7. WellFormed(tr)'
    BY DEF TInv, WellFormed, JobsOf
  <1> QED
    BY <1>4, <1>5, <1>6, <1>7 DEF TInv

LEMMA NextGroupInvariant ==
    ASSUME TInv, phase \in Building, calls # << >>, NextGroup
    PROVE  TInv'
  <1>1. PICK f : f = Head(calls)
    OBVIOUS
  <1>2. f.job \in JobsOf(tr) /\ f.at \in 1 .. Len(Groups(f.job)) /\ Tail(calls) \in Seq(Sound(tr))
    BY <1>1, HeadCall
  <1>3. Len(Groups(f.job)) \in Nat
    BY <1>1, HeadCall, GroupsTyped
  <1>4. f.at + 1 \in Nat \ {0}
    BY <1>2, <1>3
  <1>5. GoOn(f.job, f.at + 1) \in Seq(Sound(tr))
    BY <1>2, <1>4, GoOnSound
  <1>6. GoOn(f.job, f.at + 1) \o Tail(calls) \in Seq(Sound(tr))
    BY <1>2, <1>5
  <1>7. calls' = GoOn(f.job, f.at + 1) \o Tail(calls)
        /\ UNCHANGED <<dep, ustate, installed, phase, mode, anchor, tr, visit, walk, seen, nreq>>
    BY <1>1 DEF NextGroup
  <1> QED
    BY <1>6, <1>7, CallsStep

\* A step that gives up.
LEMMA AbortInvariant ==
    ASSUME FiniteSetFacts, TInv, Abort, calls' = << >>, dep' = dep, ustate' \in [Unit -> UnitStates],
           installed' \in [Unit -> InstalledJob \cup {None}], mode' = mode,
           visit' = visit, walk' = walk \/ walk' = << >>, seen' = seen \/ seen' = {}, nreq' = nreq
    PROVE  TInv'
  <1>1. << >> \in Seq(Call) /\ << >> \in Seq(WalkStep)
    OBVIOUS
  <1>2. tr' = EmptyTr /\ tr' \in Tr
    BY EmptyIs DEF Abort, WellFormed
  <1>3. TypeOK'
    BY Zenon, <1>1, <1>2 DEF TInv, TypeOK, Phase, Abort
  <1>4. << >> \in Seq(Sound(tr)')
    OBVIOUS
  <1>5. CallsOK'
    BY <1>4 DEF CallsOK
  <1>6. WellFormed(tr)' /\ OneKind(tr)'
    <2>1. WellFormed(tr') /\ OneKind(tr')
      BY <1>2, EmptyIs
    <2> QED
      BY <2>1 DEF WellFormed, OneKind, JobsOf
  <1>7. Staged'
    BY <1>6 DEF Staged, AnchorKept, Building, Marking, Merged, Abort
  <1> QED
    BY <1>3, <1>5, <1>6, <1>7 DEF TInv

\* A step that adds a job.
LEMMA JobAdded ==
    ASSUME FiniteSetFacts, TInv, phase \in Building, NEW j \in TJob, NEW by \in JobsOf(tr), NEW m \in BOOLEAN, NEW c \in BOOLEAN,
           tr' = WithJob(tr, j, by, m, c), j[2] \in {"reload", "nop"} <=> by[2] \in {"reload", "nop"},
           calls' \in Seq(Sound(tr)'), visit' \in SUBSET Unit,
           UNCHANGED <<dep, ustate, installed, phase, mode, anchor, walk, seen, nreq>>
    PROVE  TInv'
  <1>1. WellFormed(tr)
    BY DEF TInv
  <1>2. WellFormed(tr') /\ JobsOf(tr') = JobsOf(tr) \cup {j}
    BY <1>1, WithJobIs
  <1>3. Sound(tr)' \subseteq Call
    BY DEF Sound
  <1>4. calls' \in Seq(Call)
    BY <1>3
  <1>5. TypeOK'
    BY <1>2, <1>4 DEF TInv, TypeOK, WellFormed
  <1>6. CallsOK'
    BY DEF CallsOK
  <1>7. phase' \in Building /\ phase' \notin Marking /\ phase' \notin Merged
    BY Zenon DEF Building, Marking, Merged
  <1>8. OneKind(tr)
    BY Zenon, <1>7 DEF TInv, Staged
  <1>9. OneKind(tr')
    BY <1>2, <1>8, KindKept
  <1>10. anchor' \in JobsOf(tr')
    BY Zenon, <1>2, <1>7 DEF TInv, Staged, AnchorKept, Building
  <1>11. Staged'
    BY Zenon, <1>7, <1>9, <1>10 DEF TInv, Staged, AnchorKept
  <1> QED
    BY <1>2, <1>5, <1>6, <1>11 DEF TInv

LEMMA AddDependencyInvariant ==
    ASSUME FiniteSetFacts, TInv, calls # << >>, NEW v \in Unit, AddDependency(v)
    PROVE  TInv'
  <1>1. PICK f : f = Head(calls)
    OBVIOUS
  <1>2. PICK g : g = Groups(f.job)[f.at]
    OBVIOUS
  <1>3. PICK t : t = job_type_collapse(g.type, ustate[v])
    OBVIOUS
  <1>4. PICK rest : rest = <<[f EXCEPT !.left = @ \ {v}]>> \o Tail(calls)
    BY Zenon
  <1>5. rest \in Seq(Sound(tr))
    BY Zenon, <1>1, <1>4, RestSound
  <1>6. f.job \in JobsOf(tr) /\ f.job \in TJob /\ g \in GroupRecord /\ g.type \in Pulled(f.job[2]) /\ phase \in Building
    BY <1>1, <1>2, HeadCall
  <1>7. t \in TransactionType
    BY <1>3, <1>6, CollapsedType DEF GroupRecord
  <1>8. UNCHANGED <<dep, ustate, installed, mode, visit, walk, seen, nreq>>
    BY Zenon DEF AddDependency
  <1>9. \/ calls' = rest /\ UNCHANGED <<phase, anchor, tr>>
        \/ /\ calls' = Unwound(calls)
           /\ IF calls' = <<>> /\ phase = "build"
              THEN phase' = "idle" /\ anchor' = None /\ tr' = EmptyTr
              ELSE UNCHANGED <<phase, anchor, tr>>
        \/ /\ t # "nop"
           /\ tr' = WithJob(tr, <<v, t>>, f.job, g.matters, g.conflicts)
           /\ calls' = (IF t \notin InList(tr.jobs[v]) THEN GoOn(<<v, t>>, 1) ELSE <<>>) \o rest
           /\ UNCHANGED <<phase, anchor>>
    BY Zenon, <1>1, <1>2, <1>3, <1>4 DEF AddDependency
  <1>10. CASE calls' = rest /\ UNCHANGED <<phase, anchor, tr>>
    BY <1>5, <1>6, <1>8, <1>10, CallsStep
  <1>11. CASE /\ calls' = Unwound(calls)
              /\ IF calls' = <<>> /\ phase = "build"
                 THEN phase' = "idle" /\ anchor' = None /\ tr' = EmptyTr
                 ELSE UNCHANGED <<phase, anchor, tr>>
    <2>1. calls' \in Seq(Sound(tr))
      BY <1>11, UnwoundSound DEF TInv, CallsOK
    <2>2. CASE calls' = << >> /\ phase = "build"
      <3>1. Abort
        BY <1>11, <2>2 DEF Abort
      <3> QED
        BY <1>8, <2>2, <3>1, AbortInvariant DEF TInv, TypeOK
    <2>3. CASE ~(calls' = << >> /\ phase = "build")
      <3>1. UNCHANGED <<phase, anchor, tr>>
        BY <1>11, <2>3
      <3> QED
        BY <1>6, <1>8, <2>1, <3>1, CallsStep
    <2> QED
      BY <2>2, <2>3
  <1>12. CASE /\ t # "nop"
              /\ tr' = WithJob(tr, <<v, t>>, f.job, g.matters, g.conflicts)
              /\ calls' = (IF t \notin InList(tr.jobs[v]) THEN GoOn(<<v, t>>, 1) ELSE <<>>) \o rest
              /\ UNCHANGED <<phase, anchor>>
    <2>1. PICK j : j = <<v, t>>
      BY Zenon
    <2>2. j \in TJob /\ j[2] = t
      BY <1>7, <2>1 DEF TJob
    <2>3. g.matters \in BOOLEAN /\ g.conflicts \in BOOLEAN
      BY <1>6 DEF GroupRecord
    <2>4. JobsOf(tr') = JobsOf(tr) \cup {j}
      <3>1. tr' = WithJob(tr, j, f.job, g.matters, g.conflicts)
        BY Zenon, <1>12, <2>1
      <3>2. WellFormed(tr) /\ f.job \in JobsOf(tr)
        BY <1>6 DEF TInv
      <3>3. JobsOf(WithJob(tr, j, f.job, g.matters, g.conflicts)) = JobsOf(tr) \cup {j}
        BY <2>2, <2>3, <3>2, WithJobIs
      <3> QED
        BY Zenon, <3>1, <3>3
    <2>5. j[2] \in {"reload", "nop"} <=> f.job[2] \in {"reload", "nop"}
      <3>1. f.job[2] \in TransactionType
        BY <1>6 DEF TJob
      <3> QED
        BY <1>3, <1>6, <1>12, <2>2, <3>1, CollapsedKind
    <2>6. rest \in Seq(Sound(tr)')
      <3>1. Sound(tr) \subseteq Sound(tr)'
        BY <1>8, <2>4, SoundGrows
      <3> QED
        BY <1>5, <3>1
    <2>7. GoOn(j, 1) \in Seq(Sound(tr)')
      <3>1. \A k \in JobsOf(tr') : GoOn(k, 1) \in Seq(Sound(tr'))
        BY GoOnSound
      <3>2. Sound(tr') = Sound(tr)'
        BY <1>8, GroupsSame DEF Sound
      <3> QED
        BY <2>4, <3>1, <3>2
    <2>8. << >> \in Seq(Sound(tr)')
      OBVIOUS
    <2>9. calls' \in Seq(Sound(tr)')
      <3>1. PICK x : x = IF t \notin InList(tr.jobs[v]) THEN GoOn(<<v, t>>, 1) ELSE <<>>
        OBVIOUS
      <3>2. x \in Seq(Sound(tr)')
        BY <2>1, <2>7, <2>8, <3>1
      <3>3. calls' = x \o rest
        BY <1>12, <3>1
      <3> QED
        BY <2>6, <3>2, <3>3
    <2>10. tr' = WithJob(tr, j, f.job, g.matters, g.conflicts)
      BY <1>12, <2>1
    <2>11. visit' \in SUBSET Unit
      BY <1>8 DEF TInv, TypeOK
    <2> QED
      BY Zenon, <1>6, <1>8, <1>12, <2>2, <2>3, <2>5, <2>9, <2>10, <2>11, JobAdded
  <1> QED
    BY <1>9, <1>10, <1>11, <1>12

LEMMA BuildInvariant ==
    ASSUME FiniteSetFacts, TInv, Build PROVE TInv'
  <1>1. phase \in Building /\ calls # << >>
    BY Zenon DEF Build, Building
  <1>2. CASE NextGroup
    BY <1>1, <1>2, NextGroupInvariant
  <1>3. ASSUME NEW v \in Unit, AddDependency(v) PROVE TInv'
    BY <1>1, <1>3, AddDependencyInvariant
  <1> QED
    BY Zenon, <1>2, <1>3 DEF Build

LEMMA BuiltInvariant ==
    ASSUME TInv, Built \/ OthersStopped PROVE TInv'
  <1>1. /\ UNCHANGED <<dep, ustate, installed, mode, anchor, tr, calls, walk, seen, nreq>>
        /\ visit' \in SUBSET Unit
        /\ calls = << >> /\ phase \in Building
        /\ phase' = "mark" \/ (phase' = "stop others" /\ mode \in {"isolate", "triggering"})
    BY Zenon DEF Built, OthersStopped, InverseDep, Building, TInv, TypeOK
  <1>2. TypeOK'
    BY Zenon, <1>1 DEF TInv, TypeOK, Phase
  <1>3. << >> \in Seq(Sound(tr)')
    OBVIOUS
  <1>4. CallsOK'
    BY Zenon, <1>1, <1>3 DEF CallsOK
  <1>5. Staged'
    BY Zenon, <1>1 DEF TInv, Staged, AnchorKept, Building, Marking, Merged
  <1>6. WellFormed(tr')
    BY Zenon, <1>1 DEF TInv
  <1> QED
    BY <1>2, <1>4, <1>5, <1>6 DEF TInv

LEMMA StopOtherInvariant ==
    ASSUME FiniteSetFacts, TInv, NEW u \in Unit, StopOther(u) PROVE TInv'
  <1>1. /\ UNCHANGED <<dep, ustate, installed, phase, mode, anchor, walk, seen, nreq>>
        /\ visit' = visit \ {u} /\ phase = "stop others" /\ calls = << >>
        /\ \/ UNCHANGED <<tr, calls>>
           \/ tr' = WithJob(tr, <<u, "stop">>, anchor, TRUE, FALSE) /\ calls' = GoOn(<<u, "stop">>, 1)
    BY Zenon DEF StopOther
  <1>2. visit' \in SUBSET Unit
    BY Zenon, <1>1 DEF TInv, TypeOK
  <1>3. phase \in Building /\ anchor \in JobsOf(tr) /\ anchor[2] \in {"start", "stop"}
    BY Zenon, <1>1 DEF TInv, Staged, AnchorKept, Building
  <1>4. CASE UNCHANGED <<tr, calls>>
    <2>1. TypeOK'
      BY Zenon, <1>1, <1>2, <1>4 DEF TInv, TypeOK
    <2>2. << >> \in Seq(Sound(tr)')
      OBVIOUS
    <2>3. CallsOK' /\ Staged' /\ WellFormed(tr')
      BY Zenon, <1>1, <1>4, <2>2 DEF TInv, CallsOK, Staged, AnchorKept
    <2> QED
      BY <2>1, <2>3 DEF TInv
  <1>5. CASE tr' = WithJob(tr, <<u, "stop">>, anchor, TRUE, FALSE) /\ calls' = GoOn(<<u, "stop">>, 1)
    <2>1. PICK j : j = <<u, "stop">>
      BY Zenon
    <2>2. j \in TJob /\ j[2] = "stop"
      BY <2>1 DEF TJob, TransactionType, MergingType
    <2>3. tr' = WithJob(tr, j, anchor, TRUE, FALSE) /\ calls' = GoOn(j, 1)
      BY <1>5, <2>1
    <2>4. JobsOf(tr') = JobsOf(tr) \cup {j}
      <3>1. PICK m, c : m = TRUE /\ c = FALSE
        BY Zenon
      <3>3. m \in BOOLEAN /\ c \in BOOLEAN /\ WellFormed(tr) /\ anchor \in JobsOf(tr)
        BY Zenon, <1>3, <3>1 DEF TInv
      <3>2. JobsOf(WithJob(tr, j, anchor, m, c)) = JobsOf(tr) \cup {j}
        BY <2>2, <3>3, WithJobIs
      <3> QED
        BY Zenon, <2>3, <3>1, <3>2
    <2>5. calls' \in Seq(Sound(tr)')
      <3>1. \A k \in JobsOf(tr') : GoOn(k, 1) \in Seq(Sound(tr'))
        BY GoOnSound
      <3>0. dep' = dep
        BY Zenon, <1>1
      <3>2. Sound(tr') = Sound(tr)'
        BY <3>0, GroupsSame DEF Sound
      <3> QED
        BY Zenon, <2>3, <2>4, <3>1, <3>2
    <2>6. j[2] \in {"reload", "nop"} <=> anchor[2] \in {"reload", "nop"}
      BY <1>3, <2>2
    <2> QED
      BY Zenon, <1>1, <1>2, <1>3, <2>2, <2>3, <2>5, <2>6, JobAdded
  <1> QED
    BY Zenon, <1>1, <1>4, <1>5

LEMMA MarkInvariant ==
    ASSUME FiniteSetFacts, TInv, Mark PROVE TInv'
  <1>1. /\ phase = "mark" /\ tr' = Marked(tr) /\ phase' \in {"minimize", "redundant"}
        /\ UNCHANGED <<dep, ustate, installed, mode, anchor, calls, visit, walk, seen, nreq>>
    BY DEF Mark
  <1>2. WellFormed(tr) /\ anchor \in JobsOf(tr) /\ calls = << >> /\ OneKind(tr)
    BY <1>1 DEF TInv, Staged, AnchorKept, CallsOK, Building, Merged
  <1>3. /\ WellFormed(tr') /\ JobsOf(tr') = JobsOf(tr) /\ anchor \in tr'.matter /\ ClosedMarks(tr')
    BY Zenon, <1>1, <1>2, MarkedIs
  <1>4. TypeOK'
    BY Zenon, <1>1, <1>3 DEF TInv, TypeOK, WellFormed, Phase
  <1>5. << >> \in Seq(Sound(tr)')
    OBVIOUS
  <1>6. CallsOK'
    BY <1>1, <1>2, <1>5 DEF CallsOK
  <1>7. OneKind(tr')
    BY <1>2, <1>3 DEF OneKind
  <1>8. Staged'
    BY Zenon, <1>1, <1>2, <1>3, <1>7 DEF Staged, AnchorKept, Building, Marking, Merged
  <1> QED
    BY <1>3, <1>4, <1>6, <1>8 DEF TInv

\* A step that deletes jobs.
LEMMA JobsDeleted ==
    ASSUME FiniteSetFacts, TInv, NEW X, tr' = Without(tr, X), anchor \notin X,
           \/ phase \in Marking /\ phase' \in Marking
           \/ phase \in Merged /\ phase' \in Merged,
           UNCHANGED <<dep, ustate, installed, mode, anchor, calls, visit, nreq>>,
           walk' \in Seq(WalkStep), seen' \in SUBSET Unit
    PROVE  TInv'
  <1>1. WellFormed(tr) /\ anchor \in JobsOf(tr) /\ calls = << >>
    BY Zenon DEF TInv, Staged, AnchorKept, CallsOK, Building, Merged, Marking
  <1>2. /\ JobsOf(tr') = JobsOf(tr) \ X /\ tr'.matter = tr.matter \ X
        /\ \A u \in Unit : Len(tr'.jobs[u]) <= Len(tr.jobs[u])
    BY <1>1, WithoutJobs DEF WellFormed
  <1>3. WellFormed(tr') /\ (ClosedMarks(tr) => ClosedMarks(tr'))
    BY <1>1, WithoutWellFormed
  <1>4. TypeOK'
    BY Zenon, <1>3 DEF TInv, TypeOK, WellFormed, Phase, Marking, Merged
  <1>5. << >> \in Seq(Sound(tr)')
    OBVIOUS
  <1>6. CallsOK'
    BY <1>1, <1>5 DEF CallsOK
  <1>7. OneKind(tr) => OneKind(tr')
    BY <1>2 DEF OneKind
  <1>8. anchor' \in JobsOf(tr')
    BY <1>1, <1>2
  <1>9. CASE phase \in Marking /\ phase' \in Marking
    BY Zenon, <1>2, <1>3, <1>7, <1>8, <1>4, <1>6, <1>9 DEF TInv, Staged, AnchorKept, Building, Marking, Merged
  <1>10. CASE phase \in Merged /\ phase' \in Merged
    <2>1. \A u \in Unit : Len(tr'.jobs[u]) <= 1
      <3>1. \A u \in Unit : Len(tr.jobs[u]) <= 1
        BY Zenon, <1>10 DEF TInv, Staged
      <3>2. \A u \in Unit : tr.jobs[u] \in Seq(TransactionType) /\ tr'.jobs[u] \in Seq(TransactionType)
        BY <1>1, <1>3 DEF WellFormed, Tr
      <3>3. \A u \in Unit : Len(tr.jobs[u]) \in Nat /\ Len(tr'.jobs[u]) \in Nat
        BY <3>2
      <3> QED
        BY <1>2, <3>1, <3>3
    <2> QED
      BY Zenon, <1>3, <1>8, <1>4, <1>6, <1>10, <2>1 DEF TInv, Staged, AnchorKept, Building, Marking, Merged
  <1> QED
    BY <1>9, <1>10

LEMMA MinimizeInvariant ==
    ASSUME FiniteSetFacts, TInv, Minimize PROVE TInv'
  <1>1. /\ phase = "minimize" /\ tr' = Minimized(tr) /\ phase' = "redundant"
        /\ UNCHANGED <<dep, ustate, installed, mode, anchor, calls, visit, walk, seen, nreq>>
    BY DEF Minimize
  <1>2. PICK S : /\ S \subseteq JobsOf(tr) \ tr.matter
                 /\ tr' = DeleteWithDependents(tr, S)
    BY <1>1 DEF Minimized
  <1>3. WellFormed(tr) /\ ClosedMarks(tr) /\ anchor \in tr.matter
    BY <1>1 DEF TInv, Staged, Marking
  <1>4. PICK X : Deletes(tr, S, X) /\ X \cap tr.matter = {}
    BY <1>2, <1>3, DeletedSafe
  <1>5. tr' = Without(tr, X) /\ anchor \notin X
    BY <1>2, <1>3, <1>4 DEF Deletes
  <1>6. phase \in Marking /\ phase' \in Marking
    BY <1>1 DEF Marking
  <1> QED
    BY <1>1, <1>5, <1>6, JobsDeleted DEF TInv, TypeOK

LEMMA DropRedundantInvariant ==
    ASSUME FiniteSetFacts, TInv, DropRedundant PROVE TInv'
  <1>1. /\ phase \in {"redundant", "redundant again"} /\ tr' = WithoutRedundant(tr)
        /\ phase' = IF phase = "redundant" THEN "gc before order" ELSE "activate"
        /\ UNCHANGED <<dep, ustate, installed, mode, anchor, calls, visit, walk, seen, nreq>>
    BY Zenon DEF DropRedundant
  <1>2. anchor \in JobsOf(tr) /\ anchor \in TJob
    BY Zenon, <1>1 DEF TInv, Staged, AnchorKept, JobsOf
  <1> DEFINE Keep(j) == \/ j = anchor
                        \/ ~job_type_is_redundant(j[2], ustate[j[1]])
                        \/ /\ installed[j[1]] # None
                           /\ job_type_is_conflicting(j[2], installed[j[1]].type)
             X == {j \in JobsOf(tr) : \A x \in InList(tr.jobs[j[1]]) : ~Keep(<<j[1], x>>)}
  <1>3. tr' = Without(tr, X)
    BY Zenon, <1>1 DEF WithoutRedundant
  <1>4. anchor \notin X
    <2>1. anchor[2] \in InList(tr.jobs[anchor[1]]) /\ anchor = <<anchor[1], anchor[2]>>
      BY <1>2 DEF JobsOf, TJob
    <2> QED
      BY <2>1
  <1> HIDE DEF X
  <1>5. \/ phase \in Marking /\ phase' \in Marking
        \/ phase \in Merged /\ phase' \in Merged
    BY Zenon, <1>1 DEF Marking, Merged
  <1> QED
    BY Zenon, <1>1, <1>3, <1>4, <1>5, JobsDeleted DEF TInv, TypeOK

\* A step that only goes on to another phase, or goes on walking.
LEMMA PhaseStep ==
    ASSUME TInv, phase \in Marking, phase' \in Marking,
           UNCHANGED <<dep, ustate, installed, mode, anchor, tr, calls, visit, nreq>>,
           walk' \in Seq(WalkStep), seen' \in SUBSET Unit
    PROVE  TInv'
  <1>1. calls = << >>
    BY Zenon DEF TInv, CallsOK, Marking, Building
  <1>2. TypeOK'
    BY Zenon DEF TInv, TypeOK, Marking, Phase
  <1>3. << >> \in Seq(Sound(tr)')
    OBVIOUS
  <1>4. CallsOK'
    BY <1>1, <1>3 DEF CallsOK
  <1>5. Staged'
    BY Zenon DEF TInv, Staged, AnchorKept, Building, Marking, Merged
  <1>6. WellFormed(tr')
    BY DEF TInv
  <1> QED
    BY <1>2, <1>4, <1>5, <1>6 DEF TInv

LEMMA CollectGarbageInvariant ==
    ASSUME FiniteSetFacts, TInv, CollectGarbage PROVE TInv'
  <1>1. /\ phase \in {"gc before order", "gc before merge"}
        /\ \/ (\E j \in Garbage(tr) : tr' = DeleteWithDependents(tr, {j})) /\ UNCHANGED phase
           \/ phase' \in {"order", "merge"} /\ UNCHANGED tr
        /\ UNCHANGED <<dep, ustate, installed, mode, anchor, calls, visit, walk, seen, nreq>>
    BY Zenon DEF CollectGarbage
  <1>2. walk' \in Seq(WalkStep) /\ seen' \in SUBSET Unit
    BY Zenon, <1>1 DEF TInv, TypeOK
  <1>3. CASE phase' \in {"order", "merge"} /\ UNCHANGED tr
    <2>1. phase \in Marking /\ phase' \in Marking
      BY Zenon, <1>1, <1>3 DEF Marking
    <2> QED
      BY Zenon, <1>1, <1>2, <1>3, <2>1, PhaseStep
  <1>4. ASSUME NEW j \in Garbage(tr), tr' = DeleteWithDependents(tr, {j}), UNCHANGED phase PROVE TInv'
    <2>1. j # anchor /\ \A l \in tr.links : l.object # j
      BY DEF Garbage
    <2>2. WellFormed(tr) /\ Upward(tr, {j})
      BY <2>1 DEF TInv, Upward
    <2>3. PICK C : C = {j}
      BY Zenon
    <2>4. PICK X : Deletes(tr, C, X) /\ X \subseteq C
      BY <2>2, <2>3, DeletedIs
    <2>5. tr' = Without(tr, X) /\ anchor \notin X
      BY <1>4, <2>1, <2>3, <2>4 DEF Deletes
    <2>6. phase \in Marking /\ phase' \in Marking
      BY Zenon, <1>1, <1>4 DEF Marking
    <2> QED
      BY Zenon, <1>1, <1>2, <2>5, <2>6, JobsDeleted
  <1> QED
    BY Zenon, <1>1, <1>3, <1>4

\* The jobs of S go, with what needs them; none of them matters.
LEMMA UnneededDeleted ==
    ASSUME FiniteSetFacts, TInv, phase \in Marking, phase' \in Marking, NEW S, S \cap tr.matter = {},
           tr' = DeleteWithDependents(tr, S),
           UNCHANGED <<dep, ustate, installed, mode, anchor, calls, visit, nreq>>,
           walk' \in Seq(WalkStep), seen' \in SUBSET Unit
    PROVE  TInv'
  <1>1. WellFormed(tr) /\ ClosedMarks(tr) /\ anchor \in tr.matter
    BY Zenon DEF TInv, Staged
  <1>2. PICK X : Deletes(tr, S, X) /\ X \cap tr.matter = {}
    BY <1>1, DeletedSafe
  <1>3. tr' = Without(tr, X) /\ anchor \notin X
    BY <1>1, <1>2 DEF Deletes
  <1> QED
    BY <1>3, JobsDeleted

LEMMA FollowersAreUnits ==
    ASSUME NEW u, NEW dir PROVE Followers(u, dir) \subseteq Unit
  BY DEF Followers, DepsOf, InverseDep

LEMMA EnterTyped ==
    ASSUME NEW u \in Unit PROVE Enter(u) \in Seq(WalkStep)
  <1>1. PICK w : w = [unit |-> u, dir |-> "before", left |-> Followers(u, "before")]
    BY Zenon
  <1>2. w \in WalkStep
    BY <1>1, FollowersAreUnits DEF WalkStep
  <1>3. Enter(u) = <<w>>
    BY <1>1 DEF Enter
  <1> QED
    BY <1>2, <1>3

LEMMA WalkToInvariant ==
    ASSUME FiniteSetFacts, TInv, phase = "order", walk # << >>, NEW v \in Unit, WalkTo(v),
           UNCHANGED <<dep, ustate, installed, mode, calls, visit, nreq>>
    PROVE  TInv'
  <1>1. PICK w : w = Head(walk)
    OBVIOUS
  <1>2. PICK rest : rest = <<[w EXCEPT !.left = @ \ {v}]>> \o Tail(walk)
    BY Zenon
  <1>3. walk \in Seq(WalkStep) /\ seen \in SUBSET Unit
    BY DEF TInv, TypeOK
  <1>4. w \in WalkStep /\ Tail(walk) \in Seq(WalkStep)
    BY <1>1, <1>3
  <1>5. rest \in Seq(WalkStep)
    <2>1. [w EXCEPT !.left = @ \ {v}] \in WalkStep
      BY <1>4 DEF WalkStep
    <2> QED
      BY <1>2, <1>4, <2>1
  <1> DEFINE at == {i \in DOMAIN walk : walk[i].unit = v}
             n == CHOOSE i \in at : TRUE
             B == {i \in 1 .. n : Breakable(walk[i].unit)}
             d == walk[CHOOSE i \in B : \A k \in B : i <= k].unit
  <1>6. \/ walk' = rest /\ UNCHANGED <<phase, anchor, tr, seen>>
        \/ walk' = Enter(v) \o rest /\ UNCHANGED <<phase, anchor, tr, seen>>
        \/ at # {} /\ walk' = << >> /\ seen' = {} /\ Abort
        \/ /\ at # {} /\ walk' = << >> /\ seen' = {} /\ B # {}
           /\ tr' = DeleteWithDependents(tr, {j \in JobsOf(tr) : j[1] = d})
           /\ phase' = "gc before order" /\ UNCHANGED anchor
    BY Zenon, <1>1, <1>2 DEF WalkTo
  <1>7. << >> \in Seq(WalkStep)
    OBVIOUS
  <1>8. phase \in Marking
    BY DEF Marking
  <1>9. CASE walk' = rest /\ UNCHANGED <<phase, anchor, tr, seen>>
    BY <1>3, <1>5, <1>8, <1>9, PhaseStep
  <1>10. CASE walk' = Enter(v) \o rest /\ UNCHANGED <<phase, anchor, tr, seen>>
    <2>1. Enter(v) \o rest \in Seq(WalkStep)
      BY <1>5, EnterTyped
    <2> QED
      BY <1>3, <1>8, <1>10, <2>1, PhaseStep
  <1>11. CASE at # {} /\ walk' = << >> /\ seen' = {} /\ Abort
    <2>1. calls' = << >>
      BY <1>8 DEF TInv, CallsOK, Building, Marking
    <2> QED
      BY <1>11, <2>1, AbortInvariant DEF TInv, TypeOK
  <1>12. CASE /\ at # {} /\ walk' = << >> /\ seen' = {} /\ B # {}
              /\ tr' = DeleteWithDependents(tr, {j \in JobsOf(tr) : j[1] = d})
              /\ phase' = "gc before order" /\ UNCHANGED anchor
    <2>1. PICK S : S = {j \in JobsOf(tr) : j[1] = d}
      BY Zenon
    <2>2. Breakable(d)
      <3>1. n \in at
        BY Zenon, <1>12
      <3>2. n \in Nat
        BY <1>3, <3>1
      <3>3. B \subseteq Nat /\ \A i \in B : Breakable(walk[i].unit)
        BY <3>2
      <3> HIDE DEF B
      <3>4. \E i \in B : \A k \in B : i <= k
        BY Zenon, <1>12, <3>3, LeastNumber
      <3>5. (CHOOSE i \in B : \A k \in B : i <= k) \in B
        BY <3>4
      <3> QED
        BY <3>3, <3>5
    <2>3. S \cap tr.matter = {}
      <3>1. ASSUME NEW j \in S PROVE j \notin tr.matter
        <4> HIDE DEF d
        <4>1. j \in JobsOf(tr) /\ j[1] = d
          BY <2>1
        <4>2. j = <<d, j[2]>> /\ j[2] \in InList(tr.jobs[d])
          BY <4>1 DEF JobsOf, TJob
        <4> QED
          BY <2>2, <4>2 DEF Breakable
      <3> QED
        BY <3>1
    <2>4. tr' = DeleteWithDependents(tr, S) /\ phase' \in Marking
      BY Zenon, <1>12, <2>1 DEF Marking
    <2> QED
      BY Zenon, <1>7, <1>8, <1>12, <2>3, <2>4, UnneededDeleted
  <1> QED
    BY Zenon, <1>6, <1>9, <1>10, <1>11, <1>12

LEMMA VerifyOrderInvariant ==
    ASSUME FiniteSetFacts, TInv, VerifyOrder PROVE TInv'
  <1>1. phase = "order" /\ UNCHANGED <<dep, ustate, installed, mode, calls, visit, nreq>> /\ phase \in Marking
    BY DEF VerifyOrder, Marking
  <1>2. walk \in Seq(WalkStep) /\ seen \in SUBSET Unit
    BY DEF TInv, TypeOK
  <1>3. CASE Ordered
    <2>1. phase' \in Marking /\ seen' \in SUBSET Unit /\ UNCHANGED <<anchor, tr, walk>>
      BY <1>3 DEF Ordered, Marking
    <2> QED
      BY <1>1, <1>2, <2>1, PhaseStep
  <1>4. ASSUME NEW u \in Unit, WalkFrom(u) PROVE TInv'
    <2>1. walk' = Enter(u) /\ UNCHANGED <<phase, anchor, tr, seen>>
      BY <1>4 DEF WalkFrom
    <2> QED
      BY <1>1, <1>2, <2>1, EnterTyped, PhaseStep
  <1>5. CASE walk # << >> /\ WalkOn
    <2>1. PICK w : w = Head(walk)
      OBVIOUS
    <2>2. w \in WalkStep /\ Tail(walk) \in Seq(WalkStep)
      BY <1>2, <1>5, <2>1
    <2>3. PICK x : x = [w EXCEPT !.dir = "after", !.left = Followers(w.unit, "after")]
      OBVIOUS
    <2>4. x \in WalkStep
      BY Zenon, <2>2, <2>3, FollowersAreUnits DEF WalkStep
    <2>5. <<x>> \o Tail(walk) \in Seq(WalkStep)
      BY <2>2, <2>4
    <2>6. /\ UNCHANGED <<phase, anchor, tr>>
          /\ \/ walk' = <<x>> \o Tail(walk) /\ seen' = seen
             \/ walk' = Tail(walk) /\ seen' = seen \cup {w.unit}
      BY <1>5, <2>1, <2>3 DEF WalkOn
    <2>7. walk' \in Seq(WalkStep) /\ seen' \in SUBSET Unit
      BY Zenon, <1>2, <2>2, <2>5, <2>6 DEF WalkStep
    <2> QED
      BY <1>1, <2>6, <2>7, PhaseStep
  <1>6. ASSUME walk # << >>, NEW v \in Unit, WalkTo(v) PROVE TInv'
    BY <1>1, <1>6, WalkToInvariant
  <1> QED
    BY <1>3, <1>4, <1>5, <1>6 DEF VerifyOrder

LEMMA DropUnmergeableInvariant ==
    ASSUME FiniteSetFacts, TInv, NEW u \in Unit, DropUnmergeable(u) PROVE TInv'
  <1>1. PICK j, k, d : d = Dropped(j, k) /\ phase = "merge"
           /\ (IF d = None THEN Abort
               ELSE /\ tr' = DeleteWithDependents(tr, {d})
                    /\ phase' = "gc before merge"
                    /\ UNCHANGED anchor)
           /\ UNCHANGED <<dep, ustate, installed, mode, calls, visit, walk, seen, nreq>>
    BY Zenon DEF DropUnmergeable
  <1>2. phase \in Marking /\ walk' \in Seq(WalkStep) /\ seen' \in SUBSET Unit
    BY Zenon, <1>1 DEF Marking, TInv, TypeOK
  <1>3. CASE d = None
    <2>1. calls' = << >>
      BY Zenon, <1>1, <1>2 DEF TInv, CallsOK, Building, Marking
    <2> QED
      BY <1>1, <1>3, <2>1, AbortInvariant DEF TInv, TypeOK
  <1>4. CASE d # None
    <2>1. d \notin tr.matter
      BY Zenon, <1>1, <1>4 DEF Dropped
    <2>2. PICK S : S = {d}
      BY Zenon
    <2>3. S \cap tr.matter = {} /\ tr' = DeleteWithDependents(tr, S) /\ phase' \in Marking
      BY Zenon, <1>1, <1>4, <2>1, <2>2 DEF Marking
    <2> QED
      BY Zenon, <1>1, <1>2, <1>4, <2>3, UnneededDeleted
  <1> QED
    BY <1>3, <1>4

\* A type of K anywhere in the list, and the merged type is one of K.
LEMMA MergedKeeps ==
    ASSUME FiniteSetFacts, NEW list, NEW s, Len(list) \in Nat \ {0}, NEW M, NEW K, K \subseteq M,
           \A i \in 1 .. Len(list) : list[i] \in M,
           \A a, b \in M : job_type_merge_and_collapse(a, b, s) \in M \cup {NoMerge},
           \A a \in K, b \in M : /\ job_type_merge_and_collapse(a, b, s) \in K \cup {NoMerge}
                                 /\ job_type_merge_and_collapse(b, a, s) \in K \cup {NoMerge},
           NEW i0 \in 1 .. Len(list), list[i0] \in K
    PROVE  MergedType(list, s) \in K \cup {NoMerge}
  <1>1. PICK f : Merges(f, list, s)
    BY Zenon, MergeSteps
  <1>2. /\ MergedType(list, s) = f[Len(list)]
        /\ f[1] = list[1]
        /\ \A i \in 2 .. Len(list) : f[i] = MergeStep(f[i - 1], list[i], s)
    BY <1>1 DEF Merges
  <1> DEFINE Good(n) == f[n] \in M \cup {NoMerge} /\ (i0 <= n => f[n] \in K \cup {NoMerge})
             T == {n \in Nat : n + 1 <= Len(list) => Good(n + 1)}
  <1>3. 0 \in T
    <2>1. Good(1)
      <3>1. i0 <= 1 => i0 = 1
        OBVIOUS
      <3> QED
        BY <1>2, <3>1
    <2> QED
      BY <2>1
  <1>4. ASSUME NEW n \in Nat, n \in T, (n + 1) + 1 <= Len(list)
        PROVE  Good((n + 1) + 1)
    <2>1. /\ (n + 1) + 1 \in 2 .. Len(list) /\ ((n + 1) + 1) - 1 = n + 1 /\ n + 1 <= Len(list)
          /\ (n + 1) + 1 \in 1 .. Len(list)
      BY <1>4
    <2>2. f[(n + 1) + 1] = MergeStep(f[n + 1], list[(n + 1) + 1], s)
      BY <1>2, <2>1
    <2>3. Good(n + 1) /\ list[(n + 1) + 1] \in M
      BY <1>4, <2>1
    <2>4. PICK x, y, z : x = f[n + 1] /\ y = list[(n + 1) + 1] /\ z = f[(n + 1) + 1]
      OBVIOUS
    <2>5. z = MergeStep(x, y, s) /\ x \in M \cup {NoMerge} /\ y \in M
      BY <2>2, <2>3, <2>4
    <2>6. z \in M \cup {NoMerge}
      BY <2>5 DEF MergeStep
    <2>7. ASSUME i0 <= (n + 1) + 1 PROVE z \in K \cup {NoMerge}
      <3>1. CASE i0 <= n + 1
        <4>1. x \in K \cup {NoMerge}
          BY <2>3, <2>4, <3>1
        <4> QED
          BY <2>5, <4>1 DEF MergeStep
      <3>2. CASE ~(i0 <= n + 1)
        <4>1. i0 = (n + 1) + 1
          BY <2>7, <3>2
        <4>2. y \in K
          BY <2>4, <4>1
        <4> QED
          BY <2>5, <4>2 DEF MergeStep
      <3> QED
        BY <3>1, <3>2
    <2> QED
      BY <2>4, <2>6, <2>7
  <1>5. \A n \in Nat : n \in T
    <2> HIDE DEF Good
    <2>1. \A n \in Nat : n \in T => n + 1 \in T
      BY <1>4
    <2> HIDE DEF T
    <2> QED
      BY <1>3, <2>1, SetInduction
  <1>6. Len(list) - 1 \in Nat /\ (Len(list) - 1) + 1 = Len(list) /\ i0 <= Len(list)
    OBVIOUS
  <1>7. Len(list) - 1 \in T
    BY Zenon, <1>5, <1>6
  <1> QED
    BY <1>2, <1>6, <1>7

\* job_merging_table with job_type_collapse().
LEMMA MergeTable ==
    ASSUME NEW a \in MergingType, NEW b \in MergingType, NEW s
    PROVE  /\ a = b => job_type_merge_and_collapse(a, b, s) = a
           /\ a # b /\ "stop" \in {a, b} => job_type_merge_and_collapse(a, b, s) = NoMerge
           /\ a # b /\ "stop" \notin {a, b} /\ "restart" \in {a, b} => job_type_merge_and_collapse(a, b, s) = "restart"
           /\ {a, b} = {"start", "reload"} =>
                 job_type_merge_and_collapse(a, b, s) = IF ActiveOrReloading(s) THEN "reload" ELSE "start"
           /\ {a, b} = {"verify-active", "reload"} => job_type_merge_and_collapse(a, b, s) = "reload"
           /\ {a, b} = {"start", "verify-active"} => job_type_merge_and_collapse(a, b, s) = "start"
           /\ \/ a = b \/ "stop" \in {a, b} \/ "restart" \in {a, b} \/ {a, b} = {"start", "reload"}
              \/ {a, b} = {"verify-active", "reload"} \/ {a, b} = {"start", "verify-active"}
  <1>1. CASE a = "start"
    BY <1>1 DEF MergingType, job_type_merge_and_collapse, job_type_lookup_merge, job_type_collapse, NoMerge
  <1>2. CASE a = "verify-active"
    BY <1>2 DEF MergingType, job_type_merge_and_collapse, job_type_lookup_merge, job_type_collapse, NoMerge
  <1>3. CASE a = "stop"
    BY SMTT(30), <1>3 DEF MergingType, job_type_merge_and_collapse, job_type_lookup_merge, job_type_collapse, NoMerge
  <1>4. CASE a = "reload"
    BY SMTT(30), <1>4 DEF MergingType, job_type_merge_and_collapse, job_type_lookup_merge, job_type_collapse, NoMerge
  <1>5. CASE a = "restart"
    BY <1>5 DEF MergingType, job_type_merge_and_collapse, job_type_lookup_merge, job_type_collapse, NoMerge
  <1> QED
    BY <1>1, <1>2, <1>3, <1>4, <1>5 DEF MergingType

\* What a unit's list of jobs becomes, if it can be merged.
Mergeable(list, s) ==
    /\ list \in Seq(TransactionType) /\ list # << >>
    /\ Len(list) > 1 => "nop" \notin InList(list) /\ MergedType(list, s) # NoMerge

LEMMA MergedFacts ==
    ASSUME FiniteSetFacts, NEW list, NEW s, Mergeable(list, s)
    PROVE  /\ MergedType(list, s) \in TransactionType
           /\ MergedType(list, s) = "stop" <=> "stop" \in InList(list)
           /\ MergedType(list, s) \in {"start", "restart"} => {"start", "restart"} \cap InList(list) # {}
           /\ "start" \in InList(list) /\ "reload" \notin InList(list)
                  => MergedType(list, s) \in {"start", "restart"}
           /\ "restart" \in InList(list) => MergedType(list, s) = "restart"
  <1>0. list \in Seq(TransactionType) /\ Len(list) \in Nat \ {0} /\ DOMAIN list = 1 .. Len(list)
        /\ \A i \in 1 .. Len(list) : list[i] \in TransactionType
    BY DEF Mergeable
  <1>1. \A x : x \in InList(list) <=> \E i \in 1 .. Len(list) : x = list[i]
    BY Zenon, <1>0 DEF InList
  <1>2. CASE Len(list) = 1
    <2>1. PICK f : Merges(f, list, s)
      BY Zenon, <1>0, MergeSteps
    <2>2. MergedType(list, s) = list[1]
      BY <1>2, <2>1 DEF Merges
    <2>3. \A x : x \in InList(list) <=> x = list[1]
      BY <1>1, <1>2
    <2> QED
      BY <1>0, <1>2, <2>2, <2>3
  <1>3. CASE Len(list) # 1
    <2>1. "nop" \notin InList(list) /\ MergedType(list, s) # NoMerge
      BY <1>0, <1>3 DEF Mergeable
    <2>2. \A i \in 1 .. Len(list) : list[i] \in MergingType
      BY <1>0, <1>1, <2>1 DEF TransactionType
    <2>3. \A a, b \in MergingType : job_type_merge_and_collapse(a, b, s) \in MergingType \cup {NoMerge}
      BY MergeTable DEF MergingType
    <2>4. MergedType(list, s) \in MergingType
      <3>1. PICK M : M = MergingType
        OBVIOUS
      <3>2. MergedType(list, s) \in M \cup {NoMerge}
        BY <1>0, <2>2, <2>3, <3>1, MergedWithin
      <3> QED
        BY <2>1, <3>1, <3>2
    <2>5. ASSUME "stop" \in InList(list) PROVE MergedType(list, s) = "stop"
      <3>1. PICK i0 \in 1 .. Len(list) : list[i0] = "stop"
        BY <1>1, <2>5
      <3>2. PICK M, K : M = MergingType /\ K = {"stop"}
        BY Zenon
      <3>3. K \subseteq M /\ list[i0] \in K
        BY <3>1, <3>2 DEF MergingType
      <3>4. \A a \in K, b \in M : /\ job_type_merge_and_collapse(a, b, s) \in K \cup {NoMerge}
                                  /\ job_type_merge_and_collapse(b, a, s) \in K \cup {NoMerge}
        BY <3>2, MergeTable DEF MergingType
      <3>5. MergedType(list, s) \in K \cup {NoMerge}
        BY Zenon, <1>0, <2>2, <2>3, <3>2, <3>3, <3>4, MergedKeeps
      <3> QED
        BY <2>1, <3>2, <3>5
    <2>6. ASSUME "stop" \notin InList(list) PROVE MergedType(list, s) # "stop"
      <3>1. PICK K : K = MergingType \ {"stop"}
        BY Zenon
      <3>2. \A i \in 1 .. Len(list) : list[i] \in K
        BY <1>1, <2>2, <2>6, <3>1
      <3>3. \A a, b \in K : job_type_merge_and_collapse(a, b, s) \in K \cup {NoMerge}
        BY <3>1, MergeTable DEF MergingType
      <3>4. MergedType(list, s) \in K \cup {NoMerge}
        BY <1>0, <3>2, <3>3, MergedWithin
      <3> QED
        BY <2>1, <3>1, <3>4
    <2>7. ASSUME {"start", "restart"} \cap InList(list) = {} PROVE MergedType(list, s) \notin {"start", "restart"}
      <3>1. PICK K : K = MergingType \ {"start", "restart"}
        BY Zenon
      <3>2. \A i \in 1 .. Len(list) : list[i] \in K
        BY <1>1, <2>2, <2>7, <3>1
      <3>3. \A a, b \in K : job_type_merge_and_collapse(a, b, s) \in K \cup {NoMerge}
        BY <3>1, MergeTable DEF MergingType
      <3>4. MergedType(list, s) \in K \cup {NoMerge}
        BY <1>0, <3>2, <3>3, MergedWithin
      <3> QED
        BY <2>1, <3>1, <3>4
    <2>8. ASSUME "start" \in InList(list), "reload" \notin InList(list)
          PROVE  MergedType(list, s) \in {"start", "restart"}
      <3>1. PICK i0 \in 1 .. Len(list) : list[i0] = "start"
        BY <1>1, <2>8
      <3>2. PICK M, K : M = MergingType \ {"reload"} /\ K = {"start", "restart"}
        BY Zenon
      <3>3. K \subseteq M /\ list[i0] \in K
        BY <3>1, <3>2 DEF MergingType
      <3>4. \A a \in K, b \in M : /\ job_type_merge_and_collapse(a, b, s) \in K \cup {NoMerge}
                                  /\ job_type_merge_and_collapse(b, a, s) \in K \cup {NoMerge}
        BY <3>2, MergeTable DEF MergingType
      <3>5. \A a, b \in M : job_type_merge_and_collapse(a, b, s) \in M \cup {NoMerge}
        BY <3>2, MergeTable DEF MergingType
      <3>6. \A i \in 1 .. Len(list) : list[i] \in M
        BY <1>1, <2>2, <2>8, <3>2
      <3>7. MergedType(list, s) \in K \cup {NoMerge}
        BY Zenon, <1>0, <3>3, <3>4, <3>5, <3>6, MergedKeeps
      <3> QED
        BY <2>1, <3>2, <3>7
    <2>9. ASSUME "restart" \in InList(list) PROVE MergedType(list, s) = "restart"
      <3>1. PICK i0 \in 1 .. Len(list) : list[i0] = "restart"
        BY <1>1, <2>9
      <3>2. PICK M, K : M = MergingType /\ K = {"restart"}
        BY Zenon
      <3>3. K \subseteq M /\ list[i0] \in K
        BY <3>1, <3>2 DEF MergingType
      <3>4. \A a \in K, b \in M : /\ job_type_merge_and_collapse(a, b, s) \in K \cup {NoMerge}
                                  /\ job_type_merge_and_collapse(b, a, s) \in K \cup {NoMerge}
        BY <3>2, MergeTable DEF MergingType
      <3>5. MergedType(list, s) \in K \cup {NoMerge}
        BY Zenon, <1>0, <2>2, <2>3, <3>2, <3>3, <3>4, MergedKeeps
      <3> QED
        BY <2>1, <3>2, <3>5
    <2> QED
      BY <2>4, <2>5, <2>6, <2>7, <2>8, <2>9 DEF TransactionType
  <1> QED
    BY <1>2, <1>3

\* The job that takes the place of j.
MergedTo(u) == MergedType(tr.jobs[u], ustate[u])

Renamed(j) == <<j[1], MergedTo(j[1])>>

LEMMA ListOf ==
    ASSUME NEW t \in Tr, NEW u \in Unit
    PROVE  /\ t.jobs[u] \in Seq(TransactionType)
           /\ HasJob(t, u) => Len(t.jobs[u]) >= 1 /\ Head(t.jobs[u]) = t.jobs[u][1]
                              /\ Head(t.jobs[u]) \in InList(t.jobs[u])
           /\ \A x : x \in InList(t.jobs[u]) <=> <<u, x>> \in JobsOf(t)
           /\ \A x \in InList(t.jobs[u]) : HasJob(t, u) /\ x \in TransactionType
  <1>1. PICK s : s = t.jobs[u]
    OBVIOUS
  <1>2. s \in Seq(TransactionType)
    BY <1>1 DEF Tr
  <1>3. DOMAIN s = 1 .. Len(s) /\ Len(s) \in Nat /\ \A i \in 1 .. Len(s) : s[i] \in TransactionType
    BY <1>2
  <1>4. s # << >> => Len(s) >= 1 /\ Head(s) = s[1]
    BY <1>2
  <1>5. s # << >> => Head(s) \in InList(s)
    <2>1. s # << >> => 1 \in DOMAIN s
      BY <1>3, <1>4
    <2> QED
      BY <1>4, <2>1 DEF InList
  <1>6. \A x \in InList(s) : s # << >> /\ x \in TransactionType
    <2>1. ASSUME NEW x \in InList(s) PROVE s # << >> /\ x \in TransactionType
      <3>1. PICK i \in DOMAIN s : x = s[i]
        BY DEF InList
      <3> QED
        BY <1>3, <3>1
    <2> QED
      BY <2>1
  <1>7. ASSUME NEW x PROVE x \in InList(s) <=> <<u, x>> \in JobsOf(t)
    <2>0. PICK j : j = <<u, x>>
      BY Zenon
    <2>1. j = <<u, x>> /\ j[1] = u /\ j[2] = x
      BY <2>0
    <2>2. x \in InList(s) => j \in TJob
      BY <1>6, <2>1 DEF TJob
    <2> QED
      BY <1>1, <2>1, <2>2 DEF JobsOf
  <1> QED
    BY <1>1, <1>2, <1>4, <1>5, <1>6, <1>7 DEF HasJob

LEMMA MergeJobsIs ==
    ASSUME FiniteSetFacts, TInv, MergeJobs
    PROVE  /\ phase = "merge" /\ phase' = "redundant again" /\ anchor' = Renamed(anchor)
           /\ UNCHANGED <<dep, ustate, installed, mode, calls, visit, walk, seen, nreq>>
           /\ \A u \in Unit : HasJob(tr, u) => Mergeable(tr.jobs[u], ustate[u])
           /\ \A u \in Unit : tr'.jobs[u] = IF HasJob(tr, u) THEN <<MergedTo(u)>> ELSE << >>
           /\ JobsOf(tr') = {Renamed(j) : j \in JobsOf(tr)}
           /\ WellFormed(tr')
  <1> DEFINE T == [u \in Unit |-> IF HasJob(tr, u) THEN MergedType(tr.jobs[u], ustate[u]) ELSE None]
             R(j) == <<j[1], T[j[1]]>>
  <1>1. /\ phase = "merge" /\ MergeAsserts /\ \A u \in Unit : ~Unmergeable(u)
        /\ tr' = [jobs |-> [u \in Unit |-> IF HasJob(tr, u) THEN <<T[u]>> ELSE <<>>],
                  links |-> {[l EXCEPT !.subject = R(@), !.object = R(@)] : l \in tr.links},
                  matter |-> {R(j) : j \in tr.matter}]
        /\ anchor' = R(anchor)
        /\ phase' = "redundant again"
        /\ UNCHANGED <<dep, ustate, installed, mode, calls, visit, walk, seen, nreq>>
    BY Zenon DEF MergeJobs
  <1>2. tr \in Tr /\ WellFormed(tr) /\ anchor \in JobsOf(tr)
    BY Zenon, <1>1 DEF TInv, WellFormed, Staged, AnchorKept
  <1>3. \A u \in Unit : HasJob(tr, u) => T[u] = MergedTo(u)
    BY DEF MergedTo
  <1>4. ASSUME NEW j \in JobsOf(tr) PROVE R(j) = Renamed(j) /\ j[1] \in Unit /\ HasJob(tr, j[1])
    <2>1. j[1] \in Unit /\ j[2] \in InList(tr.jobs[j[1]])
      BY DEF JobsOf, TJob
    <2>2. HasJob(tr, j[1])
      BY Zenon, <1>2, <2>1, ListOf
    <2> QED
      BY <1>3, <2>1, <2>2 DEF Renamed
  <1>5. ASSUME NEW u \in Unit, HasJob(tr, u) PROVE Mergeable(tr.jobs[u], ustate[u])
    <2>1. tr.jobs[u] \in Seq(TransactionType) /\ tr.jobs[u] # << >>
      BY <1>2, <1>5, ListOf DEF HasJob
    <2> QED
      BY Zenon, <1>1, <2>1 DEF MergeAsserts, Unmergeable, Mergeable
  <1>6. \A u \in Unit : HasJob(tr, u) => MergedTo(u) \in TransactionType
    BY <1>5, MergedFacts DEF MergedTo
  <1>7. \A u \in Unit : tr'.jobs[u] = IF HasJob(tr, u) THEN <<MergedTo(u)>> ELSE << >>
    BY Zenon, <1>1, <1>3
  <1>8. tr'.jobs \in [Unit -> Seq(TransactionType)]
    <2>1. << >> \in Seq(TransactionType)
      OBVIOUS
    <2>2. \A u \in Unit : tr'.jobs[u] \in Seq(TransactionType)
      <3>1. ASSUME NEW u \in Unit PROVE tr'.jobs[u] \in Seq(TransactionType)
        <4>1. CASE HasJob(tr, u)
          <5>1. PICK m : m = MergedTo(u) /\ m \in TransactionType
            BY <1>6, <4>1
          <5>2. <<m>> \in Seq(TransactionType)
            BY <5>1
          <5> QED
            BY Zenon, <1>7, <4>1, <5>1, <5>2
        <4>2. CASE ~HasJob(tr, u)
          BY Zenon, <1>7, <2>1, <4>2
        <4> QED
          BY <4>1, <4>2
      <3> QED
        BY <3>1
    <2>3. tr'.jobs = [u \in Unit |-> tr'.jobs[u]]
      BY Zenon, <1>1
    <2> HIDE DEF T
    <2> QED
      BY <2>2, <2>3
  <1>9. \A j \in JobsOf(tr) : Renamed(j) \in TJob
    BY Zenon, <1>4, <1>6 DEF Renamed, TJob
  <1>10. /\ tr'.links = {[l EXCEPT !.subject = R(@), !.object = R(@)] : l \in tr.links}
         /\ tr'.matter = {R(j) : j \in tr.matter}
         /\ tr' = [jobs |-> tr'.jobs, links |-> tr'.links, matter |-> tr'.matter]
    BY Zenon, <1>1
  <1> HIDE DEF T
  <1>11. ASSUME NEW k \in tr'.links
         PROVE  \E l \in tr.links : /\ k \in Link /\ k.subject = Renamed(l.subject) /\ k.object = Renamed(l.object)
                                    /\ k.matters = l.matters /\ k.conflicts = l.conflicts
    <2>1. PICK l \in tr.links : k = [l EXCEPT !.subject = R(@), !.object = R(@)]
      BY Zenon, <1>10
    <2>2. l \in Link /\ l.subject \in JobsOf(tr) /\ l.object \in JobsOf(tr)
      BY <1>2 DEF WellFormed, Tr
    <2>3. k.subject = R(l.subject) /\ k.object = R(l.object) /\ k.matters = l.matters /\ k.conflicts = l.conflicts
          /\ k = [subject |-> k.subject, object |-> k.object, matters |-> k.matters, conflicts |-> k.conflicts]
      BY Zenon, <2>1, <2>2 DEF Link
    <2>4. k.subject = Renamed(l.subject) /\ k.object = Renamed(l.object) /\ k.subject \in TJob /\ k.object \in TJob
      BY <1>4, <1>9, <2>2, <2>3
    <2>5. k \in Link
      BY <2>2, <2>3, <2>4 DEF Link
    <2> QED
      BY <2>3, <2>4, <2>5
  <1>12. tr'.links \subseteq Link
    BY <1>11
  <1>13. tr'.matter \subseteq {Renamed(j) : j \in JobsOf(tr)}
    <2>1. tr.matter \subseteq JobsOf(tr)
      BY <1>2 DEF WellFormed
    <2> QED
      BY Zenon, <1>4, <1>10, <2>1
  <1>14. tr' \in Tr
    <2>1. tr'.matter \subseteq TJob
      BY <1>9, <1>13
    <2> QED
      BY Zenon, <1>8, <1>10, <1>12, <2>1 DEF Tr
  <1>15. JobsOf(tr') = {Renamed(j) : j \in JobsOf(tr)}
    <2>1. ASSUME NEW j \in JobsOf(tr) PROVE Renamed(j) \in JobsOf(tr')
      <3>1. tr'.jobs[j[1]] = <<MergedTo(j[1])>> /\ j[1] \in Unit
        BY Zenon, <1>4, <1>7
      <3>2. PICK m : m = MergedTo(j[1])
        OBVIOUS
      <3>3. m \in InList(<<m>>)
        <4>1. 1 \in DOMAIN <<m>> /\ <<m>>[1] = m
          OBVIOUS
        <4> QED
          BY <4>1 DEF InList
      <3>4. m \in InList(tr'.jobs[j[1]])
        BY <3>1, <3>2, <3>3
      <3> QED
        BY <1>14, <3>1, <3>2, <3>4, ListOf DEF Renamed
    <2>2. ASSUME NEW k \in JobsOf(tr') PROVE \E j \in JobsOf(tr) : k = Renamed(j)
      <3>1. PICK u, x : u = k[1] /\ x = k[2] /\ k = <<u, x>> /\ u \in Unit /\ x \in InList(tr'.jobs[u])
        BY DEF JobsOf, TJob
      <3>2. HasJob(tr', u)
        BY <1>14, <3>1, ListOf
      <3>3. HasJob(tr, u) /\ tr'.jobs[u] = <<MergedTo(u)>>
        BY Zenon, <1>7, <3>1, <3>2 DEF HasJob
      <3>4. x = MergedTo(u)
        <4>1. PICK m : m = MergedTo(u)
          OBVIOUS
        <4>2. DOMAIN <<m>> = {1} /\ <<m>>[1] = m
          OBVIOUS
        <4>3. x \in InList(<<m>>)
          BY <3>1, <3>3, <4>1
        <4> QED
          BY <4>1, <4>2, <4>3 DEF InList
      <3>5. PICK y : y = Head(tr.jobs[u]) /\ <<u, y>> \in JobsOf(tr)
        BY Zenon, <1>2, <3>1, <3>3, ListOf
      <3>6. Renamed(<<u, y>>) = k
        BY <3>1, <3>4 DEF Renamed
      <3> QED
        BY <3>5, <3>6
    <2> QED
      BY <2>1, <2>2
  <1>16. IsFiniteSet(tr'.links)
    <2>1. PICK f : f = [l \in tr.links |-> [l EXCEPT !.subject = R(@), !.object = R(@)]]
      BY Zenon
    <2>2. tr'.links = {f[l] : l \in tr.links}
      BY Zenon, <1>10, <2>1
    <2> QED
      BY <1>2, <2>2, FiniteImage DEF WellFormed
  <1>17. WellFormed(tr')
    <2>1. \A k \in tr'.links : k.subject \in JobsOf(tr') /\ k.object \in JobsOf(tr')
      <3>1. ASSUME NEW k \in tr'.links PROVE k.subject \in JobsOf(tr') /\ k.object \in JobsOf(tr')
        <4>1. PICK l \in tr.links : k.subject = Renamed(l.subject) /\ k.object = Renamed(l.object)
          BY <1>11
        <4> QED
          BY <1>2, <1>15, <4>1 DEF WellFormed
      <3> QED
        BY <3>1
    <2> QED
      BY <1>13, <1>14, <1>15, <1>16, <2>1 DEF WellFormed
  <1>18. anchor' = Renamed(anchor)
    BY Zenon, <1>1, <1>2, <1>4 DEF T
  <1> QED
    BY Zenon, <1>1, <1>5, <1>7, <1>15, <1>17, <1>18

LEMMA MergeJobsInvariant ==
    ASSUME FiniteSetFacts, TInv, MergeJobs PROVE TInv'
  <1>1. /\ phase = "merge" /\ phase' = "redundant again" /\ anchor' = Renamed(anchor)
        /\ UNCHANGED <<dep, ustate, installed, mode, calls, visit, walk, seen, nreq>>
        /\ \A u \in Unit : tr'.jobs[u] = IF HasJob(tr, u) THEN <<MergedTo(u)>> ELSE << >>
        /\ JobsOf(tr') = {Renamed(j) : j \in JobsOf(tr)}
        /\ WellFormed(tr')
    BY Zenon, MergeJobsIs
  <1>2. anchor \in JobsOf(tr) /\ calls = << >>
    BY Zenon, <1>1 DEF TInv, Staged, AnchorKept, CallsOK, Building
  <1>3. anchor' \in JobsOf(tr')
    BY Zenon, <1>1, <1>2
  <1>4. \A u \in Unit : Len(tr'.jobs[u]) <= 1
    <2>1. ASSUME NEW u \in Unit PROVE Len(tr'.jobs[u]) <= 1
      <3>1. PICK m, s : m = MergedTo(u) /\ s = tr'.jobs[u]
        OBVIOUS
      <3>2. s = <<m>> \/ s = << >>
        BY Zenon, <1>1, <3>1
      <3>3. Len(s) <= 1
        <4>1. Len(<<m>>) = 1 /\ Len(<< >>) = 0
          OBVIOUS
        <4>2. CASE s = <<m>>
          BY <4>1, <4>2
        <4>3. CASE s = << >>
          BY <4>1, <4>3
        <4> QED
          BY Zenon, <3>2, <4>2, <4>3
      <3> QED
        BY <3>1, <3>3
    <2> QED
      BY <2>1
  <1>5. anchor' \in TJob
    BY <1>3 DEF JobsOf
  <1>6. TypeOK'
    BY Zenon, <1>1, <1>5 DEF TInv, TypeOK, Phase, WellFormed
  <1>7. << >> \in Seq(Sound(tr)')
    OBVIOUS
  <1>8. CallsOK'
    BY Zenon, <1>1, <1>2, <1>7 DEF CallsOK
  <1>9. Staged'
    BY Zenon, <1>1, <1>3, <1>4 DEF Staged, AnchorKept, Building, Marking, Merged
  <1> QED
    BY Zenon, <1>1, <1>6, <1>8, <1>9 DEF TInv

LEMMA MergeableIff ==
    ASSUME NEW a \in MergingType, NEW b \in MergingType
    PROVE  job_type_is_conflicting(a, b) <=> a # b /\ "stop" \in {a, b}
  BY DEF job_type_is_conflicting, job_type_is_mergeable, job_type_lookup_merge, MergingType, NoMerge

\* What transaction_apply() leaves for a unit.
LEMMA AfterApplyIs ==
    ASSUME TInv, NEW u \in Unit
    PROVE  /\ AfterApply(u) \in InstalledJob \cup {None}
           /\ ~HasJob(tr, u) => /\ AfterApply(u) \in {installed[u], None}
                                /\ mode \notin {"isolate", "flush"} => AfterApply(u) = installed[u]
           /\ HasJob(tr, u) /\ Head(tr.jobs[u]) = "nop" => AfterApply(u) = installed[u]
           /\ HasJob(tr, u) /\ Head(tr.jobs[u]) # "nop" =>
                 /\ Head(tr.jobs[u]) \in MergingType
                 /\ AfterApply(u) \in InstalledJob /\ AfterApply(u) # None
                 /\ \/ /\ installed[u] = None \/ job_type_is_conflicting(installed[u].type, Head(tr.jobs[u]))
                       /\ AfterApply(u).type = Head(tr.jobs[u])
                    \/ /\ installed[u] # None /\ ~job_type_is_conflicting(installed[u].type, Head(tr.jobs[u]))
                       /\ AfterApply(u).type = job_type_merge_and_collapse(installed[u].type, Head(tr.jobs[u]), ustate[u])
                       /\ installed[u].irreversible => AfterApply(u).irreversible
                 /\ installed[u] = None => AfterApply(u).type = Head(tr.jobs[u])
  <1>1. installed[u] \in InstalledJob \cup {None} /\ tr \in Tr
    BY DEF TInv, TypeOK
  <1>2. PICK old, x, a : old = installed[u] /\ x = Head(tr.jobs[u]) /\ a = AfterApply(u)
    OBVIOUS
  <1>3. a = IF ~HasJob(tr, u)
            THEN IF mode \in {"isolate", "flush"} /\ u \notin IgnoreOnIsolate THEN None ELSE old
            ELSE IF x = "nop" THEN old
            ELSE IF old = None \/ job_type_is_conflicting(old.type, x)
            THEN [type |-> x, irreversible |-> mode = "replace-irreversibly", ignore_order |-> mode = "ignore-dependencies"]
            ELSE [type |-> job_type_merge_and_collapse(old.type, x, ustate[u]),
                  irreversible |-> old.irreversible \/ mode = "replace-irreversibly",
                  ignore_order |-> old.ignore_order \/ mode = "ignore-dependencies"]
    BY <1>2 DEF AfterApply
  <1>4. CASE ~HasJob(tr, u)
    <2>1. a \in {old, None} /\ (mode \notin {"isolate", "flush"} => a = old)
      BY <1>3, <1>4
    <2> QED
      BY <1>1, <1>2, <1>4, <2>1
  <1>5. CASE HasJob(tr, u) /\ x = "nop"
    <2>1. a = old
      BY <1>3, <1>5
    <2> QED
      BY <1>1, <1>2, <1>5, <2>1
  <1>6. CASE HasJob(tr, u) /\ x # "nop"
    <2>1. x \in MergingType
      <3>1. x \in TransactionType
        BY <1>1, <1>2, <1>6, ListOf
      <3> QED
        BY <1>6, <3>1 DEF TransactionType
    <2>2. CASE old = None \/ job_type_is_conflicting(old.type, x)
      <3>1. a = [type |-> x, irreversible |-> mode = "replace-irreversibly", ignore_order |-> mode = "ignore-dependencies"]
        BY <1>3, <1>6, <2>2
      <3>2. a \in InstalledJob /\ a.type = x
        BY <2>1, <3>1 DEF InstalledJob
      <3>3. a # None
        BY <3>2, NoneAssumption
      <3> QED
        BY <1>2, <1>6, <2>1, <2>2, <3>2, <3>3
    <2>3. CASE old # None /\ ~job_type_is_conflicting(old.type, x)
      <3>0. old \in InstalledJob
        BY <1>1, <1>2, <2>3
      <3>1. a = [type |-> job_type_merge_and_collapse(old.type, x, ustate[u]),
                 irreversible |-> old.irreversible \/ mode = "replace-irreversibly",
                 ignore_order |-> old.ignore_order \/ mode = "ignore-dependencies"]
        BY <1>3, <1>6, <2>3
      <3>2. old.type \in MergingType /\ old.irreversible \in BOOLEAN /\ old.ignore_order \in BOOLEAN
        BY <3>0 DEF InstalledJob
      <3>3. job_type_merge_and_collapse(old.type, x, ustate[u]) \in MergingType
        BY <2>1, <2>3, <3>2, MergeableIff, MergeTable DEF MergingType
      <3>4. a \in InstalledJob /\ a.type = job_type_merge_and_collapse(old.type, x, ustate[u])
            /\ (old.irreversible => a.irreversible)
        BY <3>1, <3>2, <3>3 DEF InstalledJob
      <3>5. a # None
        BY <3>4, NoneAssumption
      <3> QED
        BY <1>2, <1>6, <2>1, <2>3, <3>4, <3>5
    <2> QED
      BY <2>2, <2>3
  <1> QED
    BY <1>2, <1>4, <1>5, <1>6

LEMMA ActivateInvariant ==
    ASSUME FiniteSetFacts, TInv, Activate PROVE TInv'
  <1>1. /\ phase = "activate" /\ Abort
        /\ installed' = IF Destructive THEN installed ELSE [u \in Unit |-> AfterApply(u)]
        /\ UNCHANGED <<dep, ustate, mode, calls, visit, walk, seen, nreq>>
    BY DEF Activate
  <1>2. installed' \in [Unit -> InstalledJob \cup {None}]
    BY <1>1, AfterApplyIs DEF TInv, TypeOK
  <1>3. calls' = << >>
    BY <1>1 DEF TInv, CallsOK, Building
  <1>4. ustate' \in [Unit -> UnitStates]
    BY <1>1 DEF TInv, TypeOK
  <1> QED
    BY <1>1, <1>2, <1>3, <1>4, AbortInvariant

\* A request is refused, or opens a transaction.
LEMMA RequestInvariant ==
    ASSUME FiniteSetFacts, TInv, phase = "idle", NEW u \in Unit, NEW t \in TransactionType, NEW m \in Mode,
           m \in {"isolate", "triggering"} => t \in {"start", "stop"},
           mode' = m, nreq' \in 0 .. MaxRequests, ustate' \in [Unit -> UnitStates],
           UNCHANGED <<dep, installed, visit, walk, seen>>,
           \/ UNCHANGED <<phase, anchor, tr, calls>>
           \/ /\ phase' = "build" /\ anchor' = <<u, t>> /\ tr' = [EmptyTr EXCEPT !.jobs[u] = <<t>>]
              /\ calls' = << >> \/ calls' = GoOn(<<u, t>>, 1)
    PROVE  TInv'
  <1>1. calls = << >>
    BY DEF TInv, CallsOK, Building
  <1>2. << >> \in Seq(Sound(tr)') /\ << >> \in Seq(Call)
    OBVIOUS
  <1>3. CASE UNCHANGED <<phase, anchor, tr, calls>>
    <2>1. TypeOK'
      BY <1>3 DEF TInv, TypeOK
    <2>2. CallsOK'
      BY <1>1, <1>2, <1>3 DEF CallsOK
    <2>3. Staged' /\ WellFormed(tr')
      BY <1>3 DEF TInv, Staged, AnchorKept, Building, Marking, Merged
    <2> QED
      BY <2>1, <2>2, <2>3 DEF TInv
  <1>4. CASE /\ phase' = "build" /\ anchor' = <<u, t>> /\ tr' = [EmptyTr EXCEPT !.jobs[u] = <<t>>]
             /\ calls' = << >> \/ calls' = GoOn(<<u, t>>, 1)
    <2>1. WellFormed(tr') /\ JobsOf(tr') = {<<u, t>>} /\ OneKind(tr')
      BY Zenon, <1>4, SingleIs
    <2>2. PICK j : j = <<u, t>>
      OBVIOUS
    <2>3. j \in JobsOf(tr') /\ j \in TJob /\ j[2] = t
      BY <2>1, <2>2 DEF TJob
    <2>4. calls' \in Seq(Sound(tr)')
      <3>1. GoOn(j, 1) \in Seq(Sound(tr'))
        BY <2>3, GoOnSound
      <3>2. dep' = dep
        OBVIOUS
      <3>3. Sound(tr') = Sound(tr)'
        BY <3>2, GroupsSame DEF Sound
      <3> QED
        BY Zenon, <1>2, <1>4, <2>2, <3>1, <3>3
    <2>5. calls' \in Seq(Call)
      <3>1. Sound(tr)' \subseteq Call
        BY DEF Sound
      <3> QED
        BY <2>4, <3>1
    <2>6. TypeOK'
      BY <1>4, <2>1, <2>2, <2>3, <2>5 DEF TInv, TypeOK, Phase, WellFormed
    <2>7. CallsOK'
      BY <1>4, <2>4 DEF CallsOK, Building
    <2>8. Staged'
      BY <1>4, <2>1, <2>2, <2>3 DEF Staged, AnchorKept, Building, Marking, Merged
    <2> QED
      BY <2>1, <2>6, <2>7, <2>8 DEF TInv
  <1> QED
    BY <1>3, <1>4

LEMMA AddJobInvariant ==
    ASSUME FiniteSetFacts, TInv, NEW q \in Requests, AddJob(q[1], q[2], q[3]) PROVE TInv'
  <1>1. PICK x, u, m : x = q[1] /\ u = q[2] /\ m = q[3]
    OBVIOUS
  <1>2. /\ x \in JobType /\ u \in Unit /\ m \in Mode
        /\ (m = "isolate" => x = "start") /\ (m = "triggering" => x = "stop")
    BY <1>1, RequestsAssumption
  <1>3. PICK t : t = job_type_collapse(x, ustate[u])
    OBVIOUS
  <1>4. t \in TransactionType
    BY <1>2, <1>3, CollapsedType
  <1>5. m \in {"isolate", "triggering"} => t \in {"start", "stop"}
    BY <1>2, <1>3 DEF job_type_collapse
  <1>6. /\ phase = "idle" /\ nreq < MaxRequests /\ nreq' = nreq + 1 /\ mode' = m
        /\ UNCHANGED <<dep, ustate, installed, visit, walk, seen>>
        /\ \/ UNCHANGED <<phase, anchor, tr, calls>>
           \/ /\ phase' = "build" /\ anchor' = <<u, t>> /\ tr' = [EmptyTr EXCEPT !.jobs[u] = <<t>>]
              /\ calls' = << >> \/ calls' = GoOn(<<u, t>>, 1)
    BY <1>1, <1>3 DEF AddJob
  <1>7. nreq' \in 0 .. MaxRequests /\ ustate' \in [Unit -> UnitStates]
    BY <1>6, BoundAssumption DEF TInv, TypeOK
  <1> QED
    BY <1>2, <1>4, <1>5, <1>6, <1>7, RequestInvariant

LEMMA PropagateReloadInvariant ==
    ASSUME FiniteSetFacts, TInv, NEW q \in Propagations, PropagateReload(q[1], q[2]) PROVE TInv'
  <1>1. PICK u, m : u = q[1] /\ m = q[2]
    OBVIOUS
  <1>2. /\ u \in Unit /\ m \in Mode /\ m \notin {"isolate", "triggering"}
        /\ m = "fail" => "reloading" \in UnitStates
    BY <1>1, RequestsAssumption DEF Mode
  <1>3. "nop" \in TransactionType
    BY DEF TransactionType
  <1>4. /\ phase = "idle" /\ nreq < MaxRequests /\ nreq' = nreq + 1 /\ mode' = m
        /\ ustate' = IF m = "fail" THEN [ustate EXCEPT ![u] = "reloading"] ELSE ustate
        /\ UNCHANGED <<dep, installed, visit, walk, seen>>
        /\ \/ UNCHANGED <<phase, anchor, tr, calls>>
           \/ /\ phase' = "build" /\ anchor' = <<u, "nop">> /\ tr' = [EmptyTr EXCEPT !.jobs[u] = <<"nop">>]
              /\ calls' = GoOn(<<u, "nop">>, 1)
    BY <1>1 DEF PropagateReload
  <1>5. nreq' \in 0 .. MaxRequests /\ ustate' \in [Unit -> UnitStates]
    BY <1>2, <1>4, BoundAssumption DEF TInv, TypeOK
  <1>6. PICK t : t = "nop"
    OBVIOUS
  <1>7. \/ UNCHANGED <<phase, anchor, tr, calls>>
        \/ /\ phase' = "build" /\ anchor' = <<u, t>> /\ tr' = [EmptyTr EXCEPT !.jobs[u] = <<t>>]
           /\ calls' = << >> \/ calls' = GoOn(<<u, t>>, 1)
    BY Zenon, <1>4, <1>6
  <1>8. phase = "idle" /\ t \in TransactionType /\ UNCHANGED <<dep, installed, visit, walk, seen>>
        /\ mode' = m
    BY <1>3, <1>4, <1>6
  <1> QED
    BY <1>2, <1>5, <1>7, <1>8, RequestInvariant

LEMMA JobEndsInvariant ==
    ASSUME TInv, NEW u \in Unit, NEW s \in UnitStates, JobEnds(u, s) PROVE TInv'
  <1>1. /\ phase = "idle" /\ installed' = [installed EXCEPT ![u] = None]
        /\ ustate' = [ustate EXCEPT ![u] = s]
        /\ UNCHANGED <<dep, phase, mode, anchor, tr, calls, visit, walk, seen, nreq>>
    BY DEF JobEnds
  <1>2. TypeOK'
    BY <1>1 DEF TInv, TypeOK
  <1>3. calls = << >> /\ << >> \in Seq(Sound(tr)')
    BY <1>1 DEF TInv, CallsOK, Building
  <1>4. CallsOK'
    BY <1>1, <1>3 DEF CallsOK
  <1>5. Staged'
    BY <1>1 DEF TInv, Staged, AnchorKept, ClosedMarks, OneKind, JobsOf
  <1>6. WellFormed(tr)'
    BY <1>1 DEF TInv, WellFormed, JobsOf
  <1> QED
    BY <1>2, <1>4, <1>5, <1>6 DEF TInv

LEMMA NextInvariant ==
    ASSUME FiniteSetFacts, TInv, [Next]_vars PROVE TInv'
  <1>1. CASE Step
    BY <1>1, BuildInvariant, BuiltInvariant, StopOtherInvariant, MarkInvariant, MinimizeInvariant,
       DropRedundantInvariant, CollectGarbageInvariant, VerifyOrderInvariant,
       DropUnmergeableInvariant, MergeJobsInvariant, ActivateInvariant DEF Step
  <1>2. CASE \E q \in Requests : AddJob(q[1], q[2], q[3])
    BY <1>2, AddJobInvariant
  <1>3. CASE \E q \in Propagations : PropagateReload(q[1], q[2])
    BY <1>3, PropagateReloadInvariant
  <1>4. CASE \E u \in Unit, s \in UnitStates : JobEnds(u, s)
    BY <1>4, JobEndsInvariant
  <1>5. CASE UNCHANGED vars
    <2>1. UNCHANGED <<dep, ustate, installed, phase, mode, anchor, tr, calls, visit, walk, seen, nreq>>
      BY <1>5 DEF vars
    <2>2. TypeOK' /\ WellFormed(tr)'
      BY <2>1 DEF TInv, TypeOK, WellFormed, JobsOf
    <2>3. Sound(tr) \subseteq Sound(tr)'
      BY <2>1, SoundGrows
    <2>4. CallsOK'
      BY <2>1, <2>3 DEF TInv, CallsOK
    <2>5. Staged'
      BY Zenon, <2>1 DEF TInv, Staged, AnchorKept, ClosedMarks, OneKind, JobsOf
    <2> QED
      BY <2>2, <2>4, <2>5 DEF TInv
  <1> QED
    BY <1>1, <1>2, <1>3, <1>4, <1>5 DEF Next

\* In the last phase only transaction_activate()'s end can come.
LEMMA OnlyActivate ==
    ASSUME phase = "activate", Next PROVE Activate
  <1>1. ~Build /\ ~Built /\ ~OthersStopped /\ ~Mark /\ ~Minimize /\ ~DropRedundant /\ ~CollectGarbage
        /\ ~VerifyOrder /\ ~MergeJobs
    BY DEF Build, Built, OthersStopped, Mark, Minimize, DropRedundant, CollectGarbage, VerifyOrder, MergeJobs
  <1>2. \A u \in Unit : ~StopOther(u) /\ ~DropUnmergeable(u)
    BY DEF StopOther, DropUnmergeable
  <1>3. \A q : ~AddJob(q[1], q[2], q[3]) /\ ~PropagateReload(q[1], q[2])
    BY DEF AddJob, PropagateReload
  <1>4. \A u, s : ~JobEnds(u, s)
    BY DEF JobEnds
  <1> QED
    BY <1>1, <1>2, <1>3, <1>4 DEF Next, Step

\* What merging and collapsing gives includes the new job, or makes it redundant.
LEMMA MergedSuperset ==
    ASSUME NEW a \in MergingType, NEW b \in {"start", "stop", "restart", "verify-active"},
           NEW s \in ActiveState, ~job_type_is_conflicting(a, b)
    PROVE  \/ job_type_is_superset(job_type_merge_and_collapse(a, b, s), b)
           \/ job_type_is_redundant(b, s)
  <1>1. a # b => "stop" \notin {a, b}
    BY MergeableIff DEF MergingType
  <1>2. CASE a = b
    BY Zenon, <1>2 DEF job_type_merge_and_collapse, job_type_collapse, job_type_lookup_merge, job_type_is_superset
  <1>3. CASE a # b /\ b = "start"
    BY Zenon, <1>1, <1>3 DEF job_type_merge_and_collapse, job_type_collapse, job_type_lookup_merge, job_type_is_superset,
       job_type_is_redundant, MergingType
  <1>4. CASE a # b /\ b = "restart"
    BY ZenonT(60), <1>1, <1>4 DEF job_type_merge_and_collapse, job_type_collapse, job_type_lookup_merge, job_type_is_superset, MergingType
  <1>5. CASE a # b /\ b = "verify-active"
    BY Zenon, <1>1, <1>5 DEF job_type_merge_and_collapse, job_type_collapse, job_type_lookup_merge, job_type_is_superset, MergingType
  <1> QED
    BY <1>1, <1>2, <1>3, <1>4, <1>5

LEMMA AnchorStepHolds ==
    ASSUME TInv, Next PROVE AnchorStep
  <1> SUFFICES ASSUME Applied, anchor[2] \in {"start", "stop", "restart", "verify-active"}
               PROVE  /\ installed'[anchor[1]] # None
                      /\ \/ job_type_is_superset(installed'[anchor[1]].type, anchor[2])
                         \/ job_type_is_redundant(anchor[2], ustate[anchor[1]])
    BY DEF AnchorStep
  <1>1. phase = "activate" /\ ~Destructive
    BY DEF Applied
  <1>2. Activate
    BY <1>1, OnlyActivate
  <1>3. anchor \in JobsOf(tr) /\ \A w \in Unit : Len(tr.jobs[w]) <= 1
    BY <1>1 DEF TInv, Staged, AnchorKept, Merged
  <1>4. PICK u, t : u = anchor[1] /\ t = anchor[2]
    OBVIOUS
  <1>5. u \in Unit /\ t \in InList(tr.jobs[u]) /\ tr.jobs[u] \in Seq(TransactionType)
    BY <1>3, <1>4 DEF JobsOf, TJob, TInv, TypeOK, Tr
  <1>6. PICK i \in DOMAIN tr.jobs[u] : tr.jobs[u][i] = t
    BY <1>5 DEF InList
  <1>7. HasJob(tr, u) /\ Head(tr.jobs[u]) = t
    BY <1>3, <1>5, <1>6 DEF HasJob
  <1>8. installed' = [w \in Unit |-> AfterApply(w)]
    BY <1>1, <1>2 DEF Activate
  <1>9. installed'[u] = AfterApply(u)
    BY <1>5, <1>8
  <1>10. installed[u] \in InstalledJob \cup {None} /\ t # "nop" /\ t \in MergingType
    BY <1>4, <1>5 DEF TInv, TypeOK, MergingType
  <1>11. AfterApply(u) # None
    BY <1>5, <1>7, <1>10, AfterApplyIs
  <1>12. CASE AfterApply(u).type = t
    BY <1>4, <1>9, <1>11, <1>12 DEF job_type_is_superset, job_type_lookup_merge
  <1>13. CASE /\ installed[u] # None /\ ~job_type_is_conflicting(installed[u].type, t)
              /\ AfterApply(u).type = job_type_merge_and_collapse(installed[u].type, t, ustate[u])
    <2>1. installed[u].type \in MergingType
      BY <1>10, <1>13 DEF InstalledJob
    <2>2. ustate[u] \in ActiveState
      BY <1>5, UnitStatesAssumption DEF TInv, TypeOK
    <2>3. t \in {"start", "stop", "restart", "verify-active"}
      BY <1>4
    <2>4. \/ job_type_is_superset(job_type_merge_and_collapse(installed[u].type, t, ustate[u]), t)
          \/ job_type_is_redundant(t, ustate[u])
      BY <1>13, <2>1, <2>2, <2>3, MergedSuperset
    <2> QED
      BY <1>4, <1>9, <1>11, <1>13, <2>4
  <1> QED
    BY <1>5, <1>7, <1>10, <1>12, <1>13, AfterApplyIs

LEMMA IrreversibleStepHolds ==
    ASSUME TInv, Next PROVE IrreversibleStep
  <1> SUFFICES ASSUME phase = "activate", mode \notin {"isolate", "flush"}, NEW u \in Unit,
                      installed[u] # None, installed[u].irreversible
               PROVE  /\ installed'[u] # None /\ installed'[u].irreversible
                      /\ ~job_type_is_conflicting(installed'[u].type, installed[u].type)
    BY DEF IrreversibleStep
  <1>1. Activate
    BY OnlyActivate
  <1>2. installed[u] \in InstalledJob
    BY DEF TInv, TypeOK
  <1>3. installed[u].type \in MergingType
    BY <1>2 DEF InstalledJob
  <1>4. ~job_type_is_conflicting(installed[u].type, installed[u].type)
    BY <1>3, MergeableIff
  <1>5. CASE installed'[u] = installed[u]
    BY <1>4, <1>5
  <1>6. CASE installed'[u] # installed[u]
    <2>1. ~Destructive /\ installed' = [w \in Unit |-> AfterApply(w)]
      BY <1>1, <1>6 DEF Activate
    <2>2. installed'[u] = AfterApply(u)
      BY <2>1
    <2>3. HasJob(tr, u) /\ Head(tr.jobs[u]) # "nop"
      BY <1>6, <2>2, AfterApplyIs
    <2>4. PICK x : x = Head(tr.jobs[u])
      OBVIOUS
    <2>5. x \in MergingType /\ ~job_type_is_conflicting(installed[u].type, x)
      BY <2>1, <2>3, <2>4, AfterApplyIs DEF Destructive
    <2>6. /\ AfterApply(u) # None /\ AfterApply(u) \in InstalledJob /\ AfterApply(u).irreversible
          /\ AfterApply(u).type = job_type_merge_and_collapse(installed[u].type, x, ustate[u])
      BY <2>3, <2>4, <2>5, AfterApplyIs
    <2>7. AfterApply(u).type \in MergingType
      BY <2>6 DEF InstalledJob
    <2>8. job_type_merge_and_collapse(installed[u].type, x, ustate[u]) = "stop" <=> installed[u].type = "stop"
      BY <1>3, <2>5, MergeableIff, MergeTable DEF MergingType
    <2>9. ~job_type_is_conflicting(AfterApply(u).type, installed[u].type)
      BY <1>3, <2>6, <2>7, <2>8, MergeableIff
    <2> QED
      BY <2>2, <2>6, <2>9
  <1> QED
    BY <1>5, <1>6
=============================================================================
