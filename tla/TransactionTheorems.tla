------------------------ MODULE TransactionTheorems ------------------------
(***************************************************************************)
(* Theorems about transactions, for all units, dependencies and requests: the *)
(* invariant of manager_add_job(), and what follows from it for the job asked *)
(* for, the marks, reloads, irreversible jobs, and what comes with a job.  *)
(***************************************************************************)
EXTENDS TransactionOutcome, FiniteSetTheorems, WellFoundedInduction

-----------------------------------------------------------------------------
(* The facts about numbers and finite sets, from the library.              *)

LEMMA WellFoundedMinimum ==
    ASSUME NEW R, IsWellFoundedOn(R, Nat), NEW T, T \subseteq Nat, T # {}
    PROVE  \E m \in T : \A k \in T : ~(<<k, m>> \in R)
  BY Zenon, WFMin

LEMMA LeastOfNumbers ==
    ASSUME NEW T, T \subseteq Nat, T # {}
    PROVE  \E m \in T : \A k \in T : m <= k
  <1>1. IsWellFoundedOn(OpToRel(<, Nat), Nat)
    BY Zenon, NatLessThanWellFounded
  <1>2. \A k, m \in Nat : k < m => <<k, m>> \in OpToRel(<, Nat)
    BY DEF OpToRel
  <1>3. \E R : IsWellFoundedOn(R, Nat) /\ \A k, m \in Nat : k < m => <<k, m>> \in R
    <2> WITNESS OpToRel(<, Nat)
    <2> QED
      BY Zenon, <1>1, <1>2
  <1>4. PICK R : IsWellFoundedOn(R, Nat) /\ \A k, m \in Nat : k < m => <<k, m>> \in R
    BY <1>3
  <1>5. PICK m \in T : \A k \in T : ~(<<k, m>> \in R)
    BY Zenon, <1>4, WellFoundedMinimum
  <1>6. ASSUME NEW k \in T PROVE m <= k
    <2>1. ~(k < m)
      BY Zenon, <1>4, <1>5
    <2> QED
      BY <2>1
  <1> QED
    BY <1>6

LEMMA FiniteSetFactsHold == FiniteSetFacts
  <1>1. \A T : T \subseteq Nat /\ T # {} => \E m \in T : \A k \in T : m <= k
    BY Zenon, LeastOfNumbers
  <1>2. \A S : IsFiniteSet(S) => Cardinality(S) \in Nat
    BY Zenon, FS_CardinalityType
  <1>3. IsFiniteSet({}) /\ Cardinality({}) = 0
    BY Zenon, FS_EmptySet
  <1>4. \A S, x : IsFiniteSet(S) => IsFiniteSet(S \cup {x})
    BY Zenon, FS_AddElement
  <1>5. \A S, T : IsFiniteSet(S) /\ T \subseteq S =>
          /\ IsFiniteSet(T) /\ Cardinality(T) <= Cardinality(S)
          /\ Cardinality(S) = Cardinality(T) => S = T
    BY FS_Subset
  <1>6. ASSUME NEW S, NEW T, NEW f, IsFiniteSet(S), f \in [S -> T],
               \A y \in T : \E x \in S : f[x] = y
        PROVE  IsFiniteSet(T) /\ Cardinality(T) <= Cardinality(S)
    <2>1. f \in Surjection(S, T)
      BY <1>6 DEF Surjection
    <2> QED
      BY <1>6, <2>1, FS_Surjection
  <1>7. \A S, T : IsFiniteSet(S) /\ IsFiniteSet(T) => IsFiniteSet(S \X T)
    BY Zenon, FS_Product
  <1> QED
    BY Zenon, <1>1, <1>2, <1>3, <1>4, <1>5, <1>6, <1>7 DEF FiniteSetFacts

USE Untyped

-----------------------------------------------------------------------------
(* In mode fail no running unit is stopped needlessly.                     *)

LEMMA InConcatenation ==
    ASSUME NEW A, NEW x \in Seq(A), NEW y \in Seq(A)
    PROVE  InList(x \o y) = InList(x) \cup InList(y)
  <1>1. PICK z : z = x \o y
    BY Zenon
  <1>2. /\ z \in Seq(A) /\ Len(z) = Len(x) + Len(y)
        /\ \A i \in 1 .. Len(z) : z[i] = IF i <= Len(x) THEN x[i] ELSE y[i - Len(x)]
    BY <1>1
  <1>3. /\ DOMAIN x = 1 .. Len(x) /\ DOMAIN y = 1 .. Len(y) /\ DOMAIN z = 1 .. Len(z)
        /\ Len(x) \in Nat /\ Len(y) \in Nat
    BY <1>2
  <1>4. ASSUME NEW v \in InList(z) PROVE v \in InList(x) \cup InList(y)
    <2>1. PICK i \in DOMAIN z : v = z[i]
      BY DEF InList
    <2>2. CASE i <= Len(x)
      <3>1. i \in DOMAIN x /\ v = x[i]
        BY <1>2, <1>3, <2>1, <2>2
      <3> QED
        BY <3>1 DEF InList
    <2>3. CASE ~(i <= Len(x))
      <3>1. i - Len(x) \in DOMAIN y /\ v = y[i - Len(x)]
        BY <1>2, <1>3, <2>1, <2>3
      <3> QED
        BY <3>1 DEF InList
    <2> QED
      BY <2>2, <2>3
  <1> QED
    BY <1>1, <1>4, Concatenation

LEMMA GroupTyped ==
    ASSUME NEW S \in SUBSET Unit, NEW t \in JobType, NEW m \in BOOLEAN, NEW c \in BOOLEAN, NEW strict \in BOOLEAN
    PROVE  /\ Group(S, t, m, c, strict) \in Seq(GroupRecord)
           /\ ~m => \A g \in InList(Group(S, t, m, c, strict)) : ~g.matters
  <1>1. PICK r : r = [units |-> S, type |-> t, matters |-> m, conflicts |-> c, strict |-> strict]
    BY Zenon
  <1>2. r \in GroupRecord /\ r.matters = m
    BY <1>1 DEF GroupRecord
  <1>3. PICK s : s = Group(S, t, m, c, strict)
    OBVIOUS
  <1>4. s = << >> \/ s = <<r>>
    BY <1>1, <1>3 DEF Group
  <1>5. s \in Seq(GroupRecord)
    <2>1. << >> \in Seq(GroupRecord)
      OBVIOUS
    <2>2. <<r>> \in Seq(GroupRecord)
      BY <1>2
    <2> QED
      BY Zenon, <1>4, <2>1, <2>2
  <1>6. \A g \in InList(s) : g = r
    <2>1. InList(<< >>) = {}
      BY DEF InList
    <2>2. DOMAIN <<r>> = {1} /\ <<r>>[1] = r
      OBVIOUS
    <2>3. InList(<<r>>) = {r}
      BY <2>2 DEF InList
    <2> QED
      BY <1>4, <2>1, <2>3
  <1> QED
    BY <1>2, <1>3, <1>5, <1>6

\* The groups of a start and of a stop that is part of a restart.
LEMMA ChainsTyped ==
    ASSUME NEW u
    PROVE  /\ Group(DepsOf("requires", u), "start", TRUE, FALSE, TRUE)
                \o Group(DepsOf("binds_to", u), "start", TRUE, FALSE, TRUE)
                \o Group(DepsOf("wants", u), "start", FALSE, FALSE, FALSE)
                \o Group(DepsOf("requisite", u), "verify-active", TRUE, FALSE, TRUE)
                \o Group(DepsOf("conflicts", u), "stop", TRUE, TRUE, TRUE)
                \o Group(InverseDep("conflicts", u), "stop", FALSE, FALSE, FALSE) \in Seq(GroupRecord)
           /\ Group(InverseDep("requires", u), "try-restart", TRUE, FALSE, TRUE)
                \o Group(InverseDep("requisite", u), "try-restart", TRUE, FALSE, TRUE)
                \o Group(InverseDep("binds_to", u), "try-restart", TRUE, FALSE, TRUE)
                \o Group(InverseDep("part_of", u), "try-restart", TRUE, FALSE, TRUE) \in Seq(GroupRecord)
  <1>1. \A d : DepsOf(d, u) \in SUBSET Unit /\ InverseDep(d, u) \in SUBSET Unit
    BY DEF DepsOf, InverseDep
  <1>2. \A x \in {"start", "verify-active", "stop", "try-restart"} : x \in JobType
    BY DEF JobType, TransactionType, MergingType
  <1>3. \A S \in SUBSET Unit, x \in {"start", "verify-active", "stop", "try-restart"}, m, c, strict \in BOOLEAN :
            Group(S, x, m, c, strict) \in Seq(GroupRecord)
    BY Zenon, <1>2, GroupTyped
  <1>4. PICK a1, a2, a3, a4, a5, a6, p1, p2, p3, p4 :
          /\ a1 = Group(DepsOf("requires", u), "start", TRUE, FALSE, TRUE)
          /\ a2 = Group(DepsOf("binds_to", u), "start", TRUE, FALSE, TRUE)
          /\ a3 = Group(DepsOf("wants", u), "start", FALSE, FALSE, FALSE)
          /\ a4 = Group(DepsOf("requisite", u), "verify-active", TRUE, FALSE, TRUE)
          /\ a5 = Group(DepsOf("conflicts", u), "stop", TRUE, TRUE, TRUE)
          /\ a6 = Group(InverseDep("conflicts", u), "stop", FALSE, FALSE, FALSE)
          /\ p1 = Group(InverseDep("requires", u), "try-restart", TRUE, FALSE, TRUE)
          /\ p2 = Group(InverseDep("requisite", u), "try-restart", TRUE, FALSE, TRUE)
          /\ p3 = Group(InverseDep("binds_to", u), "try-restart", TRUE, FALSE, TRUE)
          /\ p4 = Group(InverseDep("part_of", u), "try-restart", TRUE, FALSE, TRUE)
    BY Zenon
  <1>5. /\ a1 \in Seq(GroupRecord) /\ a2 \in Seq(GroupRecord) /\ a3 \in Seq(GroupRecord)
        /\ a4 \in Seq(GroupRecord) /\ a5 \in Seq(GroupRecord) /\ a6 \in Seq(GroupRecord)
    BY Zenon, <1>1, <1>3, <1>4
  <1>6. p1 \in Seq(GroupRecord) /\ p2 \in Seq(GroupRecord) /\ p3 \in Seq(GroupRecord) /\ p4 \in Seq(GroupRecord)
    BY Zenon, <1>1, <1>3, <1>4
  <1>7. \A x, y \in Seq(GroupRecord) : x \o y \in Seq(GroupRecord)
    OBVIOUS
  <1>8. a1 \o a2 \o a3 \o a4 \o a5 \o a6 \in Seq(GroupRecord)
    BY Zenon, <1>5, <1>7
  <1>9. p1 \o p2 \o p3 \o p4 \in Seq(GroupRecord)
    BY Zenon, <1>6, <1>7
  <1> QED
    BY Zenon, <1>4, <1>8, <1>9

LEMMA RestartNeedsMore ==
    ASSUME NEW u \in Unit, NEW g \in InList(Groups(<<u, "start">>)), g.matters
    PROVE  g \in InList(Groups(<<u, "restart">>))
  <1>1. PICK st, pr :
          /\ st = Group(DepsOf("requires", u), "start", TRUE, FALSE, TRUE)
                \o Group(DepsOf("binds_to", u), "start", TRUE, FALSE, TRUE)
                \o Group(DepsOf("wants", u), "start", FALSE, FALSE, FALSE)
                \o Group(DepsOf("requisite", u), "verify-active", TRUE, FALSE, TRUE)
                \o Group(DepsOf("conflicts", u), "stop", TRUE, TRUE, TRUE)
                \o Group(InverseDep("conflicts", u), "stop", FALSE, FALSE, FALSE)
          /\ pr = Group(InverseDep("requires", u), "try-restart", TRUE, FALSE, TRUE)
                \o Group(InverseDep("requisite", u), "try-restart", TRUE, FALSE, TRUE)
                \o Group(InverseDep("binds_to", u), "try-restart", TRUE, FALSE, TRUE)
                \o Group(InverseDep("part_of", u), "try-restart", TRUE, FALSE, TRUE)
    BY Zenon
  <1>2. PICK f1, f2 : /\ f1 = Group(DepsOf("following", u), "start", FALSE, FALSE, FALSE)
                      /\ f2 = Group(DepsOf("following", u), "restart", FALSE, FALSE, FALSE)
    BY Zenon
  <1>3. st \in Seq(GroupRecord) /\ pr \in Seq(GroupRecord) /\ << >> \in Seq(GroupRecord)
    <2>1. << >> \in Seq(GroupRecord)
      OBVIOUS
    <2> QED
      BY Zenon, <1>1, <2>1, ChainsTyped
  <1>4. f1 \in Seq(GroupRecord) /\ f2 \in Seq(GroupRecord) /\ \A h \in InList(f1) : ~h.matters
    <2>1. DepsOf("following", u) \in SUBSET Unit
      BY DEF DepsOf
    <2>2. PICK x, y, m : x = "start" /\ y = "restart" /\ m = FALSE
      BY Zenon
    <2>3. x \in JobType /\ y \in JobType /\ m \in BOOLEAN /\ ~m
      BY Zenon, <2>2 DEF JobType, TransactionType, MergingType
    <2>4. f1 = Group(DepsOf("following", u), x, m, m, m) /\ f2 = Group(DepsOf("following", u), y, m, m, m)
      BY Zenon, <1>2, <2>2
    <2> QED
      BY Zenon, <2>1, <2>3, <2>4, GroupTyped
  <1>5. PICK i, j : i = <<u, "start">> /\ j = <<u, "restart">>
    BY Zenon
  <1>6. i[1] = u /\ i[2] = "start" /\ j[1] = u /\ j[2] = "restart"
    BY <1>5
  <1>7. Groups(i) = ((f1 \o st) \o << >>) \o << >>
    BY Zenon, <1>1, <1>2, <1>6 DEF Groups
  <1>8. Groups(j) = ((f2 \o st) \o pr) \o << >>
    BY Zenon, <1>1, <1>2, <1>6 DEF Groups
  <1>9. InList(<< >>) = {}
    BY DEF InList
  <1>10. \A x, y \in Seq(GroupRecord) : x \o y \in Seq(GroupRecord) /\ InList(x \o y) = InList(x) \cup InList(y)
    BY InConcatenation
  <1>11. InList(Groups(i)) = InList(f1) \cup InList(st)
    BY <1>3, <1>4, <1>7, <1>9, <1>10
  <1>12. InList(st) \subseteq InList(Groups(j))
    <2>1. PICK x, y : x = f2 \o st /\ y = x \o pr
      BY Zenon
    <2>2. x \in Seq(GroupRecord) /\ InList(st) \subseteq InList(x)
      BY <1>3, <1>4, <2>1, Concatenation
    <2>3. y \in Seq(GroupRecord) /\ InList(x) \subseteq InList(y)
      BY Zenon, <1>3, <2>1, <2>2, Concatenation
    <2>4. Groups(j) = y \o << >>
      BY Zenon, <1>8, <2>1
    <2>5. InList(y) \subseteq InList(Groups(j))
      BY <1>3, <2>3, <2>4, Concatenation
    <2> QED
      BY <2>2, <2>3, <2>5
  <1> QED
    BY <1>4, <1>5, <1>11, <1>12

LEMMA NothingMatters ==
    ASSUME NEW u \in Unit, NEW t \in {"verify-active", "reload", "nop"}, NEW g \in InList(Groups(<<u, t>>))
    PROVE  ~g.matters
  <1>1. PICK f, r : /\ f = Group(IF t = "nop" THEN {} ELSE DepsOf("following", u), t, FALSE, FALSE, FALSE)
                    /\ r = IF t \in {"reload", "nop"}
                           THEN Group(DepsOf("propagates_reload_to", u), "try-reload", FALSE, FALSE, FALSE)
                           ELSE << >>
    BY Zenon
  <1>2. PICK S, D, x, m : S = (IF t = "nop" THEN {} ELSE DepsOf("following", u)) /\ D = DepsOf("propagates_reload_to", u)
                          /\ x = "try-reload" /\ m = FALSE
    BY Zenon
  <1>3. S \in SUBSET Unit /\ D \in SUBSET Unit /\ x \in JobType /\ t \in JobType /\ m \in BOOLEAN /\ ~m
    BY Zenon, <1>2 DEF DepsOf, JobType, TransactionType, MergingType
  <1>4. f = Group(S, t, m, m, m) /\ (r = Group(D, x, m, m, m) \/ r = << >>)
    BY Zenon, <1>1, <1>2
  <1>5. /\ Group(S, t, m, m, m) \in Seq(GroupRecord) /\ \A h \in InList(Group(S, t, m, m, m)) : ~h.matters
        /\ Group(D, x, m, m, m) \in Seq(GroupRecord) /\ \A h \in InList(Group(D, x, m, m, m)) : ~h.matters
    BY <1>3, GroupTyped
  <1>6. InList(<< >>) = {} /\ << >> \in Seq(GroupRecord)
    BY DEF InList
  <1>7. f \in Seq(GroupRecord) /\ r \in Seq(GroupRecord) /\ \A h \in InList(f) \cup InList(r) : ~h.matters
    BY Zenon, <1>4, <1>5, <1>6
  <1>8. PICK i : i = <<u, t>>
    OBVIOUS
  <1>9. i[1] = u /\ i[2] = t
    BY <1>8
  <1>10. Groups(i) = ((f \o << >>) \o << >>) \o r
    BY Zenon, <1>1, <1>9 DEF Groups
  <1>11. \A y, z \in Seq(GroupRecord) : y \o z \in Seq(GroupRecord) /\ InList(y \o z) = InList(y) \cup InList(z)
    BY InConcatenation
  <1>12. InList(Groups(i)) = InList(f) \cup InList(r)
    BY <1>6, <1>7, <1>10, <1>11
  <1> QED
    BY <1>7, <1>8, <1>12

LEMMA NeedsGraphFinite ==
    ASSUME FiniteSetFacts
    PROVE  IsFiniteSet(NeedsGraph) /\ Cardinality(NeedsGraph) \in Nat
  <1>1. IsFiniteSet(TransactionType)
    <2>1. TransactionType = ((((({} \cup {"start"}) \cup {"verify-active"}) \cup {"stop"}) \cup {"reload"}) \cup {"restart"})
                                \cup {"nop"}
      BY DEF TransactionType, MergingType
    <2> QED
      BY Zenon, <2>1, SizeEmpty, SizeAdd
  <1>2. IsFiniteSet(TJob)
    BY <1>1, UnitAssumption, SizeProduct DEF TJob
  <1>3. IsFiniteSet(TJob \X TJob)
    BY <1>2, SizeProduct
  <1>4. IsFiniteSet(NeedsGraph)
    BY <1>3, SizeSubset DEF NeedsGraph
  <1> QED
    BY <1>4, SizeType

\* The jobs that a can not do without.
NeededBy(a) == Reach(NeedsGraph, {a})

LEMMA NeededByClosed ==
    ASSUME FiniteSetFacts, NEW a
    PROVE  /\ a \in NeededBy(a)
           /\ \A i \in TJob, j \in TJob : i \in NeededBy(a) /\ j \in Needs(i) => j \in NeededBy(a)
           /\ \A C : a \in C /\ (\A i \in TJob, j \in TJob : i \in C /\ j \in Needs(i) => j \in C)
                        => NeededBy(a) \subseteq C
  <1>1. PICK R, S : R = NeedsGraph /\ S = {a}
    BY Zenon
  <1>2. IsFiniteSet(R) /\ Cardinality(R) \in Nat /\ NeededBy(a) = Reach(R, S)
    BY <1>1, NeedsGraphFinite DEF NeededBy
  <1>3. a \in NeededBy(a)
    BY <1>1, <1>2, ReachContains
  <1>4. ASSUME NEW i \in TJob, NEW j \in TJob, i \in NeededBy(a), j \in Needs(i) PROVE j \in NeededBy(a)
    <2>1. PICK e : e = <<i, j>>
      BY Zenon
    <2>2. e \in R /\ e[1] = i /\ e[2] = j
      BY <1>1, <1>4, <2>1 DEF NeedsGraph
    <2> QED
      BY <1>2, <1>4, <2>2, ReachClosed
  <1>5. ASSUME NEW C, a \in C, \A i \in TJob, j \in TJob : i \in C /\ j \in Needs(i) => j \in C
        PROVE  NeededBy(a) \subseteq C
    <2>1. \A e \in R : e[1] \in C => e[2] \in C
      BY <1>1, <1>5 DEF NeedsGraph
    <2>2. S \subseteq C
      BY <1>1, <1>5
    <2> QED
      BY <1>2, <2>1, <2>2, ReachWithin
  <1> QED
    BY <1>3, <1>4, <1>5

LEMMA NeedsIs ==
    ASSUME NEW i, NEW g \in InList(Groups(i)), g.matters, NEW v \in g.units
    PROVE  <<v, job_type_collapse(g.type, ustate[v])>> \in Needs(i)
  BY DEF Needs

\* Merging makes a job need more, not less.
LEMMA MergedNeeds ==
    ASSUME FiniteSetFacts, TInv, MergeJobs, NEW j \in JobsOf(tr)
    PROVE  /\ Renamed(j) \in TJob
           /\ Needs(j) \subseteq Needs(Renamed(j))
           /\ j[2] = "stop" => Renamed(j) = j
  <1>1. PICK u, x : u = j[1] /\ x = j[2]
    OBVIOUS
  <1>2. j = <<u, x>> /\ u \in Unit /\ x \in TransactionType /\ x \in InList(tr.jobs[u]) /\ j \in TJob
    BY <1>1 DEF JobsOf, TJob
  <1>3. phase = "merge" /\ (HasJob(tr, u) => Mergeable(tr.jobs[u], ustate[u]))
    BY Zenon, <1>2, MergeJobsIs
  <1>4. OneKind(tr) /\ tr \in Tr
    BY <1>3 DEF TInv, Staged, Merged, TypeOK
  <1>5. HasJob(tr, u)
    BY <1>2, <1>4, ListOf
  <1>6. PICK m : m = MergedTo(u)
    OBVIOUS
  <1>7. Renamed(j) = <<u, m>>
    BY <1>1, <1>6 DEF Renamed
  <1>8. /\ m \in TransactionType
        /\ m = "stop" <=> "stop" \in InList(tr.jobs[u])
        /\ "start" \in InList(tr.jobs[u]) /\ "reload" \notin InList(tr.jobs[u]) => m \in {"start", "restart"}
        /\ "restart" \in InList(tr.jobs[u]) => m = "restart"
    BY <1>3, <1>5, <1>6, MergedFacts DEF MergedTo
  <1>9. Renamed(j) \in TJob
    BY <1>2, <1>7, <1>8 DEF TJob
  <1>10. CASE x \in {"stop", "restart"}
    <2>1. m = x
      BY <1>2, <1>8, <1>10
    <2> QED
      BY <1>2, <1>7, <1>9, <2>1
  <1>11. CASE x = "start"
    <2>1. "reload" \notin InList(tr.jobs[u])
      <3>1. PICK r : r = <<u, "reload">>
        BY Zenon
      <3>2. r[2] = "reload"
        BY <3>1
      <3>3. r \notin JobsOf(tr)
        BY Zenon, <1>1, <1>4, <1>11, <3>2 DEF OneKind
      <3> QED
        BY <1>2, <1>4, <3>1, <3>3, ListOf
    <2>2. m \in {"start", "restart"}
      BY <1>2, <1>8, <1>11, <2>1
    <2>3. CASE m = "start"
      BY <1>1, <1>2, <1>7, <1>9, <1>11, <2>3
    <2>4. CASE m = "restart"
      <3>1. \A g \in InList(Groups(<<u, "start">>)) : g.matters => g \in InList(Groups(<<u, "restart">>))
        BY <1>2, RestartNeedsMore
      <3>2. Needs(<<u, "start">>) \subseteq Needs(<<u, "restart">>)
        BY ZenonT(60), <3>1 DEF Needs
      <3> QED
        BY <1>1, <1>2, <1>7, <1>9, <1>11, <2>4, <3>2
    <2> QED
      BY <2>2, <2>3, <2>4
  <1>12. CASE x \in {"verify-active", "reload", "nop"}
    <2>1. \A g \in InList(Groups(<<u, x>>)) : ~g.matters
      BY Zenon, <1>2, <1>12, NothingMatters
    <2>2. Needs(<<u, x>>) = {}
      BY <2>1 DEF Needs
    <2> QED
      BY <1>1, <1>2, <1>9, <1>12, <2>2
  <1> QED
    BY <1>2, <1>10, <1>11, <1>12 DEF TransactionType, MergingType

LEMMA MergedReach ==
    ASSUME FiniteSetFacts, TInv, MergeJobs, NEW j \in JobsOf(tr)
    PROVE  NeededBy(j) \subseteq NeededBy(Renamed(j)) \cup {j}
  <1>1. PICK r : r = Renamed(j)
    OBVIOUS
  <1>2. r \in TJob /\ Needs(j) \subseteq Needs(r)
    BY <1>1, MergedNeeds
  <1>3. PICK C : C = NeededBy(r) \cup {j}
    BY Zenon
  <1>4. ASSUME NEW i \in TJob, NEW k \in TJob, i \in C, k \in Needs(i) PROVE k \in C
    <2>1. CASE i \in NeededBy(r)
      BY SMTT(30), <1>3, <1>4, <2>1, NeededByClosed
    <2>2. CASE i = j
      <3>1. r \in NeededBy(r) /\ k \in Needs(r)
        BY <1>2, <1>4, <2>2, NeededByClosed
      <3> QED
        BY <1>2, <1>3, <3>1, NeededByClosed
    <2> QED
      BY <1>3, <1>4, <2>1, <2>2
  <1>5. j \in C
    BY <1>3
  <1>6. NeededBy(j) \subseteq C
    BY <1>4, <1>5, NeededByClosed
  <1> QED
    BY <1>1, <1>3, <1>6

LinksNeeded(t) == \A l \in t.links : l.matters => l.object \in Needs(l.subject)

StopsWithin(t, C) ==
    \A u \in Unit : <<u, "stop">> \in JobsOf(t) /\ ActiveOrActivating(ustate[u]) => <<u, "stop">> \in C

\* In mode fail: the links are what the dependencies say, the marks are on what
\* the request needs, and only that stops anything.
NeedOK ==
    mode = "fail" =>
        /\ phase \in Building \cup {"mark"} => LinksNeeded(tr)
        /\ phase \in Marking => tr.matter \subseteq NeededBy(anchor)
        /\ phase \in (Marking \ {"minimize"}) \cup Merged => StopsWithin(tr, NeededBy(anchor))

LEMMA NeedSame ==
    ASSUME dep' = dep, ustate' = ustate
    PROVE  /\ LinksNeeded(tr)' <=> LinksNeeded(tr')
           /\ NeededBy(anchor)' = NeededBy(anchor')
           /\ StopsWithin(tr, NeededBy(anchor))' <=> StopsWithin(tr', NeededBy(anchor'))
  <1>1. \A j : Needs(j)' = Needs(j)
    BY GroupsSame DEF Needs
  <1>2. NeedsGraph' = NeedsGraph
    BY <1>1 DEF NeedsGraph
  <1>3. NeededBy(anchor)' = NeededBy(anchor')
    BY <1>2 DEF NeededBy, Reach
  <1>4. JobsOf(tr)' = JobsOf(tr')
    BY DEF JobsOf
  <1> QED
    BY <1>1, <1>3, <1>4 DEF LinksNeeded, StopsWithin

LEMMA NeedShrinks ==
    ASSUME FiniteSetFacts, TInv, NEW X, tr' = Without(tr, X)
    PROVE  /\ JobsOf(tr') = JobsOf(tr) \ X
           /\ tr'.matter \subseteq tr.matter
           /\ \A C : StopsWithin(tr, C) => StopsWithin(tr', C)
  <1>1. JobsOf(tr') = JobsOf(tr) \ X /\ tr'.matter = tr.matter \ X
    BY WithoutJobs DEF TInv, TypeOK
  <1> QED
    BY <1>1 DEF StopsWithin

LEMMA AddDependencyNeed ==
    ASSUME FiniteSetFacts, TInv, NeedOK, calls # << >>, phase \in Building, NEW v \in Unit, AddDependency(v)
    PROVE  NeedOK'
  <1>1. PICK f : f = Head(calls)
    OBVIOUS
  <1>2. PICK g : g = Groups(f.job)[f.at]
    OBVIOUS
  <1>3. PICK t : t = job_type_collapse(g.type, ustate[v])
    OBVIOUS
  <1>4. /\ f.job \in JobsOf(tr) /\ f.job \in TJob /\ f.at \in 1 .. Len(Groups(f.job)) /\ g \in GroupRecord
        /\ f \in Sound(tr)
    BY <1>1, <1>2, HeadCall
  <1>5. t \in TransactionType
    BY <1>3, <1>4, CollapsedType DEF GroupRecord
  <1>6. UNCHANGED <<dep, ustate, installed, mode>> /\ v \in f.left
    BY Zenon, <1>1 DEF AddDependency
  <1>7. \/ UNCHANGED <<phase, anchor, tr>>
        \/ phase' = "idle"
        \/ /\ tr' = WithJob(tr, <<v, t>>, f.job, g.matters, g.conflicts)
           /\ UNCHANGED <<phase, anchor>>
    BY Zenon, <1>1, <1>2, <1>3 DEF AddDependency
  <1>8. CASE phase' = "idle"
    BY Zenon, <1>8 DEF NeedOK, Building, Marking, Merged
  <1> SUFFICES ASSUME mode = "fail", phase' = phase PROVE LinksNeeded(tr')
    BY Zenon, <1>6, <1>7, <1>8, NeedSame DEF NeedOK, Building, Marking, Merged
  <1>9. LinksNeeded(tr) /\ phase # "idle"
    BY Zenon DEF NeedOK, Building
  <1>10. CASE UNCHANGED <<phase, anchor, tr>>
    BY <1>9, <1>10
  <1>11. CASE tr' = WithJob(tr, <<v, t>>, f.job, g.matters, g.conflicts)
    <2>1. PICK j, by, m, c : j = <<v, t>> /\ by = f.job /\ m = g.matters /\ c = g.conflicts
      BY Zenon
    <2>2. j \in TJob /\ by \in JobsOf(tr) /\ m \in BOOLEAN /\ c \in BOOLEAN /\ WellFormed(tr)
      BY <1>4, <1>5, <2>1 DEF TJob, GroupRecord, TInv
    <2>3. tr'.links = tr.links \cup {[subject |-> by, object |-> j, matters |-> m, conflicts |-> c]}
      BY <1>11, <2>1, <2>2, WithJobIs
    <2>4. g \in InList(Groups(f.job)) /\ v \in g.units
      <3>1. PICK A : A = {h \in GroupRecord : h.type \in Pulled(f.job[2])}
        BY Zenon
      <3>2. Groups(f.job) \in Seq(A)
        BY Zenon, <1>4, <3>1, GroupsTyped
      <3>3. f.at \in DOMAIN Groups(f.job)
        BY <1>4, <3>2
      <3> QED
        BY <1>2, <1>4, <1>6, <3>3 DEF InList, Sound
    <2>5. m => j \in Needs(by)
      BY Zenon, <1>3, <2>1, <2>4, NeedsIs
    <2>6. ASSUME NEW l \in tr'.links, l.matters PROVE l.object \in Needs(l.subject)
      <3>1. CASE l \in tr.links
        BY <1>9, <2>6, <3>1 DEF LinksNeeded
      <3>2. CASE l = [subject |-> by, object |-> j, matters |-> m, conflicts |-> c]
        <4>1. l.subject = by /\ l.object = j /\ l.matters = m
          BY <3>2
        <4> QED
          BY <2>5, <2>6, <4>1
      <3> QED
        BY <2>3, <2>6, <3>1, <3>2
    <2> QED
      BY <2>6 DEF LinksNeeded
  <1> QED
    BY Zenon, <1>7, <1>9, <1>10, <1>11 DEF Building

LEMMA MarkNeed ==
    ASSUME FiniteSetFacts, TInv, NeedOK, Mark PROVE NeedOK'
  <1>1. /\ phase = "mark" /\ tr' = Marked(tr) /\ UNCHANGED <<dep, ustate, mode, anchor>>
        /\ phase' = IF mode = "fail" THEN "minimize" ELSE "redundant"
    BY DEF Mark
  <1> SUFFICES ASSUME mode = "fail" PROVE tr'.matter \subseteq NeededBy(anchor)
    BY <1>1, NeedSame DEF NeedOK, Building, Marking, Merged
  <1>2. WellFormed(tr) /\ anchor \in JobsOf(tr) /\ LinksNeeded(tr)
    BY <1>1 DEF TInv, Staged, AnchorKept, NeedOK
  <1>3. PICK R : R = {<<l.subject, l.object>> : l \in {x \in tr.links : x.matters}}
    BY Zenon
  <1>4. tr'.matter = Reach(R, {anchor}) /\ Cardinality(R) \in Nat
    BY Zenon, <1>1, <1>2, <1>3, MarkedIs, FiniteRelation, SizeType DEF WellFormed
  <1>5. PICK C, S : C = NeededBy(anchor) /\ S = {anchor}
    BY Zenon
  <1>6. ASSUME NEW e \in R, e[1] \in C PROVE e[2] \in C
    <2>1. PICK l \in tr.links : l.matters /\ e = <<l.subject, l.object>>
      BY <1>3, <1>6
    <2>2. e[1] = l.subject /\ e[2] = l.object
      BY <2>1
    <2>3. l.subject \in TJob /\ l.object \in TJob
      BY <1>2 DEF WellFormed, JobsOf
    <2>4. l.object \in Needs(l.subject)
      BY <1>2, <2>1 DEF LinksNeeded
    <2> QED
      BY <1>5, <1>6, <2>2, <2>3, <2>4, NeededByClosed
  <1>7. S \subseteq C
    BY <1>5, NeededByClosed
  <1>8. Reach(R, S) \subseteq C
    BY <1>4, <1>6, <1>7, ReachWithin
  <1> QED
    BY <1>4, <1>5, <1>8

LEMMA MinimizeNeed ==
    ASSUME FiniteSetFacts, TInv, NeedOK, Minimize PROVE NeedOK'
  <1>1. /\ phase = "minimize" /\ tr' = Minimized(tr) /\ phase' = "redundant"
        /\ UNCHANGED <<dep, ustate, mode, anchor>>
    BY DEF Minimize
  <1>2. PICK S : /\ \A u \in Unit : <<u, "stop">> \in JobsOf(tr) \ tr.matter /\ ActiveOrActivating(ustate[u])
                                       => <<u, "stop">> \in S
                 /\ tr' = DeleteWithDependents(tr, S)
    <2>1. PICK S : /\ S = {j \in JobsOf(tr) :
                             /\ j \notin tr.matter
                             /\ \/ j[2] = "stop" /\ ActiveOrActivating(ustate[j[1]])
                                \/ /\ installed[j[1]] # None
                                   /\ job_type_is_conflicting(j[2], installed[j[1]].type)}
                   /\ tr' = DeleteWithDependents(tr, S)
      BY Zenon, <1>1 DEF Minimized
    <2>2. ASSUME NEW u \in Unit, <<u, "stop">> \in JobsOf(tr) \ tr.matter, ActiveOrActivating(ustate[u])
          PROVE  <<u, "stop">> \in S
      <3>1. PICK j : j = <<u, "stop">>
        BY Zenon
      <3>2. j[1] = u /\ j[2] = "stop" /\ j \in JobsOf(tr) \ tr.matter
        BY <2>2, <3>1
      <3>3. j \in S
        BY <2>1, <2>2, <3>2
      <3> QED
        BY <3>1, <3>3
    <2> QED
      BY <2>1, <2>2
  <1>3. WellFormed(tr)
    BY DEF TInv
  <1>4. PICK X : Deletes(tr, S, X)
    <2>1. PICK C : C = JobsOf(tr) \cup S
      BY Zenon
    <2>2. Upward(tr, C) /\ S \subseteq C
      BY <1>3, <2>1 DEF WellFormed, Upward
    <2> QED
      BY Zenon, <1>3, <2>2, DeletedIs
  <1>5. tr' = Without(tr, X) /\ S \subseteq X
    BY <1>2, <1>4 DEF Deletes
  <1>6. JobsOf(tr') = JobsOf(tr) \ X /\ tr'.matter \subseteq tr.matter
    BY <1>5, NeedShrinks
  <1> SUFFICES ASSUME mode = "fail"
               PROVE  tr'.matter \subseteq NeededBy(anchor) /\ StopsWithin(tr', NeededBy(anchor))
    BY <1>1, NeedSame DEF NeedOK, Building, Marking, Merged
  <1>7. tr.matter \subseteq NeededBy(anchor)
    BY <1>1 DEF NeedOK, Marking
  <1> QED
    BY <1>2, <1>5, <1>6, <1>7 DEF StopsWithin

LEMMA MergeNeed ==
    ASSUME FiniteSetFacts, TInv, NeedOK, MergeJobs PROVE NeedOK'
  <1>1. /\ phase = "merge" /\ phase' = "redundant again" /\ anchor' = Renamed(anchor)
        /\ UNCHANGED <<dep, ustate, mode>>
    BY Zenon, MergeJobsIs
  <1> SUFFICES ASSUME mode = "fail" PROVE StopsWithin(tr', NeededBy(anchor'))
    BY Zenon, <1>1, NeedSame DEF NeedOK, Building, Marking, Merged
  <1> SUFFICES ASSUME NEW u \in Unit, <<u, "stop">> \in JobsOf(tr'), ActiveOrActivating(ustate[u])
               PROVE  <<u, "stop">> \in NeededBy(anchor')
    BY DEF StopsWithin
  <1>2. <<u, "stop">> \in JobsOf(tr)
    BY Zenon, MergingKeeps DEF HasType
  <1>3. PICK j : j = <<u, "stop">>
    OBVIOUS
  <1>4. j \in NeededBy(anchor)
    BY Zenon, <1>1, <1>2, <1>3 DEF NeedOK, StopsWithin, Marking
  <1>5. anchor \in JobsOf(tr)
    BY Zenon, <1>1 DEF TInv, Staged, AnchorKept
  <1>6. NeededBy(anchor) \subseteq NeededBy(Renamed(anchor)) \cup {anchor}
    BY <1>5, MergedReach
  <1>7. CASE j = anchor
    <2>1. Renamed(anchor) = anchor
      BY <1>3, <1>5, <1>7, MergedNeeds
    <2> QED
      BY Zenon, <1>1, <1>3, <1>4, <2>1
  <1> QED
    BY Zenon, <1>1, <1>3, <1>4, <1>6, <1>7

LEMMA OnlyMinimize ==
    ASSUME phase = "minimize", Next PROVE Minimize
  <1>1. ~Build /\ ~Built /\ ~OthersStopped /\ ~Mark /\ ~Activate /\ ~DropRedundant /\ ~CollectGarbage
        /\ ~VerifyOrder /\ ~MergeJobs
    BY DEF Build, Built, OthersStopped, Mark, Activate, DropRedundant, CollectGarbage, VerifyOrder, MergeJobs
  <1>2. \A u \in Unit : ~StopOther(u) /\ ~DropUnmergeable(u)
    BY DEF StopOther, DropUnmergeable
  <1>3. \A q : ~AddJob(q[1], q[2], q[3]) /\ ~PropagateReload(q[1], q[2])
    BY DEF AddJob, PropagateReload
  <1>4. \A u, s : ~JobEnds(u, s)
    BY DEF JobEnds
  <1> QED
    BY <1>1, <1>2, <1>3, <1>4 DEF Next, Step

LEMMA NeedNext ==
    ASSUME FiniteSetFacts, TInv, NeedOK, [Next]_vars PROVE NeedOK'
  <1>1. CASE UNCHANGED vars
    <2>1. UNCHANGED <<dep, ustate, mode, phase, tr, anchor>>
      BY <1>1 DEF vars
    <2>2. (LinksNeeded(tr) <=> LinksNeeded(tr')) /\ NeededBy(anchor') = NeededBy(anchor)
          /\ (StopsWithin(tr, NeededBy(anchor)) <=> StopsWithin(tr', NeededBy(anchor')))
      BY <2>1
    <2> QED
      BY <2>1, <2>2, NeedSame DEF NeedOK
  <1>2. CASE Mark
    BY <1>2, MarkNeed
  <1>3. CASE Minimize
    BY SMTT(30), <1>3, MinimizeNeed
  <1>4. CASE MergeJobs
    BY <1>4, MergeNeed
  <1>5. CASE Build
    <2>1. phase \in Building /\ calls # << >> /\ (NextGroup \/ \E v \in Unit : AddDependency(v))
      BY Zenon, <1>5 DEF Build, Building
    <2>2. CASE NextGroup
      <3>1. UNCHANGED <<dep, ustate, mode, phase, tr, anchor>>
        BY <2>2 DEF NextGroup
      <3>2. LinksNeeded(tr) <=> LinksNeeded(tr')
        BY <3>1
      <3> QED
        BY Zenon, <2>1, <3>1, <3>2, NeedSame DEF NeedOK, Building, Marking, Merged
    <2> QED
      BY <2>1, <2>2, AddDependencyNeed
  <1>6. CASE Built
    <2>1. /\ phase = "build" /\ phase' \in {"stop others", "mark"}
          /\ UNCHANGED <<dep, ustate, mode, tr, anchor>>
      BY Zenon, <1>6 DEF Built
    <2>2. LinksNeeded(tr) <=> LinksNeeded(tr')
      BY Zenon, <2>1
    <2> QED
      BY Zenon, <2>1, <2>2, NeedSame DEF NeedOK, Building, Marking, Merged
  <1>7. CASE OthersStopped \/ \E u \in Unit : StopOther(u)
    <2>1. phase = "stop others" /\ mode' = mode
      BY Zenon, <1>7 DEF OthersStopped, StopOther
    <2>2. mode # "fail"
      BY Zenon, <2>1 DEF TInv, Staged
    <2> QED
      BY Zenon, <2>1, <2>2 DEF NeedOK
  <1>8. CASE DropRedundant
    <2>1. /\ tr' = WithoutRedundant(tr) /\ UNCHANGED <<dep, ustate, mode, anchor>>
          /\ \/ phase = "redundant" /\ phase' = "gc before order"
             \/ phase = "redundant again" /\ phase' = "activate"
      BY Zenon, <1>8 DEF DropRedundant
    <2>2. PICK X : tr' = Without(tr, X)
      BY Zenon, <2>1, RedundantIs DEF TInv, TypeOK
    <2>3. /\ tr'.matter \subseteq tr.matter
          /\ StopsWithin(tr, NeededBy(anchor)) => StopsWithin(tr', NeededBy(anchor))
      BY <2>2, NeedShrinks
    <2> QED
      BY ZenonT(60), <2>1, <2>3, NeedSame DEF NeedOK, Building, Marking, Merged
  <1>9. CASE phase \in Marking /\ Next /\ ~Minimize /\ ~MergeJobs /\ ~DropRedundant
    <2>1. phase # "minimize"
      BY <1>9, OnlyMinimize
    <2>2. CASE phase' = "idle"
      BY Zenon, <2>2 DEF NeedOK, Building, Marking, Merged
    <2>3. CASE phase' \in Marking /\ Shrinks
      <3>1. /\ UNCHANGED <<dep, ustate, mode, anchor>>
            /\ tr' = tr \/ \E X : tr' = Without(tr, X)
        BY <2>3 DEF Shrinks
      <3>2. /\ tr'.matter \subseteq tr.matter
            /\ StopsWithin(tr, NeededBy(anchor)) => StopsWithin(tr', NeededBy(anchor))
        BY <3>1, NeedShrinks
      <3> QED
        BY Zenon, <1>9, <2>1, <2>3, <3>1, <3>2, NeedSame DEF NeedOK, Building, Marking, Merged
    <2> QED
      BY SMTT(30), <1>9, <2>2, <2>3, MarkingShrinks
  <1>10. CASE Activate \/ \E u, s : JobEnds(u, s)
    BY Zenon, <1>10 DEF Activate, Abort, JobEnds, NeedOK, Building, Marking, Merged
  <1>11. ASSUME NEW q, AddJob(q[1], q[2], q[3]) \/ PropagateReload(q[1], q[2]) PROVE NeedOK'
    <2>1. phase' = "idle" \/ (phase' = "build" /\ tr'.links = {})
      BY <1>11 DEF AddJob, PropagateReload, EmptyTr
    <2> QED
      BY Zenon, <2>1 DEF NeedOK, LinksNeeded, Building, Marking, Merged
  <1>12. CASE phase \notin Marking /\ (CollectGarbage \/ VerifyOrder \/ \E u \in Unit : DropUnmergeable(u))
    BY Zenon, <1>12 DEF CollectGarbage, VerifyOrder, DropUnmergeable, Marking
  <1> QED
    BY <1>1, <1>2, <1>3, <1>4, <1>5, <1>6, <1>7, <1>8, <1>9, <1>10, <1>11, <1>12 DEF Next, Step

-----------------------------------------------------------------------------
(* The invariant and what follows from it.                                 *)

\* Throughout a request the transaction is sound: its links join jobs that are
\* in it, the calls of transaction_add_job_and_dependencies() under way are for
\* jobs that are in it, the job asked for is in it and marked once the marks
\* are made, the marks are closed, and reloads are not mixed with other jobs.
THEOREM TransactionInvariant == Spec => []TInv
  <1>1. Init => TInv
    BY FiniteSetFactsHold, InitInvariant
  <1>2. TInv /\ [Next]_vars => TInv'
    BY FiniteSetFactsHold, NextInvariant
  <1> QED
    BY <1>1, <1>2, PTL DEF Spec

\* transaction_minimize_impact(), transaction_verify_order(), delete_one_
\* unmergeable_job(), transaction_collect_garbage() and transaction_drop_
\* redundant() never delete the job that was asked for.
THEOREM AnchorNeverDeleted == Spec => []AnchorKept
  <1>1. TInv => AnchorKept
    BY ZenonT(60) DEF TInv, Staged
  <1> QED
    BY <1>1, TransactionInvariant, PTL

\* What transaction_find_jobs_that_matter_to_anchor() marks stays closed under
\* the links that matter, whatever is deleted until the jobs are merged.
THEOREM MarksStayClosed == Spec => []MarksClosed
  <1>1. TInv => MarksClosed
    BY Zenon DEF TInv, TypeOK, Phase, Staged, Marking, ClosedMarks, MarksClosed
  <1> QED
    BY <1>1, TransactionInvariant, PTL

\* A reload and a start of one unit are never in one transaction, so merging
\* never yields JOB_RELOAD_OR_START, which can not enter one (job.h).
THEOREM ReloadNeverMeetsStart == Spec => []ReloadApart
  <1>1. TInv => ReloadApart
    <2> SUFFICES ASSUME TInv, NEW u \in Unit,
                        "reload" \in InList(tr.jobs[u]), "start" \in InList(tr.jobs[u])
                 PROVE  FALSE
      BY DEF ReloadApart
    <2>1. tr.jobs[u] \in Seq(TransactionType)
      BY DEF TInv, TypeOK, Tr
    <2>2. PICK i, k \in DOMAIN tr.jobs[u] : tr.jobs[u][i] = "reload" /\ tr.jobs[u][k] = "start"
      BY DEF InList
    <2>3. ~(Len(tr.jobs[u]) <= 1)
      BY <2>1, <2>2
    <2>4. OneKind(tr)
      BY Zenon, <2>3 DEF TInv, Staged
    <2>5. PICK x, y : x = <<u, "reload">> /\ y = <<u, "start">>
      BY Zenon
    <2>6. x \in JobsOf(tr) /\ y \in JobsOf(tr) /\ x[2] = "reload" /\ y[2] = "start"
      BY <2>5 DEF JobsOf, TJob, TransactionType, MergingType
    <2> QED
      BY <2>4, <2>6 DEF OneKind
  <1> QED
    BY <1>1, TransactionInvariant, PTL

\* After transaction_apply() the unit asked about has a job that includes the
\* one asked for, or that one is redundant in the state the unit is in.
THEOREM RequestGranted == Spec => AnchorHonoured
  <1>1. TInv /\ [Next]_vars => [AnchorStep]_vars
    BY AnchorStepHolds
  <1> QED
    BY <1>1, TransactionInvariant, PTL DEF Spec, AnchorHonoured

\* transaction_apply() never replaces an irreversible job by one that
\* contradicts it, nor takes its mark away (transaction_is_destructive(),
\* job_merge_into_installed()).
THEOREM IrreversibleJobsKept == Spec => IrreversibleKept
  <1>1. TInv /\ [Next]_vars => [IrreversibleStep]_vars
    BY IrreversibleStepHolds
  <1> QED
    BY <1>1, TransactionInvariant, PTL DEF Spec, IrreversibleKept

\* If every unit can be loaded, a job that another can not do without is in the
\* transaction or to come while dependencies are added, in it or dispensable
\* until jobs are merged, and in it in merged form or dispensable afterwards.
THEOREM OutcomeInvariant == Masked = {} => (Spec => []OutcomeInv)
  <1> SUFFICES ASSUME Masked = {} PROVE Spec => []OutcomeInv
    OBVIOUS
  <1>1. Init => OutcomeInv
    <2>1. Init => TInv
      BY FiniteSetFactsHold, InitInvariant
    <2>2. Init => BuildOK /\ KeepOK /\ FinalOK
      BY DEF Init, BuildOK, KeepOK, FinalOK, Building, Marking, Merged
    <2> QED
      BY <2>1, <2>2 DEF OutcomeInv
  <1>2. OutcomeInv /\ [Next]_vars => OutcomeInv'
    BY FiniteSetFactsHold, NextInvariant, BuildNext, KeepNext, FinalNext DEF OutcomeInv
  <1> QED
    BY <1>1, <1>2, PTL DEF Spec

\* If every unit can be loaded, an applied start or restart comes with the start
\* of all that its unit requires or binds to, save what is up and stays so.
THEOREM RequirementsPulledIn == Masked = {} => (Spec => RequirementsHonoured)
  <1> SUFFICES ASSUME Masked = {} PROVE Spec => RequirementsHonoured
    OBVIOUS
  <1>1. OutcomeInv /\ [Next]_vars => [RequirementsStep]_vars
    BY OutcomeSteps
  <1>2. Spec => []OutcomeInv
    BY OutcomeInvariant
  <1> QED
    BY <1>1, <1>2, PTL DEF Spec, RequirementsHonoured

\* If every unit can be loaded, an applied start or restart comes with the stop
\* of all its unit conflicts with, save what is down and stays so.
THEOREM ConflictsStopped == Masked = {} => (Spec => ConflictsHonoured)
  <1> SUFFICES ASSUME Masked = {} PROVE Spec => ConflictsHonoured
    OBVIOUS
  <1>1. OutcomeInv /\ [Next]_vars => [ConflictsStep]_vars
    BY OutcomeSteps
  <1>2. Spec => []OutcomeInv
    BY OutcomeInvariant
  <1> QED
    BY <1>1, <1>2, PTL DEF Spec, ConflictsHonoured

\* If every unit can be loaded, an applied stop comes with the stop of all that
\* requires the unit or is part of it, save what is down and stays so.
THEOREM StopsReachDependents == Masked = {} => (Spec => StopsPropagated)
  <1> SUFFICES ASSUME Masked = {} PROVE Spec => StopsPropagated
    OBVIOUS
  <1>1. OutcomeInv /\ [Next]_vars => [StopsStep]_vars
    BY OutcomeSteps
  <1>2. Spec => []OutcomeInv
    BY OutcomeInvariant
  <1> QED
    BY <1>1, <1>2, PTL DEF Spec, StopsPropagated

\* In mode fail a transaction that is applied stops a running unit only if the
\* request can not do without (transaction_minimize_impact()), however jobs
\* were dropped and merged in between.
THEOREM NothingStoppedNeedlessly == Spec => NoNeedlessStop
  <1>1. Init => NeedOK
    BY DEF Init, NeedOK, Building, Marking, Merged
  <1>2. TInv /\ NeedOK /\ [Next]_vars => NeedOK'
    BY FiniteSetFactsHold, NeedNext
  <1>3. TInv /\ NeedOK => NeedlessStep
    <2> SUFFICES ASSUME TInv, NeedOK, Applied, mode = "fail", NEW u \in Unit, New(u, {"stop"}),
                        ActiveOrActivating(ustate[u])
                 PROVE  <<u, "stop">> \in NeededBy(anchor)
      BY DEF NeedlessStep, NeededBy
    <2>1. phase = "activate" /\ HasJob(tr, u) /\ Head(tr.jobs[u]) = "stop" /\ tr \in Tr
      BY DEF Applied, New, TInv, TypeOK
    <2>2. <<u, "stop">> \in JobsOf(tr)
      BY <2>1, HeadIs DEF Merged
    <2> QED
      BY <2>1, <2>2 DEF NeedOK, StopsWithin, Merged
  <1>4. TInv /\ NeedOK => [NeedlessStep]_vars
    BY <1>3
  <1> QED
    BY <1>1, <1>2, <1>4, TransactionInvariant, PTL DEF Spec, NoNeedlessStop
=============================================================================
