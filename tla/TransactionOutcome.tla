------------------------- MODULE TransactionOutcome -------------------------
(***************************************************************************)
(* Lemmas about what an applied transaction does: with a job come the jobs it *)
(* can not do without.                                                     *)
(***************************************************************************)
EXTENDS TransactionLemmas

USE Untyped

-----------------------------------------------------------------------------
(* What a job can not do without is in the transaction.  A unit that can   *)
(* not be loaded makes a call fail half-way, which a caller that only      *)
(* wants the job ignores; so this is about units none of which is refused. *)

\* The job of group g of what j pulls in for unit v was added, or need not be.
Added(t, j, g, v) ==
    LET x == job_type_collapse(g.type, ustate[v]) IN
    \/ x = "nop" \/ AddError(x, v) # "none"
    \/ [subject |-> j, object |-> <<v, x>>, matters |-> g.matters, conflicts |-> g.conflicts] \in t.links

\* One of the calls C will still see to unit v of the k-th group.
ToCome(C, j, k, v) == \E f \in C : f.job = j /\ (f.at < k \/ (f.at = k /\ v \in f.left))

Answered(t, C) ==
    \A j \in JobsOf(t) : j[2] # "nop" => \A k \in 1 .. Len(Groups(j)) : \A v \in Groups(j)[k].units :
        Added(t, j, Groups(j)[k], v) \/ ToCome(C, j, k, v)

BuildOK ==
    WithDependencies /\ phase \in Building \cup {"mark"} => Answered(tr, InList(calls))

LEMMA AnsweredSame ==
    ASSUME dep' = dep, ustate' = ustate
    PROVE  Answered(tr, InList(calls))' <=> Answered(tr', InList(calls'))
  <1>1. \A j : Groups(j)' = Groups(j)
    BY GroupsSame
  <1>2. \A x, v : AddError(x, v)' = AddError(x, v)
    BY DEF AddError, unit_job_is_applicable, unit_can_reload, DepsOf
  <1>3. \A j, g, v : Added(tr, j, g, v)' <=> Added(tr', j, g, v)
    BY <1>2 DEF Added
  <1>4. \A j, k, v : ToCome(InList(calls), j, k, v)' <=> ToCome(InList(calls'), j, k, v)
    BY DEF ToCome, InList
  <1>5. JobsOf(tr)' = JobsOf(tr')
    BY DEF JobsOf
  <1> QED
    BY <1>1, <1>3, <1>4, <1>5 DEF Answered

\* All the groups of j are still to come.
Opened(D, j) ==
    j[2] # "nop" => \A k \in 1 .. Len(Groups(j)) : \A v \in Groups(j)[k].units : ToCome(D, j, k, v)

\* What was to come in C is to come in D, or was seen to.
Carried(C, D, w) ==
    \A j \in TJob : \A k \in 1 .. Len(Groups(j)) : \A v \in Groups(j)[k].units :
        ToCome(C, j, k, v) => ToCome(D, j, k, v) \/ Added(w, j, Groups(j)[k], v)

LEMMA AnsweredStep ==
    ASSUME NEW t, NEW C, Answered(t, C), NEW w, NEW D, t.links \subseteq w.links,
           \A j \in JobsOf(w) : j \in JobsOf(t) \/ Opened(D, j),
           Carried(C, D, w)
    PROVE  Answered(w, D)
  <1> SUFFICES ASSUME NEW j \in JobsOf(w), j[2] # "nop", NEW k \in 1 .. Len(Groups(j)),
                      NEW v \in Groups(j)[k].units
               PROVE  Added(w, j, Groups(j)[k], v) \/ ToCome(D, j, k, v)
    BY DEF Answered
  <1>1. CASE Opened(D, j)
    BY <1>1 DEF Opened
  <1>2. CASE j \in JobsOf(t)
    <2>1. Added(t, j, Groups(j)[k], v) \/ ToCome(C, j, k, v)
      BY <1>2 DEF Answered
    <2>2. Added(t, j, Groups(j)[k], v) => Added(w, j, Groups(j)[k], v)
      BY DEF Added
    <2>3. j \in TJob
      BY DEF JobsOf
    <2> QED
      BY <2>1, <2>2, <2>3 DEF Carried
  <1> QED
    BY <1>1, <1>2

LEMMA GoOnIs ==
    ASSUME NEW j \in TJob, NEW i \in 1 .. Len(Groups(j))
    PROVE  [job |-> j, at |-> i, left |-> Groups(j)[i].units] \in InList(GoOn(j, i))
  <1>1. PICK f : f = [job |-> j, at |-> i, left |-> Groups(j)[i].units]
    BY Zenon
  <1>2. Len(Groups(j)) \in Nat
    BY GroupsTyped
  <1>3. GoOn(j, i) = <<f>>
    BY <1>1, <1>2 DEF GoOn
  <1>4. DOMAIN <<f>> = {1} /\ <<f>>[1] = f
    OBVIOUS
  <1> QED
    BY <1>1, <1>3, <1>4 DEF InList

LEMMA GoOnOpens ==
    ASSUME NEW j \in TJob, NEW D, InList(GoOn(j, 1)) \subseteq D
    PROVE  Opened(D, j)
  <1> SUFFICES ASSUME NEW k \in 1 .. Len(Groups(j)), NEW v \in Groups(j)[k].units
               PROVE  ToCome(D, j, k, v)
    BY DEF Opened
  <1>1. Len(Groups(j)) \in Nat
    BY GroupsTyped
  <1>2. 1 \in 1 .. Len(Groups(j))
    BY <1>1
  <1>3. PICK f : f = [job |-> j, at |-> 1, left |-> Groups(j)[1].units]
    BY Zenon
  <1>4. f \in D
    BY <1>2, <1>3, GoOnIs
  <1>5. f.job = j /\ f.at = 1 /\ f.left = Groups(j)[1].units
    BY <1>3
  <1>6. f.at < k \/ (f.at = k /\ v \in f.left)
    BY <1>1, <1>5
  <1> QED
    BY <1>4, <1>5, <1>6 DEF ToCome

\* The calls: the one under way, and those below it.
LEMMA CallsAre ==
    ASSUME NEW A, NEW s \in Seq(A), s # << >>, NEW x \in Seq(A), NEW h \in A
    PROVE  /\ InList(s) \subseteq {Head(s)} \cup InList(Tail(s))
           /\ InList(x) \subseteq InList(x \o (<<h>> \o Tail(s)))
           /\ InList(Tail(s)) \subseteq InList(x \o (<<h>> \o Tail(s)))
           /\ h \in InList(x \o (<<h>> \o Tail(s)))
           /\ InList(x) \subseteq InList(x \o Tail(s))
           /\ InList(Tail(s)) \subseteq InList(x \o Tail(s))
  <1>1. Tail(s) \in Seq(A) /\ <<h>> \in Seq(A)
    OBVIOUS
  <1>2. PICK r, y : r = Tail(s) /\ y = <<h>>
    BY Zenon
  <1>3. r \in Seq(A) /\ y \in Seq(A)
    BY <1>1, <1>2
  <1>4. y \o r \in Seq(A) /\ InList(y) \subseteq InList(y \o r) /\ InList(r) \subseteq InList(y \o r)
    BY <1>3, Concatenation
  <1>5. InList(x) \subseteq InList(x \o (y \o r)) /\ InList(y \o r) \subseteq InList(x \o (y \o r))
    BY Zenon, <1>4, Concatenation
  <1>6. InList(x) \subseteq InList(x \o r) /\ InList(r) \subseteq InList(x \o r)
    BY <1>3, Concatenation
  <1>7. h \in InList(y)
    <2>1. DOMAIN y = {1} /\ y[1] = h
      BY <1>2
    <2> QED
      BY <2>1 DEF InList
  <1>8. ASSUME NEW z \in InList(s) PROVE z \in {Head(s)} \cup InList(r)
    <2>1. PICK i \in DOMAIN s : z = s[i]
      BY DEF InList
    <2>2. DOMAIN s = 1 .. Len(s) /\ DOMAIN r = 1 .. Len(r) /\ Len(r) = Len(s) - 1 /\ Len(s) \in Nat
          /\ \A n \in 1 .. Len(r) : r[n] = s[n + 1]
      BY <1>2, <1>3
    <2>3. CASE i = 1
      BY <2>1, <2>3
    <2>4. CASE i # 1
      <3>1. i - 1 \in DOMAIN r /\ r[i - 1] = z
        BY <2>1, <2>2, <2>4
      <3> QED
        BY <3>1 DEF InList
    <2> QED
      BY <2>3, <2>4
  <1> QED
    BY <1>2, <1>4, <1>5, <1>6, <1>7, <1>8

\* A step of building: nothing that is to come is lost.
LEMMA BuildStep ==
    ASSUME BuildOK, phase \in Building, UNCHANGED <<dep, ustate, mode>>,
           tr.links \subseteq tr'.links,
           \A j \in JobsOf(tr') : j \in JobsOf(tr) \/ Opened(InList(calls'), j),
           Carried(InList(calls), InList(calls'), tr')
    PROVE  BuildOK'
  <1>1. CASE WithDependencies
    <2>1. Answered(tr, InList(calls))
      BY <1>1 DEF BuildOK
    <2>2. PICK w, D : w = tr' /\ D = InList(calls')
      OBVIOUS
    <2>3. Answered(w, D)
      BY <2>1, <2>2, AnsweredStep
    <2> QED
      BY <2>2, <2>3, AnsweredSame DEF BuildOK
  <1>2. CASE ~WithDependencies
    BY <1>2 DEF BuildOK, WithDependencies
  <1> QED
    BY <1>1, <1>2

LEMMA NextGroupBuild ==
    ASSUME TInv, BuildOK, phase \in Building, calls # << >>, NextGroup
    PROVE  BuildOK'
  <1>1. PICK f : f = Head(calls)
    OBVIOUS
  <1>2. /\ f.left = {} /\ calls' = GoOn(f.job, f.at + 1) \o Tail(calls)
        /\ UNCHANGED <<dep, ustate, installed, phase, mode, anchor, tr, visit, walk, seen, nreq>>
    BY <1>1 DEF NextGroup
  <1>3. f \in Sound(tr) /\ f.job \in JobsOf(tr) /\ f.job \in TJob /\ f.at \in 1 .. Len(Groups(f.job))
        /\ Tail(calls) \in Seq(Sound(tr))
    BY <1>1, HeadCall
  <1>4. Len(Groups(f.job)) \in Nat
    BY <1>3, GroupsTyped
  <1>5. PICK x : x = GoOn(f.job, f.at + 1)
    OBVIOUS
  <1>6. x \in Seq(Sound(tr))
    BY <1>3, <1>4, <1>5, GoOnSound
  <1>7. calls \in Seq(Sound(tr))
    BY DEF TInv, CallsOK
  <1>8. PICK D : D = InList(calls')
    OBVIOUS
  <1>9. /\ InList(calls) \subseteq {f} \cup InList(Tail(calls))
        /\ InList(x) \subseteq D /\ InList(Tail(calls)) \subseteq D
    <2>1. PICK A : A = Sound(tr)
      OBVIOUS
    <2>2. calls \in Seq(A) /\ x \in Seq(A) /\ f \in A
      BY <1>3, <1>6, <1>7, <2>1
    <2>3. calls' = x \o Tail(calls)
      BY <1>2, <1>5
    <2>4. /\ InList(calls) \subseteq {Head(calls)} \cup InList(Tail(calls))
          /\ InList(x) \subseteq InList(x \o Tail(calls)) /\ InList(Tail(calls)) \subseteq InList(x \o Tail(calls))
      BY Zenon, <2>2, CallsAre
    <2> QED
      BY <1>1, <1>8, <2>3, <2>4
  <1>10. ASSUME NEW j \in TJob, NEW k \in 1 .. Len(Groups(j)), NEW v \in Groups(j)[k].units,
                ToCome(InList(calls), j, k, v)
         PROVE  ToCome(D, j, k, v)
    <2>1. PICK e \in InList(calls) : e.job = j /\ (e.at < k \/ (e.at = k /\ v \in e.left))
      BY <1>10 DEF ToCome
    <2>2. CASE e \in D
      BY <2>1, <2>2 DEF ToCome
    <2>3. CASE e = f
      <3>1. f.job = j /\ f.at < k
        BY <1>2, <2>1, <2>3
      <3>2. f.at + 1 \in 1 .. Len(Groups(j))
        BY <1>3, <1>4, <3>1
      <3>3. PICK h : h = [job |-> j, at |-> f.at + 1, left |-> Groups(j)[f.at + 1].units]
        BY Zenon
      <3>4. h \in InList(x)
        BY <1>5, <3>1, <3>2, <3>3, GoOnIs
      <3>5. h.job = j /\ (h.at < k \/ (h.at = k /\ v \in h.left))
        BY <1>3, <1>4, <3>1, <3>2, <3>3
      <3> QED
        BY <1>9, <3>4, <3>5 DEF ToCome
    <2> QED
      BY <1>9, <2>1, <2>2, <2>3
  <1>11. Carried(InList(calls), InList(calls'), tr')
    BY <1>8, <1>10 DEF Carried
  <1>12. JobsOf(tr') = JobsOf(tr) /\ tr'.links = tr.links
    BY <1>2
  <1> QED
    BY <1>2, <1>11, <1>12, BuildStep

LEMMA AddDependencyBuild ==
    ASSUME FiniteSetFacts, Masked = {}, TInv, BuildOK, calls # << >>, NEW v \in Unit, AddDependency(v)
    PROVE  BuildOK'
  <1>1. PICK f : f = Head(calls)
    OBVIOUS
  <1>2. PICK g : g = Groups(f.job)[f.at]
    OBVIOUS
  <1>3. PICK t : t = job_type_collapse(g.type, ustate[v])
    OBVIOUS
  <1>4. PICK h : h = [f EXCEPT !.left = @ \ {v}]
    BY Zenon
  <1>5. /\ f \in Sound(tr) /\ f.job \in JobsOf(tr) /\ f.job \in TJob /\ f.at \in 1 .. Len(Groups(f.job))
        /\ Tail(calls) \in Seq(Sound(tr)) /\ g \in GroupRecord /\ phase \in Building
    BY <1>1, <1>2, HeadCall
  <1>6. h.job = f.job /\ h.at = f.at /\ h.left = f.left \ {v} /\ h \in Sound(tr)
    BY Zenon, <1>4, <1>5 DEF Sound, Call
  <1>7. t \in TransactionType
    BY <1>3, <1>5, CollapsedType DEF GroupRecord
  <1>8. UNCHANGED <<dep, ustate, installed, mode, visit, walk, seen, nreq>>
    BY Zenon DEF AddDependency
  <1>9. AddError(t, v) # "refused"
    BY DEF AddError
  <1>10. \/ /\ t = "nop" \/ AddError(t, v) # "none"
            /\ calls' = <<h>> \o Tail(calls) /\ UNCHANGED <<phase, anchor, tr>>
         \/ /\ tr' = WithJob(tr, <<v, t>>, f.job, g.matters, g.conflicts)
            /\ calls' = (IF t \notin InList(tr.jobs[v]) THEN GoOn(<<v, t>>, 1) ELSE <<>>) \o (<<h>> \o Tail(calls))
            /\ UNCHANGED <<phase, anchor>>
    BY Zenon, <1>1, <1>2, <1>3, <1>4, <1>9 DEF AddDependency
  <1>11. calls \in Seq(Sound(tr)) /\ tr \in Tr
    BY DEF TInv, CallsOK, TypeOK
  <1>12. ASSUME NEW D, InList(Tail(calls)) \subseteq D, h \in D, NEW w, Added(w, f.job, g, v)
         PROVE  Carried(InList(calls), D, w)
    <2> SUFFICES ASSUME NEW j \in TJob, NEW k \in 1 .. Len(Groups(j)), NEW x \in Groups(j)[k].units,
                        ToCome(InList(calls), j, k, x)
                 PROVE  ToCome(D, j, k, x) \/ Added(w, j, Groups(j)[k], x)
      BY DEF Carried
    <2>1. PICK e \in InList(calls) : e.job = j /\ (e.at < k \/ (e.at = k /\ x \in e.left))
      BY DEF ToCome
    <2>2. << >> \in Seq(Sound(tr))
      OBVIOUS
    <2>3. InList(calls) \subseteq {f} \cup InList(Tail(calls))
      BY Zenon, <1>1, <1>6, <1>11, <2>2, CallsAre
    <2>4. CASE e \in D
      BY <2>1, <2>4 DEF ToCome
    <2>5. CASE e = f /\ (e.at < k \/ x # v)
      <3>1. h.job = j /\ (h.at < k \/ (h.at = k /\ x \in h.left))
        BY <1>6, <2>1, <2>5
      <3> QED
        BY <1>12, <3>1 DEF ToCome
    <2>6. CASE e = f /\ e.at = k /\ x = v
      BY <1>2, <1>12, <2>1, <2>6
    <2> QED
      BY <1>12, <2>1, <2>3, <2>4, <2>5, <2>6
  <1>13. CASE /\ t = "nop" \/ AddError(t, v) # "none"
              /\ calls' = <<h>> \o Tail(calls) /\ UNCHANGED <<phase, anchor, tr>>
    <2>1. Added(tr', f.job, g, v)
      BY <1>3, <1>13 DEF Added
    <2>2. PICK y, r : y = <<h>> /\ r = Tail(calls)
      BY Zenon
    <2>3. y \in Seq(Sound(tr)) /\ r \in Seq(Sound(tr)) /\ calls' = y \o r
      BY <1>5, <1>6, <1>13, <2>2
    <2>4. InList(r) \subseteq InList(calls') /\ InList(y) \subseteq InList(calls')
      BY <2>3, Concatenation
    <2>5. h \in InList(y)
      <3>1. DOMAIN y = {1} /\ y[1] = h
        BY <2>2
      <3> QED
        BY <3>1 DEF InList
    <2>6. Carried(InList(calls), InList(calls'), tr')
      BY <1>12, <2>1, <2>2, <2>4, <2>5
    <2>7. JobsOf(tr') = JobsOf(tr) /\ tr'.links = tr.links
      BY <1>13
    <2> QED
      BY <1>5, <1>8, <2>6, <2>7, BuildStep
  <1>14. CASE /\ tr' = WithJob(tr, <<v, t>>, f.job, g.matters, g.conflicts)
              /\ calls' = (IF t \notin InList(tr.jobs[v]) THEN GoOn(<<v, t>>, 1) ELSE <<>>) \o (<<h>> \o Tail(calls))
              /\ UNCHANGED <<phase, anchor>>
    <2>1. PICK j : j = <<v, t>>
      BY Zenon
    <2>2. j \in TJob /\ j[1] = v /\ j[2] = t
      BY <1>7, <2>1 DEF TJob
    <2>3. g.matters \in BOOLEAN /\ g.conflicts \in BOOLEAN
      BY <1>5 DEF GroupRecord
    <2>4. tr' = WithJob(tr, j, f.job, g.matters, g.conflicts)
      BY <1>14, <2>1
    <2>5. /\ JobsOf(tr') = JobsOf(tr) \cup {j}
          /\ tr'.links = tr.links \cup {[subject |-> f.job, object |-> j, matters |-> g.matters, conflicts |-> g.conflicts]}
      BY <1>5, <2>2, <2>3, <2>4, WithJobIs DEF TInv
    <2>6. Added(tr', f.job, g, v)
      BY <1>3, <2>1, <2>5 DEF Added
    <2>7. PICK x : x = IF t \notin InList(tr.jobs[v]) THEN GoOn(<<v, t>>, 1) ELSE <<>>
      OBVIOUS
    <2>8. calls' = x \o (<<h>> \o Tail(calls))
      BY <1>14, <2>7
    <2>9. x \in Seq(Sound(tr'))
      <3>1. << >> \in Seq(Sound(tr'))
        OBVIOUS
      <3>2. GoOn(j, 1) \in Seq(Sound(tr'))
        BY <2>5, GoOnSound
      <3> QED
        BY <2>1, <2>7, <3>1, <3>2
    <2>10. calls \in Seq(Sound(tr')) /\ h \in Sound(tr')
      <3>1. Sound(tr) \subseteq Sound(tr')
        BY <2>5 DEF Sound
      <3> QED
        BY <1>6, <1>11, <3>1
    <2>11. InList(x) \subseteq InList(calls') /\ InList(Tail(calls)) \subseteq InList(calls') /\ h \in InList(calls')
      BY <2>8, <2>9, <2>10, CallsAre
    <2>12. Carried(InList(calls), InList(calls'), tr')
      BY <1>12, <2>6, <2>11
    <2>13. j \in JobsOf(tr) \/ Opened(InList(calls'), j)
      <3>1. CASE t \in InList(tr.jobs[v])
        BY <2>2, <3>1 DEF JobsOf
      <3>2. CASE t \notin InList(tr.jobs[v])
        BY <2>1, <2>2, <2>7, <2>11, <3>2, GoOnOpens
      <3> QED
        BY <3>1, <3>2
    <2> QED
      BY <1>5, <1>8, <2>5, <2>12, <2>13, BuildStep
  <1> QED
    BY Zenon, <1>10, <1>13, <1>14

LEMMA StopOtherBuild ==
    ASSUME FiniteSetFacts, TInv, BuildOK, NEW u \in Unit, StopOther(u)
    PROVE  BuildOK'
  <1>1. /\ UNCHANGED <<dep, ustate, installed, phase, mode, anchor, walk, seen, nreq>>
        /\ phase = "stop others" /\ calls = << >>
        /\ \/ UNCHANGED <<tr, calls>>
           \/ tr' = WithJob(tr, <<u, "stop">>, anchor, TRUE, FALSE) /\ calls' = GoOn(<<u, "stop">>, 1)
    BY Zenon DEF StopOther
  <1>2. phase \in Building /\ anchor \in JobsOf(tr)
    BY Zenon, <1>1 DEF TInv, Staged, AnchorKept, Building
  <1>3. ASSUME NEW D, NEW w PROVE Carried(InList(calls), D, w)
    <2>0. InList(<< >>) = {}
      BY DEF InList
    <2>1. InList(calls) = {}
      BY Zenon, <1>1, <2>0
    <2> QED
      BY <2>1 DEF Carried, ToCome
  <1>4. CASE UNCHANGED <<tr, calls>>
    <2>1. JobsOf(tr') = JobsOf(tr) /\ tr'.links = tr.links
      BY <1>4
    <2> QED
      BY Zenon, <1>1, <1>2, <1>3, <2>1, BuildStep
  <1>5. CASE tr' = WithJob(tr, <<u, "stop">>, anchor, TRUE, FALSE) /\ calls' = GoOn(<<u, "stop">>, 1)
    <2>1. PICK j, m, c : j = <<u, "stop">> /\ m = TRUE /\ c = FALSE
      BY Zenon
    <2>2. j \in TJob /\ m \in BOOLEAN /\ c \in BOOLEAN /\ WellFormed(tr)
      BY Zenon, <2>1 DEF TJob, TransactionType, MergingType, TInv
    <2>3. tr' = WithJob(tr, j, anchor, m, c) /\ calls' = GoOn(j, 1)
      BY Zenon, <1>5, <2>1
    <2>4. JobsOf(tr') = JobsOf(tr) \cup {j} /\ tr.links \subseteq tr'.links
      BY <1>2, <2>2, <2>3, WithJobIs
    <2>5. Opened(InList(calls'), j)
      BY <2>2, <2>3, GoOnOpens
    <2> QED
      BY Zenon, <1>1, <1>2, <1>3, <2>4, <2>5, BuildStep
  <1> QED
    BY Zenon, <1>1, <1>4, <1>5

LEMMA AddJobBuild ==
    ASSUME FiniteSetFacts, TInv, NEW q \in Requests, AddJob(q[1], q[2], q[3])
    PROVE  BuildOK'
  <1>1. PICK x, u, m : x = q[1] /\ u = q[2] /\ m = q[3]
    OBVIOUS
  <1>2. x \in JobType /\ u \in Unit /\ m \in Mode
    BY <1>1, RequestsAssumption
  <1>3. PICK t : t = job_type_collapse(x, ustate[u])
    OBVIOUS
  <1>4. t \in TransactionType
    BY <1>2, <1>3, CollapsedType
  <1>5. /\ phase = "idle" /\ mode' = m
        /\ UNCHANGED <<dep, ustate, installed, visit, walk, seen>>
        /\ \/ UNCHANGED <<phase, anchor, tr, calls>>
           \/ /\ tr' = [EmptyTr EXCEPT !.jobs[u] = <<t>>]
              /\ calls' = IF m \in {"ignore-dependencies", "ignore-requirements"} \/ t = "nop"
                          THEN <<>> ELSE GoOn(<<u, t>>, 1)
    BY <1>1, <1>3 DEF AddJob
  <1>6. CASE UNCHANGED <<phase, anchor, tr, calls>>
    BY <1>5, <1>6 DEF BuildOK, Building
  <1>7. CASE /\ tr' = [EmptyTr EXCEPT !.jobs[u] = <<t>>]
             /\ calls' = IF m \in {"ignore-dependencies", "ignore-requirements"} \/ t = "nop"
                         THEN <<>> ELSE GoOn(<<u, t>>, 1)
    <2> SUFFICES ASSUME WithDependencies' PROVE Answered(tr', InList(calls'))
      BY <1>5, AnsweredSame DEF BuildOK
    <2>1. m \notin {"ignore-dependencies", "ignore-requirements"}
      BY <1>5 DEF WithDependencies
    <2>2. PICK j : j = <<u, t>>
      BY Zenon
    <2>3. JobsOf(tr') = {j} /\ j \in TJob /\ j[2] = t
      BY Zenon, <1>2, <1>4, <1>7, <2>2, SingleIs DEF TJob
    <2>4. CASE t = "nop"
      BY <2>3, <2>4 DEF Answered
    <2>5. CASE t # "nop"
      <3>1. calls' = GoOn(j, 1)
        BY <1>7, <2>1, <2>2, <2>5
      <3>2. Opened(InList(calls'), j)
        BY <2>3, <3>1, GoOnOpens
      <3> QED
        BY <2>3, <3>2 DEF Answered, Opened
    <2> QED
      BY <2>4, <2>5
  <1> QED
    BY <1>5, <1>6, <1>7

LEMMA PropagateReloadBuild ==
    ASSUME FiniteSetFacts, TInv, NEW q \in Propagations, PropagateReload(q[1], q[2])
    PROVE  BuildOK'
  <1>1. PICK u : u = q[1]
    OBVIOUS
  <1>2. u \in Unit
    BY <1>1, RequestsAssumption
  <1>3. /\ phase = "idle"
        /\ \/ UNCHANGED <<phase, anchor, tr, calls>>
           \/ tr' = [EmptyTr EXCEPT !.jobs[u] = <<"nop">>]
    BY <1>1 DEF PropagateReload
  <1>4. CASE UNCHANGED <<phase, anchor, tr, calls>>
    BY <1>3, <1>4 DEF BuildOK, Building
  <1>5. CASE tr' = [EmptyTr EXCEPT !.jobs[u] = <<"nop">>]
    <2>1. PICK t : t = "nop"
      OBVIOUS
    <2>2. t \in TransactionType /\ tr' = [EmptyTr EXCEPT !.jobs[u] = <<t>>]
      BY Zenon, <1>5, <2>1 DEF TransactionType
    <2>3. JobsOf(tr') = {<<u, t>>}
      BY Zenon, <1>2, <2>2, SingleIs
    <2>4. \A j \in JobsOf(tr') : j[2] = "nop"
      BY <2>1, <2>3
    <2>5. Answered(tr, InList(calls))'
      BY <2>4 DEF Answered, JobsOf
    <2> QED
      BY <2>5 DEF BuildOK
  <1> QED
    BY <1>3, <1>4, <1>5

LEMMA LaterBuild ==
    ASSUME TInv, Minimize \/ Mark \/ DropRedundant \/ CollectGarbage \/ VerifyOrder \/ MergeJobs \/ Activate
                 \/ (\E u \in Unit : DropUnmergeable(u)) \/ (\E u \in Unit, s \in UnitStates : JobEnds(u, s))
    PROVE  BuildOK'
  <1>1. phase' \notin Building \cup {"mark"}
    <2>1. CASE Minimize \/ Mark \/ DropRedundant \/ CollectGarbage \/ MergeJobs \/ Activate
      BY Zenon, <2>1 DEF Minimize, Mark, DropRedundant, CollectGarbage, MergeJobs, Activate, Abort, Building
    <2>2. CASE VerifyOrder
      <3>1. phase = "order"
        BY <2>2 DEF VerifyOrder
      <3>2. CASE Ordered \/ \E u \in Unit : WalkFrom(u)
        BY Zenon, <3>1, <3>2 DEF Ordered, WalkFrom, Building
      <3>3. CASE WalkOn
        BY <3>1, <3>3 DEF WalkOn, Building
      <3>4. ASSUME NEW v \in Unit, WalkTo(v) PROVE phase' \in {phase, "idle", "gc before order"}
        BY Zenon, <3>4 DEF WalkTo, Abort
      <3> QED
        BY Zenon, <2>2, <3>1, <3>2, <3>3, <3>4 DEF VerifyOrder, Building
    <2>3. ASSUME NEW u \in Unit, DropUnmergeable(u) PROVE phase' \in {"idle", "gc before merge"}
      BY Zenon, <2>3 DEF DropUnmergeable, Abort
    <2>4. ASSUME NEW u \in Unit, NEW s \in UnitStates, JobEnds(u, s) PROVE phase' = "idle"
      BY <2>4 DEF JobEnds
    <2> QED
      BY Zenon, <2>1, <2>2, <2>3, <2>4 DEF Building
  <1> QED
    BY <1>1 DEF BuildOK

LEMMA BuiltBuild ==
    ASSUME TInv, BuildOK, Built \/ OthersStopped PROVE BuildOK'
  <1>1. UNCHANGED <<dep, ustate, mode, tr, calls>> /\ phase \in Building
    BY Zenon DEF Built, OthersStopped, Building
  <1>2. Answered(tr, InList(calls)) <=> Answered(tr', InList(calls'))
    BY <1>1
  <1> QED
    BY <1>1, <1>2, AnsweredSame DEF BuildOK, WithDependencies

LEMMA BuildNext ==
    ASSUME FiniteSetFacts, Masked = {}, TInv, BuildOK, [Next]_vars PROVE BuildOK'
  <1>1. CASE Build
    <2>1. phase \in Building /\ calls # << >>
      BY Zenon, <1>1 DEF Build, Building
    <2> QED
      BY Zenon, <1>1, <2>1, NextGroupBuild, AddDependencyBuild DEF Build
  <1>2. CASE Built \/ OthersStopped
    BY <1>2, BuiltBuild
  <1>3. CASE \E u \in Unit : StopOther(u)
    BY <1>3, StopOtherBuild
  <1>4. CASE Minimize \/ Mark \/ DropRedundant \/ CollectGarbage \/ VerifyOrder \/ MergeJobs \/ Activate
             \/ (\E u \in Unit : DropUnmergeable(u)) \/ (\E u \in Unit, s \in UnitStates : JobEnds(u, s))
    BY <1>4, LaterBuild
  <1>5. CASE \E q \in Requests : AddJob(q[1], q[2], q[3])
    BY <1>5, AddJobBuild
  <1>6. CASE \E q \in Propagations : PropagateReload(q[1], q[2])
    BY <1>6, PropagateReloadBuild
  <1>7. CASE UNCHANGED vars
    <2>1. UNCHANGED <<dep, ustate, mode, tr, calls, phase>>
      BY <1>7 DEF vars
    <2>2. Answered(tr, InList(calls)) <=> Answered(tr', InList(calls'))
      BY <2>1
    <2> QED
      BY <2>1, <2>2, AnsweredSame DEF BuildOK, WithDependencies
  <1> QED
    BY <1>1, <1>2, <1>3, <1>4, <1>5, <1>6, <1>7 DEF Next, Step

\* The job of type x is not there because it would change nothing.
Dispensable(t, v, x) ==
    /\ ~HasJob(t, v)
    /\ job_type_is_redundant(x, ustate[v])
    /\ installed[v] # None => ~job_type_is_conflicting(x, installed[v].type)

Kept(t) ==
    \A j \in JobsOf(t) : j[2] # "nop" => \A k \in 1 .. Len(Groups(j)) : Groups(j)[k].matters =>
        \A v \in Groups(j)[k].units :
            \/ Added(t, j, Groups(j)[k], v)
            \/ Dispensable(t, v, job_type_collapse(Groups(j)[k].type, ustate[v]))

KeepOK == WithDependencies /\ phase \in Marking => Kept(tr)

LEMMA KeptSame ==
    ASSUME dep' = dep, ustate' = ustate, installed' = installed
    PROVE  Kept(tr)' <=> Kept(tr')
  <1>1. \A j : Groups(j)' = Groups(j)
    BY GroupsSame
  <1>2. \A x, v : AddError(x, v)' = AddError(x, v)
    BY DEF AddError, unit_job_is_applicable, unit_can_reload, DepsOf
  <1>3. \A j, g, v : Added(tr, j, g, v)' <=> Added(tr', j, g, v)
    BY <1>2 DEF Added
  <1>4. \A v, x : Dispensable(tr, v, x)' <=> Dispensable(tr', v, x)
    BY DEF Dispensable, HasJob
  <1>5. JobsOf(tr)' = JobsOf(tr')
    BY DEF JobsOf
  <1> QED
    BY <1>1, <1>3, <1>4, <1>5 DEF Kept

LEMMA HasJobIff ==
    ASSUME NEW t \in Tr, NEW u \in Unit
    PROVE  HasJob(t, u) <=> \E x : <<u, x>> \in JobsOf(t)
  <1>1. ASSUME HasJob(t, u) PROVE \E x : <<u, x>> \in JobsOf(t)
    BY Zenon, <1>1, ListOf
  <1>2. ASSUME NEW x, <<u, x>> \in JobsOf(t) PROVE HasJob(t, u)
    BY <1>2, ListOf
  <1> QED
    BY Zenon, <1>1, <1>2

LEMMA WithoutHas ==
    ASSUME NEW t \in Tr, NEW w \in Tr, JobsOf(w) \subseteq JobsOf(t), NEW u \in Unit, HasJob(w, u)
    PROVE  HasJob(t, u)
  BY HasJobIff

\* Without a set of jobs nothing is left that can not do without one of them.
LEMMA KeptWithout ==
    ASSUME FiniteSetFacts, NEW t, WellFormed(t), Kept(t), NEW X, Upward(t, X)
    PROVE  Kept(Without(t, X))
  <1>1. PICK w : w = Without(t, X)
    OBVIOUS
  <1>2. /\ JobsOf(w) = JobsOf(t) \ X /\ t \in Tr /\ w \in Tr
        /\ w.links = {l \in t.links : l.subject \notin X /\ l.object \notin X}
    BY <1>1, WithoutJobs DEF WellFormed
  <1> SUFFICES ASSUME NEW j \in JobsOf(w), j[2] # "nop", NEW k \in 1 .. Len(Groups(j)),
                      Groups(j)[k].matters, NEW v \in Groups(j)[k].units
               PROVE  \/ Added(w, j, Groups(j)[k], v)
                      \/ Dispensable(w, v, job_type_collapse(Groups(j)[k].type, ustate[v]))
    BY <1>1 DEF Kept
  <1>3. PICK g, x : g = Groups(j)[k] /\ x = job_type_collapse(g.type, ustate[v])
    OBVIOUS
  <1>4. Added(t, j, g, v) \/ Dispensable(t, v, x)
    BY <1>2, <1>3 DEF Kept
  <1>5. CASE Dispensable(t, v, x)
    <2>1. v \in Unit
      BY <1>2, GroupAt DEF JobsOf
    <2>2. ~HasJob(t, v) => ~HasJob(w, v)
      BY <1>2, <2>1, WithoutHas
    <2> QED
      BY <1>3, <1>5, <2>2 DEF Dispensable
  <1>6. CASE Added(t, j, g, v)
    <2>1. PICK l : l = [subject |-> j, object |-> <<v, x>>, matters |-> g.matters, conflicts |-> g.conflicts]
      BY Zenon
    <2>2. l.subject = j /\ l.object = <<v, x>> /\ l.matters
      BY <1>3, <2>1
    <2>3. l \in t.links => l \in w.links
      BY <1>2, <2>2 DEF Upward
    <2> QED
      BY Zenon, <1>3, <1>6, <2>1, <2>3 DEF Added
  <1> QED
    BY <1>3, <1>4, <1>5, <1>6

\* The jobs of X change nothing, nor does any other of their units.
Useless(t, X) ==
    \A j \in X : /\ j \in JobsOf(t)
                 /\ job_type_is_redundant(j[2], ustate[j[1]])
                 /\ installed[j[1]] # None => ~job_type_is_conflicting(j[2], installed[j[1]].type)
                 /\ \A y : <<j[1], y>> \in JobsOf(t) => <<j[1], y>> \in X

LEMMA RedundantIs ==
    ASSUME NEW t \in Tr
    PROVE  \E X : WithoutRedundant(t) = Without(t, X) /\ Useless(t, X)
  <1> DEFINE Keep(j) == \/ j = anchor
                        \/ ~job_type_is_redundant(j[2], ustate[j[1]])
                        \/ /\ installed[j[1]] # None
                           /\ job_type_is_conflicting(j[2], installed[j[1]].type)
             X == {j \in JobsOf(t) : \A x \in InList(t.jobs[j[1]]) : ~Keep(<<j[1], x>>)}
  <1>1. WithoutRedundant(t) = Without(t, X)
    BY DEF WithoutRedundant
  <1>2. ASSUME NEW j \in X
        PROVE  /\ j \in JobsOf(t)
               /\ job_type_is_redundant(j[2], ustate[j[1]])
               /\ installed[j[1]] # None => ~job_type_is_conflicting(j[2], installed[j[1]].type)
               /\ \A y : <<j[1], y>> \in JobsOf(t) => <<j[1], y>> \in X
    <2>1. j \in JobsOf(t) /\ j \in TJob
      BY DEF JobsOf
    <2>2. j[1] \in Unit /\ j[2] \in InList(t.jobs[j[1]]) /\ j = <<j[1], j[2]>>
      BY <2>1 DEF JobsOf, TJob
    <2>3. ~Keep(j)
      BY <2>2
    <2>4. ASSUME NEW y, <<j[1], y>> \in JobsOf(t) PROVE <<j[1], y>> \in X
      <3>1. PICK i : i = <<j[1], y>>
        BY Zenon
      <3>2. i \in JobsOf(t) /\ i[1] = j[1]
        BY <2>4, <3>1
      <3>3. i \in X
        BY <3>2
      <3> QED
        BY <3>1, <3>3
    <2> QED
      BY <2>1, <2>3, <2>4
  <1> HIDE DEF X
  <1>3. Useless(t, X)
    BY <1>2 DEF Useless
  <1> QED
    BY <1>1, <1>3

LEMMA KeptRedundant ==
    ASSUME FiniteSetFacts, NEW t, WellFormed(t), Kept(t), NEW X, Useless(t, X)
    PROVE  Kept(Without(t, X))
  <1>1. PICK w : w = Without(t, X)
    OBVIOUS
  <1>2. /\ JobsOf(w) = JobsOf(t) \ X /\ t \in Tr /\ w \in Tr
        /\ w.links = {l \in t.links : l.subject \notin X /\ l.object \notin X}
    BY <1>1, WithoutJobs DEF WellFormed
  <1> SUFFICES ASSUME NEW j \in JobsOf(w), j[2] # "nop", NEW k \in 1 .. Len(Groups(j)),
                      Groups(j)[k].matters, NEW v \in Groups(j)[k].units
               PROVE  \/ Added(w, j, Groups(j)[k], v)
                      \/ Dispensable(w, v, job_type_collapse(Groups(j)[k].type, ustate[v]))
    BY <1>1 DEF Kept
  <1>3. PICK g, x : g = Groups(j)[k] /\ x = job_type_collapse(g.type, ustate[v])
    OBVIOUS
  <1>4. Added(t, j, g, v) \/ Dispensable(t, v, x)
    BY <1>2, <1>3 DEF Kept
  <1>5. v \in Unit
    BY <1>2, GroupAt DEF JobsOf
  <1>6. CASE Dispensable(t, v, x)
    <2>1. ~HasJob(w, v)
      BY <1>2, <1>5, <1>6, WithoutHas DEF Dispensable
    <2> QED
      BY <1>3, <1>6, <2>1 DEF Dispensable
  <1>7. CASE Added(t, j, g, v) /\ <<v, x>> \notin X
    <2>1. PICK l : l = [subject |-> j, object |-> <<v, x>>, matters |-> g.matters, conflicts |-> g.conflicts]
      BY Zenon
    <2>2. l.subject = j /\ l.object = <<v, x>>
      BY <2>1
    <2>3. l \in t.links => l \in w.links
      BY <1>2, <1>7, <2>2
    <2> QED
      BY Zenon, <1>3, <1>7, <2>1, <2>3 DEF Added
  <1>8. CASE <<v, x>> \in X
    <2>1. PICK i : i = <<v, x>>
      BY Zenon
    <2>2. i \in X /\ i[1] = v /\ i[2] = x
      BY <1>8, <2>1
    <2>3. /\ job_type_is_redundant(x, ustate[v])
          /\ installed[v] # None => ~job_type_is_conflicting(x, installed[v].type)
          /\ \A y : <<v, y>> \in JobsOf(t) => <<v, y>> \in X
      BY <2>2 DEF Useless
    <2>4. ~HasJob(w, v)
      BY Zenon, <1>2, <1>5, <2>3, HasJobIff
    <2> QED
      BY <1>3, <2>3, <2>4 DEF Dispensable
  <1> QED
    BY <1>3, <1>4, <1>6, <1>7, <1>8

\* Whatever is deleted, what can not do without it goes too.
LEMMA DeletedUpward ==
    ASSUME FiniteSetFacts, NEW t, WellFormed(t), NEW S
    PROVE  \E X : DeleteWithDependents(t, S) = Without(t, X) /\ Upward(t, X)
  <1>1. PICK C : C = JobsOf(t) \cup S
    BY Zenon
  <1>2. Upward(t, C) /\ S \subseteq C
    BY <1>1 DEF WellFormed, Upward
  <1>3. \E X : Deletes(t, S, X) /\ X \subseteq C
    BY <1>2, DeletedIs
  <1> QED
    BY <1>3 DEF Deletes

LEMMA MarkKeep ==
    ASSUME FiniteSetFacts, TInv, BuildOK, Mark PROVE KeepOK'
  <1>1. /\ phase = "mark" /\ tr' = Marked(tr)
        /\ UNCHANGED <<dep, ustate, installed, mode, anchor, calls, visit, walk, seen, nreq>>
    BY DEF Mark
  <1> SUFFICES ASSUME WithDependencies PROVE Kept(tr')
    BY <1>1, KeptSame DEF KeepOK, WithDependencies
  <1>2. WellFormed(tr) /\ anchor \in JobsOf(tr) /\ calls = << >>
    BY <1>1 DEF TInv, Staged, AnchorKept, CallsOK, Building
  <1>3. InList(<< >>) = {}
    BY DEF InList
  <1>4. Answered(tr, {})
    BY <1>1, <1>2, <1>3 DEF BuildOK
  <1>5. JobsOf(tr') = JobsOf(tr) /\ tr'.links = tr.links
    BY Zenon, <1>1, <1>2, MarkedIs
  <1>6. \A j, g, v : Added(tr, j, g, v) => Added(tr', j, g, v)
    BY <1>5 DEF Added
  <1>7. \A j, k, v : ~ToCome({}, j, k, v)
    BY DEF ToCome
  <1> QED
    BY <1>4, <1>5, <1>6, <1>7 DEF Answered, Kept

\* The transaction shrinks, or stays as it is.
Shrinks ==
    /\ UNCHANGED <<dep, ustate, installed, mode, anchor>>
    /\ \/ tr' = tr
       \/ \E X : tr' = Without(tr, X) /\ Upward(tr, X)

LEMMA DeletingShrinks ==
    ASSUME FiniteSetFacts, TInv, UNCHANGED <<dep, ustate, installed, mode, anchor>>, NEW S, tr' = DeleteWithDependents(tr, S)
    PROVE  Shrinks
  BY DeletedUpward DEF Shrinks, TInv

LEMMA MarkingShrinks ==
    ASSUME FiniteSetFacts, TInv, phase \in Marking, Next
    PROVE  phase' = "idle" \/ DropRedundant \/ MergeJobs \/ (phase' \in Marking /\ Shrinks)
  <1>1. CASE Minimize
    <2>1. phase' = "redundant" /\ tr' = Minimized(tr) /\ UNCHANGED <<dep, ustate, installed, mode, anchor>>
      BY <1>1 DEF Minimize
    <2>2. PICK S : tr' = DeleteWithDependents(tr, S)
      BY <2>1 DEF Minimized
    <2> QED
      BY Zenon, <2>1, <2>2, DeletingShrinks DEF Marking
  <1>2. CASE CollectGarbage
    <2>1. /\ phase' \in Marking /\ UNCHANGED <<dep, ustate, installed, mode, anchor>>
          /\ tr' = tr \/ \E j \in Garbage(tr) : tr' = DeleteWithDependents(tr, {j})
      BY Zenon, <1>2 DEF CollectGarbage, Marking
    <2>2. CASE tr' = tr
      BY <2>1, <2>2 DEF Shrinks
    <2>3. ASSUME NEW j, tr' = DeleteWithDependents(tr, {j}) PROVE Shrinks
      <3>1. PICK S : S = {j}
        BY Zenon
      <3>2. tr' = DeleteWithDependents(tr, S)
        BY <2>3, <3>1
      <3> QED
        BY <2>1, <3>2, DeletingShrinks
    <2> QED
      BY Zenon, <2>1, <2>2, <2>3
  <1>3. CASE VerifyOrder
    <2>1. phase = "order" /\ UNCHANGED <<dep, ustate, installed, mode>>
      BY <1>3 DEF VerifyOrder
    <2>2. CASE Ordered \/ (\E u \in Unit : WalkFrom(u)) \/ WalkOn
      <3>1. tr' = tr /\ anchor' = anchor /\ phase' \in Marking
        BY Zenon, <2>1, <2>2 DEF Ordered, WalkFrom, WalkOn, Marking
      <3> QED
        BY <2>1, <3>1 DEF Shrinks
    <2>3. ASSUME NEW v \in Unit, WalkTo(v)
          PROVE  phase' = "idle" \/ (phase' \in Marking /\ Shrinks)
      <3>1. \/ UNCHANGED <<phase, anchor, tr>>
            \/ phase' = "idle"
            \/ phase' = "gc before order" /\ anchor' = anchor /\ \E S : tr' = DeleteWithDependents(tr, S)
        BY Zenon, <2>3 DEF WalkTo, Abort
      <3>2. CASE UNCHANGED <<phase, anchor, tr>>
        BY <2>1, <3>2 DEF Shrinks
      <3>3. CASE phase' = "gc before order" /\ anchor' = anchor /\ \E S : tr' = DeleteWithDependents(tr, S)
        BY Zenon, <2>1, <3>3, DeletingShrinks DEF Marking
      <3> QED
        BY Zenon, <3>1, <3>2, <3>3
    <2> QED
      BY <1>3, <2>2, <2>3 DEF VerifyOrder
  <1>4. ASSUME NEW u \in Unit, DropUnmergeable(u)
        PROVE  phase' = "idle" \/ (phase' \in Marking /\ Shrinks)
    <2>1. /\ UNCHANGED <<dep, ustate, installed, mode>>
          /\ \/ phase' = "idle"
             \/ phase' = "gc before merge" /\ anchor' = anchor /\ \E d : tr' = DeleteWithDependents(tr, {d})
      BY Zenon, <1>4 DEF DropUnmergeable, Abort
    <2>2. ASSUME NEW d, tr' = DeleteWithDependents(tr, {d}), anchor' = anchor PROVE Shrinks
      <3>1. PICK S : S = {d}
        BY Zenon
      <3>2. tr' = DeleteWithDependents(tr, S)
        BY <2>2, <3>1
      <3> QED
        BY Zenon, <2>1, <2>2, <3>2, DeletingShrinks
    <2> QED
      BY Zenon, <2>1, <2>2 DEF Marking
  <1>5. ~Build /\ ~Built /\ ~OthersStopped /\ ~Mark /\ ~Activate
    BY Zenon DEF Build, Built, OthersStopped, Mark, Activate, Marking
  <1>6. \A u : ~StopOther(u)
    BY Zenon DEF StopOther, Marking
  <1>7. \A q : ~AddJob(q[1], q[2], q[3]) /\ ~PropagateReload(q[1], q[2])
    BY Zenon DEF AddJob, PropagateReload, Marking
  <1>8. \A u, s : ~JobEnds(u, s)
    BY Zenon DEF JobEnds, Marking
  <1> QED
    BY <1>1, <1>2, <1>3, <1>4, <1>5, <1>6, <1>7, <1>8 DEF Next, Step

LEMMA KeepNext ==
    ASSUME FiniteSetFacts, TInv, BuildOK, KeepOK, [Next]_vars PROVE KeepOK'
  <1>1. CASE UNCHANGED vars
    <2>1. UNCHANGED <<dep, ustate, installed, mode, phase, tr>>
      BY <1>1 DEF vars
    <2>2. Kept(tr) <=> Kept(tr')
      BY <2>1
    <2> QED
      BY <2>1, <2>2, KeptSame DEF KeepOK, WithDependencies
  <1>2. CASE Mark
    BY <1>2, MarkKeep
  <1>3. CASE phase \in Marking /\ Next
    <2>1. CASE phase' = "idle" \/ MergeJobs
      BY Zenon, <2>1 DEF MergeJobs, KeepOK, Marking
    <2>2. CASE DropRedundant
      <3>1. /\ tr' = WithoutRedundant(tr)
            /\ UNCHANGED <<dep, ustate, installed, mode, anchor, calls, visit, walk, seen, nreq>>
        BY Zenon, <2>2 DEF DropRedundant
      <3> SUFFICES ASSUME WithDependencies PROVE Kept(tr')
        BY <3>1, KeptSame DEF KeepOK, WithDependencies
      <3>2. WellFormed(tr) /\ Kept(tr)
        BY <1>3 DEF TInv, KeepOK
      <3>3. PICK X : tr' = Without(tr, X) /\ Useless(tr, X)
        BY <3>1, <3>2, RedundantIs DEF WellFormed
      <3> QED
        BY <3>2, <3>3, KeptRedundant
    <2>3. CASE Shrinks
      <3>1. UNCHANGED <<dep, ustate, installed, mode>>
        BY <2>3 DEF Shrinks
      <3> SUFFICES ASSUME WithDependencies PROVE Kept(tr')
        BY <3>1, KeptSame DEF KeepOK, WithDependencies
      <3>2. WellFormed(tr) /\ Kept(tr)
        BY <1>3 DEF TInv, KeepOK
      <3> QED
        BY <2>3, <3>2, KeptWithout DEF Shrinks
    <2> QED
      BY <1>3, <2>1, <2>2, <2>3, MarkingShrinks
  <1>4. CASE phase \notin Marking /\ Next /\ ~Mark
    <2>1. phase' \notin Marking
      <3>1. CASE Built \/ OthersStopped \/ Activate
        BY Zenon, <3>1 DEF Built, OthersStopped, Activate, Abort, Marking
      <3>2. CASE Build
        <4>1. phase \in Building /\ (NextGroup \/ \E v \in Unit : AddDependency(v))
          BY Zenon, <3>2 DEF Build, Building
        <4>2. CASE NextGroup
          BY Zenon, <4>1, <4>2 DEF NextGroup, Building, Marking
        <4>3. ASSUME NEW v \in Unit, AddDependency(v) PROVE phase' \in {phase, "idle"}
          BY Zenon, <4>3 DEF AddDependency
        <4> QED
          BY Zenon, <4>1, <4>2, <4>3 DEF Building, Marking
      <3>3. ASSUME NEW u \in Unit, StopOther(u) PROVE phase' = "stop others"
        BY Zenon, <3>3 DEF StopOther
      <3>4. ASSUME NEW q, AddJob(q[1], q[2], q[3]) \/ PropagateReload(q[1], q[2]) PROVE phase' \in {"idle", "build"}
        BY <3>4 DEF AddJob, PropagateReload
      <3>5. ASSUME NEW u, NEW s, JobEnds(u, s) PROVE phase' = "idle"
        BY <3>5 DEF JobEnds
      <3>6. CASE DropRedundant
        BY Zenon, <1>4, <3>6 DEF DropRedundant, Marking
      <3>7. ~Minimize /\ ~CollectGarbage /\ ~VerifyOrder /\ ~MergeJobs
        BY Zenon, <1>4 DEF Minimize, CollectGarbage, VerifyOrder, MergeJobs, Marking
      <3>8. \A u : ~DropUnmergeable(u)
        BY Zenon, <1>4 DEF DropUnmergeable, Marking
      <3> QED
        BY Zenon, <1>4, <3>1, <3>2, <3>3, <3>4, <3>5, <3>6, <3>7, <3>8 DEF Next, Step, Marking
    <2> QED
      BY <2>1 DEF KeepOK
  <1> QED
    BY <1>1, <1>2, <1>3, <1>4

HasType(t, u, T) == \E x \in T : <<u, x>> \in JobsOf(t)

StartsNeeded(t, v) ==
    \/ HasType(t, v, {"start", "restart"})
    \/ Dispensable(t, v, "start") \/ Dispensable(t, v, "restart")

StopsNeeded(t, v) == HasType(t, v, {"stop"}) \/ Dispensable(t, v, "stop")

\* What a transaction whose jobs are merged says about dependencies.
Final(t) ==
    \A u \in Unit :
        /\ HasType(t, u, {"start", "restart"}) =>
              /\ \A d \in {"requires", "binds_to"} : \A v \in DepsOf(d, u) : StartsNeeded(t, v)
              /\ \A v \in DepsOf("conflicts", u) \ Perpetual : StopsNeeded(t, v)
        /\ HasType(t, u, {"stop"}) =>
              \A d \in {"requires", "requisite", "binds_to", "part_of"} :
                  \A v \in InverseDep(d, u) \ Perpetual : StopsNeeded(t, v)

FinalOK == WithDependencies /\ phase \in Merged => Final(tr)

LEMMA FinalSame ==
    ASSUME dep' = dep, ustate' = ustate, installed' = installed
    PROVE  Final(tr)' <=> Final(tr')
  <1>1. \A d, u : DepsOf(d, u)' = DepsOf(d, u) /\ InverseDep(d, u)' = InverseDep(d, u)
    BY DEF DepsOf, InverseDep
  <1>2. \A v, x : Dispensable(tr, v, x)' <=> Dispensable(tr', v, x)
    BY DEF Dispensable, HasJob
  <1>3. JobsOf(tr)' = JobsOf(tr')
    BY DEF JobsOf
  <1>4. \A u, T : HasType(tr, u, T)' <=> HasType(tr', u, T)
    BY <1>3 DEF HasType
  <1>5. \A v : (StartsNeeded(tr, v)' <=> StartsNeeded(tr', v)) /\ (StopsNeeded(tr, v)' <=> StopsNeeded(tr', v))
    BY <1>2, <1>4 DEF StartsNeeded, StopsNeeded
  <1> QED
    BY <1>1, <1>4, <1>5 DEF Final

\* What a job needs is there before merging.
LEMMA NeededThere ==
    ASSUME TInv, Kept(tr), NEW j \in JobsOf(tr), j[2] # "nop", NEW S \in SUBSET Unit, NEW x \in {"start", "stop"},
           NEW c, Needed(S, x, c) \in InList(Groups(j)), NEW v \in S, AddError(x, v) = "none"
    PROVE  <<v, x>> \in JobsOf(tr) \/ Dispensable(tr, v, x)
  <1>1. j \in TJob
    BY DEF JobsOf
  <1>2. PICK A : A = {g \in GroupRecord : g.type \in Pulled(j[2])}
    BY Zenon
  <1>3. Groups(j) \in Seq(A)
    BY Zenon, <1>1, <1>2, GroupsTyped
  <1>4. PICK k \in DOMAIN Groups(j) : Groups(j)[k] = Needed(S, x, c)
    BY DEF InList
  <1>5. k \in 1 .. Len(Groups(j))
    BY <1>3, <1>4
  <1>6. PICK g : g = Groups(j)[k]
    OBVIOUS
  <1>7. g.units = S /\ g.type = x /\ g.matters
    BY <1>4, <1>6 DEF Needed
  <1>8. job_type_collapse(x, ustate[v]) = x
    BY DEF job_type_collapse
  <1>9. Added(tr, j, g, v) \/ Dispensable(tr, v, x)
    BY <1>5, <1>6, <1>7, <1>8 DEF Kept
  <1>10. CASE Added(tr, j, g, v)
    <2>1. PICK l : l = [subject |-> j, object |-> <<v, x>>, matters |-> g.matters, conflicts |-> g.conflicts]
      BY Zenon
    <2>2. l \in tr.links
      BY <1>7, <1>8, <1>10, <2>1 DEF Added
    <2>3. l.object \in JobsOf(tr)
      BY <2>2 DEF TInv, WellFormed
    <2> QED
      BY <2>1, <2>3
  <1> QED
    BY <1>9, <1>10

\* Merging keeps what is there.
LEMMA MergingKeeps ==
    ASSUME FiniteSetFacts, TInv, MergeJobs, NEW v \in Unit
    PROVE  /\ \A x : Dispensable(tr, v, x) => Dispensable(tr', v, x)
           /\ <<v, "stop">> \in JobsOf(tr) => HasType(tr', v, {"stop"})
           /\ <<v, "start">> \in JobsOf(tr) /\ (\E j \in JobsOf(tr) : j[2] \notin {"reload", "nop"})
                  => HasType(tr', v, {"start", "restart"})
           /\ HasType(tr', v, {"stop"}) => <<v, "stop">> \in JobsOf(tr)
           /\ HasType(tr', v, {"start", "restart"}) => HasType(tr, v, {"start", "restart"})
  <1>1. /\ phase = "merge"
        /\ HasJob(tr, v) => Mergeable(tr.jobs[v], ustate[v])
        /\ tr'.jobs[v] = IF HasJob(tr, v) THEN <<MergedTo(v)>> ELSE << >>
        /\ WellFormed(tr')
    BY Zenon, MergeJobsIs
  <1>2. OneKind(tr) /\ tr \in Tr /\ tr' \in Tr
    BY <1>1 DEF TInv, Staged, Merged, TypeOK, WellFormed
  <1>3. ~HasJob(tr, v) => ~HasJob(tr', v)
    BY <1>1 DEF HasJob
  <1>4. \A x : <<v, x>> \in JobsOf(tr') <=> HasJob(tr, v) /\ x = MergedTo(v)
    <2>1. PICK m : m = MergedTo(v)
      OBVIOUS
    <2>2. InList(<<m>>) = {m} /\ InList(<< >>) = {}
      <3>1. DOMAIN <<m>> = {1} /\ <<m>>[1] = m
        OBVIOUS
      <3> QED
        BY <3>1 DEF InList
    <2>3. InList(tr'.jobs[v]) = IF HasJob(tr, v) THEN {m} ELSE {}
      BY Zenon, <1>1, <2>1, <2>2
    <2>4. \A x : <<v, x>> \in JobsOf(tr') <=> x \in InList(tr'.jobs[v])
      BY <1>2, ListOf
    <2> QED
      BY <2>1, <2>3, <2>4
  <1>5. \A x : <<v, x>> \in JobsOf(tr) <=> x \in InList(tr.jobs[v])
    BY <1>2, ListOf
  <1>6. \A x : x \in InList(tr.jobs[v]) => HasJob(tr, v)
    BY <1>2, ListOf
  <1>7. HasJob(tr, v) =>
           /\ MergedTo(v) = "stop" <=> "stop" \in InList(tr.jobs[v])
           /\ MergedTo(v) \in {"start", "restart"} => {"start", "restart"} \cap InList(tr.jobs[v]) # {}
           /\ "start" \in InList(tr.jobs[v]) /\ "reload" \notin InList(tr.jobs[v])
                 => MergedTo(v) \in {"start", "restart"}
    BY <1>1, MergedFacts DEF MergedTo
  <1>8. \A x : Dispensable(tr, v, x) => Dispensable(tr', v, x)
    BY <1>3 DEF Dispensable
  <1>9. <<v, "stop">> \in JobsOf(tr) => HasType(tr', v, {"stop"})
    BY <1>4, <1>5, <1>6, <1>7 DEF HasType
  <1>10. ASSUME <<v, "start">> \in JobsOf(tr), NEW j \in JobsOf(tr), j[2] \notin {"reload", "nop"}
         PROVE  HasType(tr', v, {"start", "restart"})
    <2>1. "reload" \notin InList(tr.jobs[v])
      <3>1. PICK r : r = <<v, "reload">>
        BY Zenon
      <3>2. r[2] = "reload"
        BY <3>1
      <3>3. r \notin JobsOf(tr)
        BY <1>2, <1>10, <3>2 DEF OneKind
      <3> QED
        BY <1>5, <3>1, <3>3
    <2> QED
      BY <1>4, <1>5, <1>6, <1>7, <1>10, <2>1 DEF HasType
  <1>11. HasType(tr', v, {"stop"}) => <<v, "stop">> \in JobsOf(tr)
    BY <1>4, <1>5, <1>7 DEF HasType
  <1>12. HasType(tr', v, {"start", "restart"}) => HasType(tr, v, {"start", "restart"})
    BY <1>4, <1>5, <1>7 DEF HasType
  <1> QED
    BY <1>8, <1>9, <1>10, <1>11, <1>12

LEMMA MergeFinal ==
    ASSUME FiniteSetFacts, Masked = {}, TInv, KeepOK, MergeJobs PROVE FinalOK'
  <1>1. phase = "merge" /\ UNCHANGED <<dep, ustate, installed, mode>>
    BY Zenon, MergeJobsIs
  <1> SUFFICES ASSUME WithDependencies PROVE Final(tr')
    BY <1>1, FinalSame DEF FinalOK, WithDependencies
  <1>2. Kept(tr)
    BY <1>1 DEF KeepOK, Marking
  <1>3. ASSUME NEW u \in Unit, HasType(tr', u, {"start", "restart"})
        PROVE  /\ \A d \in {"requires", "binds_to"} : \A v \in DepsOf(d, u) : StartsNeeded(tr', v)
               /\ \A v \in DepsOf("conflicts", u) \ Perpetual : StopsNeeded(tr', v)
    <2>1. PICK x \in {"start", "restart"} : <<u, x>> \in JobsOf(tr)
      BY Zenon, <1>3, MergingKeeps DEF HasType
    <2>2. PICK j : j = <<u, x>>
      BY Zenon
    <2>3. j \in JobsOf(tr) /\ j[1] = u /\ j[2] = x /\ j \in TJob /\ j[2] \notin {"reload", "nop"}
      BY <2>1, <2>2 DEF JobsOf
    <2>4. ASSUME NEW d \in {"requires", "binds_to"}, NEW v \in DepsOf(d, u) PROVE StartsNeeded(tr', v)
      <3>1. v \in Unit /\ DepsOf(d, u) \in SUBSET Unit /\ DepsOf(d, u) # {}
        BY DEF DepsOf
      <3>2. Needed(DepsOf(d, u), "start", FALSE) \in InList(Groups(j))
        BY Zenon, <2>3, <3>1, GroupsTyped
      <3>3. AddError("start", v) = "none"
        BY DEF AddError, unit_job_is_applicable
      <3>4. PICK S, y, c : S = DepsOf(d, u) /\ y = "start" /\ c = FALSE
        BY Zenon
      <3>5. <<v, y>> \in JobsOf(tr) \/ Dispensable(tr, v, y)
        <4>1. S \in SUBSET Unit /\ y \in {"start", "stop"} /\ Needed(S, y, c) \in InList(Groups(j)) /\ v \in S /\ AddError(y, v) = "none"
          BY Zenon, <3>1, <3>2, <3>3, <3>4
        <4> QED
          BY <1>2, <2>3, <4>1, NeededThere
      <3>6. CASE <<v, "start">> \in JobsOf(tr)
        BY Zenon, <2>3, <3>1, <3>6, MergingKeeps DEF StartsNeeded
      <3>7. CASE Dispensable(tr, v, "start")
        BY Zenon, <3>1, <3>7, MergingKeeps DEF StartsNeeded
      <3> QED
        BY <3>4, <3>5, <3>6, <3>7
    <2>5. ASSUME NEW v \in DepsOf("conflicts", u) \ Perpetual PROVE StopsNeeded(tr', v)
      <3>1. v \in Unit /\ DepsOf("conflicts", u) \in SUBSET Unit /\ DepsOf("conflicts", u) # {}
        BY DEF DepsOf
      <3>2. Needed(DepsOf("conflicts", u), "stop", TRUE) \in InList(Groups(j))
        BY Zenon, <2>3, <3>1, GroupsTyped
      <3>3. AddError("stop", v) = "none"
        BY DEF AddError, unit_job_is_applicable
      <3>4. PICK S, y, c : S = DepsOf("conflicts", u) /\ y = "stop" /\ c = TRUE
        OBVIOUS
      <3>5. <<v, y>> \in JobsOf(tr) \/ Dispensable(tr, v, y)
        <4>1. S \in SUBSET Unit /\ y \in {"start", "stop"} /\ Needed(S, y, c) \in InList(Groups(j)) /\ v \in S /\ AddError(y, v) = "none"
          BY Zenon, <3>1, <3>2, <3>3, <3>4
        <4> QED
          BY <1>2, <2>3, <4>1, NeededThere
      <3> QED
        BY Zenon, <3>1, <3>4, <3>5, MergingKeeps DEF StopsNeeded
    <2> QED
      BY <2>4, <2>5
  <1>4. ASSUME NEW u \in Unit, HasType(tr', u, {"stop"}), NEW d \in {"requires", "requisite", "binds_to", "part_of"},
               NEW v \in InverseDep(d, u) \ Perpetual
        PROVE  StopsNeeded(tr', v)
    <2>1. <<u, "stop">> \in JobsOf(tr)
      BY Zenon, <1>4, MergingKeeps
    <2>2. PICK j : j = <<u, "stop">>
      BY Zenon
    <2>3. j \in JobsOf(tr) /\ j[1] = u /\ j[2] = "stop" /\ j \in TJob
      BY <2>1, <2>2 DEF JobsOf
    <2>4. v \in Unit /\ InverseDep(d, u) \in SUBSET Unit /\ InverseDep(d, u) # {}
      BY DEF InverseDep
    <2>5. Needed(InverseDep(d, u), "stop", FALSE) \in InList(Groups(j))
      BY Zenon, <2>3, <2>4, GroupsTyped
    <2>6. AddError("stop", v) = "none"
      BY DEF AddError, unit_job_is_applicable
    <2>7. PICK S, y, c : S = InverseDep(d, u) /\ y = "stop" /\ c = FALSE
      BY Zenon
    <2>8. <<v, y>> \in JobsOf(tr) \/ Dispensable(tr, v, y)
      <3>1. S \in SUBSET Unit /\ y \in {"start", "stop"} /\ Needed(S, y, c) \in InList(Groups(j)) /\ v \in S /\ AddError(y, v) = "none"
        BY Zenon, <2>4, <2>5, <2>6, <2>7
      <3> QED
        BY <1>2, <2>3, <3>1, NeededThere
    <2> QED
      BY Zenon, <2>4, <2>7, <2>8, MergingKeeps DEF StopsNeeded
  <1> QED
    BY <1>3, <1>4 DEF Final

\* Dropping what is redundant leaves a transaction as good as before.
LEMMA RedundantFinal ==
    ASSUME FiniteSetFacts, TInv, FinalOK, DropRedundant, phase = "redundant again" PROVE FinalOK'
  <1>1. tr' = WithoutRedundant(tr) /\ UNCHANGED <<dep, ustate, installed, mode>>
    BY Zenon DEF DropRedundant
  <1> SUFFICES ASSUME WithDependencies PROVE Final(tr')
    BY Zenon, <1>1, FinalSame DEF FinalOK, WithDependencies
  <1>2. Final(tr) /\ tr \in Tr /\ phase \in Merged
    BY Zenon DEF FinalOK, Merged, TInv, TypeOK
  <1>3. PICK X : tr' = Without(tr, X) /\ Useless(tr, X)
    BY Zenon, <1>1, <1>2, RedundantIs
  <1>4. JobsOf(tr') = JobsOf(tr) \ X /\ tr' \in Tr
    BY Zenon, <1>2, <1>3, WithoutJobs
  <1>5. \A u, T : HasType(tr', u, T) => HasType(tr, u, T)
    BY Zenon, <1>4 DEF HasType
  <1>6. ASSUME NEW v \in Unit, NEW x, Dispensable(tr, v, x) PROVE Dispensable(tr', v, x)
    <2>1. ~HasJob(tr', v)
      BY Zenon, <1>2, <1>4, <1>6, WithoutHas DEF Dispensable
    <2> QED
      BY Zenon, <1>6, <2>1 DEF Dispensable
  <1>7. ASSUME NEW v \in Unit, NEW x, <<v, x>> \in JobsOf(tr), <<v, x>> \notin JobsOf(tr')
        PROVE  Dispensable(tr', v, x)
    <2>1. PICK i : i = <<v, x>>
      BY Zenon
    <2>2. i \in X /\ i[1] = v /\ i[2] = x
      BY Zenon, <1>4, <1>7, <2>1
    <2>3. /\ job_type_is_redundant(x, ustate[v])
          /\ installed[v] # None => ~job_type_is_conflicting(x, installed[v].type)
          /\ \A y : <<v, y>> \in JobsOf(tr) => <<v, y>> \in X
      BY Zenon, <1>3, <2>2 DEF Useless
    <2>4. ~HasJob(tr', v)
      BY Zenon, <1>4, <2>3, HasJobIff
    <2> QED
      BY Zenon, <2>3, <2>4 DEF Dispensable
  <1>8. ASSUME NEW v \in Unit, StartsNeeded(tr, v) PROVE StartsNeeded(tr', v)
    BY Zenon, <1>6, <1>7, <1>8 DEF StartsNeeded, HasType
  <1>9. ASSUME NEW v \in Unit, StopsNeeded(tr, v) PROVE StopsNeeded(tr', v)
    BY Zenon, <1>6, <1>7, <1>9 DEF StopsNeeded, HasType
  <1>10. \A d, u : DepsOf(d, u) \subseteq Unit /\ InverseDep(d, u) \subseteq Unit
    BY Zenon DEF DepsOf, InverseDep
  <1> QED
    BY Zenon, <1>2, <1>5, <1>8, <1>9, <1>10 DEF Final

LEMMA FinalNext ==
    ASSUME FiniteSetFacts, Masked = {}, TInv, KeepOK, FinalOK, [Next]_vars PROVE FinalOK'
  <1>1. CASE UNCHANGED vars
    <2>1. UNCHANGED <<dep, ustate, installed, mode, phase, tr>>
      BY <1>1 DEF vars
    <2>2. Final(tr) <=> Final(tr')
      BY <2>1
    <2> QED
      BY <2>1, <2>2, FinalSame DEF FinalOK, WithDependencies
  <1>2. CASE MergeJobs
    BY <1>2, MergeFinal
  <1>3. CASE DropRedundant
    <2>1. CASE phase = "redundant again"
      BY Zenon, <1>3, <2>1, RedundantFinal
    <2>2. CASE phase # "redundant again"
      BY Zenon, <1>3, <2>2 DEF DropRedundant, FinalOK, Merged
    <2> QED
      BY Zenon, <2>1, <2>2
  <1>4. CASE Next /\ ~MergeJobs /\ ~DropRedundant
    <2>1. phase' \notin Merged
      <3>1. CASE phase \in Marking
        BY Zenon, <1>4, <3>1, MarkingShrinks DEF Marking, Merged
      <3>2. CASE phase \notin Marking
        <4>1. CASE Mark \/ Built \/ OthersStopped \/ Activate
          BY Zenon, <4>1 DEF Mark, Built, OthersStopped, Activate, Abort, Merged
        <4>2. CASE Build
          <5>1. phase \in Building /\ (NextGroup \/ \E v \in Unit : AddDependency(v))
            BY Zenon, <4>2 DEF Build, Building
          <5>2. CASE NextGroup
            BY Zenon, <5>1, <5>2 DEF NextGroup, Building, Merged
          <5>3. ASSUME NEW v \in Unit, AddDependency(v) PROVE phase' \in {phase, "idle"}
            BY Zenon, <5>3 DEF AddDependency
          <5> QED
            BY Zenon, <5>1, <5>2, <5>3 DEF Building, Merged
        <4>3. ASSUME NEW u \in Unit, StopOther(u) PROVE phase' = "stop others"
          BY Zenon, <4>3 DEF StopOther
        <4>4. ASSUME NEW q, AddJob(q[1], q[2], q[3]) \/ PropagateReload(q[1], q[2]) PROVE phase' \in {"idle", "build"}
          BY <4>4 DEF AddJob, PropagateReload
        <4>5. ASSUME NEW u, NEW s, JobEnds(u, s) PROVE phase' = "idle"
          BY <4>5 DEF JobEnds
        <4>6. ~Minimize /\ ~CollectGarbage /\ ~VerifyOrder
          BY Zenon, <3>2 DEF Minimize, CollectGarbage, VerifyOrder, Marking
        <4>7. \A u : ~DropUnmergeable(u)
          BY Zenon, <3>2 DEF DropUnmergeable, Marking
        <4> QED
          BY Zenon, <1>4, <4>1, <4>2, <4>3, <4>4, <4>5, <4>6, <4>7 DEF Next, Step, Merged
      <3> QED
        BY <3>1, <3>2
    <2> QED
      BY <2>1 DEF FinalOK
  <1> QED
    BY <1>1, <1>2, <1>3, <1>4

OutcomeInv == TInv /\ BuildOK /\ KeepOK /\ FinalOK

\* A transaction whose jobs are merged has at most one for each unit.
LEMMA HeadIs ==
    ASSUME TInv, phase \in Merged, NEW u \in Unit, NEW x
    PROVE  <<u, x>> \in JobsOf(tr) <=> HasJob(tr, u) /\ Head(tr.jobs[u]) = x
  <1>1. tr \in Tr /\ Len(tr.jobs[u]) <= 1
    BY Zenon DEF TInv, TypeOK, Staged
  <1>2. PICK s : s = tr.jobs[u]
    OBVIOUS
  <1>3. s \in Seq(TransactionType) /\ Len(s) <= 1
    BY <1>1, <1>2, ListOf
  <1>4. x \in InList(s) <=> <<u, x>> \in JobsOf(tr)
    BY <1>1, <1>2, ListOf
  <1>5. s # << >> => Head(s) \in InList(s)
    BY <1>1, <1>2, ListOf DEF HasJob
  <1>6. ASSUME NEW y \in InList(s) PROVE s # << >> /\ Head(s) = y
    <2>1. PICK i \in DOMAIN s : y = s[i]
      BY DEF InList
    <2> QED
      BY <1>3, <2>1
  <1> QED
    BY <1>2, <1>4, <1>5, <1>6 DEF HasJob

LEMMA StartOutcome ==
    ASSUME NEW a \in MergingType, NEW b \in {"start", "restart"}, NEW s, ~job_type_is_conflicting(a, b)
    PROVE  \/ job_type_merge_and_collapse(a, b, s) \in {"start", "restart"}
           \/ job_type_merge_and_collapse(a, b, s) = "reload" /\ ActiveOrReloading(s)
  <1>1. b \in MergingType
    BY DEF MergingType
  <1>2. a # b => a # "stop"
    BY <1>1, MergeableIff
  <1>3. CASE b = "start"
    BY <1>1, <1>2, <1>3, MergeTable DEF MergingType
  <1>4. CASE b = "restart"
    BY <1>1, <1>2, <1>4, MergeTable DEF MergingType
  <1> QED
    BY <1>3, <1>4

LEMMA StartsAfter ==
    ASSUME TInv, phase \in Merged, NEW v \in Unit, StartsNeeded(tr, v)
    PROVE  \/ AfterApply(v) # None /\ AfterApply(v).type \in {"start", "restart"}
           \/ StaysUp(v, AfterApply(v))
  <1>1. installed[v] \in InstalledJob \cup {None}
    BY DEF TInv, TypeOK
  <1>2. installed[v] # None => installed[v].type \in MergingType
    BY <1>1 DEF InstalledJob
  <1>3. CASE HasType(tr, v, {"start", "restart"})
    <2>1. PICK x \in {"start", "restart"} : HasJob(tr, v) /\ Head(tr.jobs[v]) = x
      BY <1>3, HeadIs DEF HasType
    <2>2. AfterApply(v) # None
      BY <2>1, AfterApplyIs
    <2>3. \/ AfterApply(v).type = x
          \/ /\ installed[v] # None /\ ~job_type_is_conflicting(installed[v].type, x)
             /\ AfterApply(v).type = job_type_merge_and_collapse(installed[v].type, x, ustate[v])
      BY <2>1, AfterApplyIs
    <2>4. CASE AfterApply(v).type = x
      BY <2>2, <2>4
    <2>5. CASE /\ installed[v] # None /\ ~job_type_is_conflicting(installed[v].type, x)
               /\ AfterApply(v).type = job_type_merge_and_collapse(installed[v].type, x, ustate[v])
      <3>1. \/ AfterApply(v).type \in {"start", "restart"}
            \/ AfterApply(v).type = "reload" /\ ActiveOrReloading(ustate[v])
        BY <1>2, <2>5, StartOutcome
      <3> QED
        BY <2>2, <3>1 DEF StaysUp, ActiveOrReloading, ActiveOrActivating
    <2> QED
      BY <2>3, <2>4, <2>5
  <1>4. ASSUME NEW x \in {"start", "restart"}, Dispensable(tr, v, x)
        PROVE  StaysUp(v, AfterApply(v))
    <2>1. ActiveOrActivating(ustate[v])
      BY <1>4 DEF Dispensable, job_type_is_redundant, ActiveOrReloading, ActiveOrActivating
    <2>2. installed[v] # None => ~job_type_is_conflicting(x, installed[v].type)
      BY <1>4 DEF Dispensable
    <2>3. x \in MergingType /\ x # "stop"
      BY DEF MergingType
    <2>4. installed[v] # None => installed[v].type # "stop"
      BY <1>2, <2>2, <2>3, MergeableIff
    <2>5. AfterApply(v) \in {installed[v], None}
      BY <1>4, AfterApplyIs DEF Dispensable
    <2> QED
      BY <2>1, <2>4, <2>5 DEF StaysUp
  <1> QED
    BY <1>3, <1>4 DEF StartsNeeded

LEMMA StopsAfter ==
    ASSUME TInv, phase \in Merged, NEW v \in Unit, StopsNeeded(tr, v)
    PROVE  \/ AfterApply(v) # None /\ AfterApply(v).type = "stop"
           \/ StaysDown(v, AfterApply(v))
  <1>1. installed[v] \in InstalledJob \cup {None}
    BY DEF TInv, TypeOK
  <1>2. (installed[v] # None => installed[v].type \in MergingType) /\ "stop" \in MergingType
    BY <1>1 DEF InstalledJob, MergingType
  <1>3. CASE HasType(tr, v, {"stop"})
    <2>1. HasJob(tr, v) /\ Head(tr.jobs[v]) = "stop"
      BY <1>3, HeadIs DEF HasType
    <2>2. AfterApply(v) # None
      BY <2>1, AfterApplyIs
    <2>3. \/ AfterApply(v).type = "stop"
          \/ /\ installed[v] # None /\ ~job_type_is_conflicting(installed[v].type, "stop")
             /\ AfterApply(v).type = job_type_merge_and_collapse(installed[v].type, "stop", ustate[v])
      BY <2>1, AfterApplyIs
    <2>4. CASE /\ installed[v] # None /\ ~job_type_is_conflicting(installed[v].type, "stop")
               /\ AfterApply(v).type = job_type_merge_and_collapse(installed[v].type, "stop", ustate[v])
      <3>1. installed[v].type = "stop"
        BY <1>2, <2>4, MergeableIff
      <3> QED
        BY <1>2, <2>2, <2>4, <3>1, MergeTable
    <2> QED
      BY <2>2, <2>3, <2>4
  <1>4. CASE Dispensable(tr, v, "stop")
    <2>1. InactiveOrFailed(ustate[v])
      BY <1>4 DEF Dispensable, job_type_is_redundant
    <2>2. installed[v] # None => ~job_type_is_conflicting("stop", installed[v].type)
      BY <1>4 DEF Dispensable
    <2>3. installed[v] # None => installed[v].type = "stop"
      BY <1>2, <2>2, MergeableIff
    <2>4. AfterApply(v) \in {installed[v], None}
      BY <1>4, AfterApplyIs DEF Dispensable
    <2> QED
      BY <2>1, <2>3, <2>4 DEF StaysDown
  <1> QED
    BY <1>3, <1>4 DEF StopsNeeded

\* The end of an applied transaction.
LEMMA AppliedIs ==
    ASSUME OutcomeInv, Next, Applied, WithDependencies
    PROVE  /\ Final(tr)
           /\ \A v \in Unit : installed'[v] = AfterApply(v)
           /\ \A u \in Unit : \A T : New(u, T) => HasType(tr, u, T)
           /\ phase \in Merged
  <1>1. phase = "activate" /\ ~Destructive /\ phase \in Merged
    BY DEF Applied, Merged
  <1>2. Activate
    BY <1>1, OnlyActivate
  <1>3. installed' = [u \in Unit |-> AfterApply(u)]
    BY <1>1, <1>2 DEF Activate
  <1>4. \A u \in Unit : \A T : New(u, T) => HasType(tr, u, T)
    BY <1>1, HeadIs DEF New, HasType, OutcomeInv
  <1> QED
    BY <1>1, <1>3, <1>4 DEF OutcomeInv, FinalOK

LEMMA OutcomeSteps ==
    ASSUME OutcomeInv, Next PROVE RequirementsStep /\ ConflictsStep /\ StopsStep
  <1> SUFFICES ASSUME Applied, WithDependencies PROVE RequirementsStep /\ ConflictsStep /\ StopsStep
    BY DEF RequirementsStep, ConflictsStep, StopsStep
  <1>1. TInv /\ phase \in Merged
    BY AppliedIs DEF OutcomeInv
  <1>2. ASSUME NEW u \in Unit, New(u, {"start", "restart"}), NEW v \in Unit,
               {<<"requires", u, v>>, <<"binds_to", u, v>>} \cap dep # {}
        PROVE  \/ installed'[v] # None /\ installed'[v].type \in {"start", "restart"}
               \/ StaysUp(v, installed'[v])
    <2>1. PICK d \in {"requires", "binds_to"} : v \in DepsOf(d, u)
      BY <1>2 DEF DepsOf
    <2>2. StartsNeeded(tr, v)
      BY <1>2, <2>1, AppliedIs DEF Final
    <2>3. installed'[v] = AfterApply(v)
      BY AppliedIs
    <2> QED
      BY <1>1, <2>2, <2>3, StartsAfter
  <1>3. ASSUME NEW v \in Unit, StopsNeeded(tr, v)
        PROVE  \/ installed'[v] # None /\ installed'[v].type = "stop"
               \/ StaysDown(v, installed'[v])
    <2>1. installed'[v] = AfterApply(v)
      BY AppliedIs
    <2> QED
      BY <1>1, <1>3, <2>1, StopsAfter
  <1>4. ASSUME NEW u \in Unit, New(u, {"start", "restart"}), NEW v \in Unit \ Perpetual, <<"conflicts", u, v>> \in dep
        PROVE  StopsNeeded(tr, v)
    <2>1. v \in DepsOf("conflicts", u) \ Perpetual
      BY <1>4 DEF DepsOf
    <2> QED
      BY <1>4, <2>1, AppliedIs DEF Final
  <1>5. ASSUME NEW u \in Unit, New(u, {"stop"}), NEW d \in {"requires", "requisite", "binds_to", "part_of"},
               NEW v \in Unit \ Perpetual, <<d, v, u>> \in dep
        PROVE  StopsNeeded(tr, v)
    <2>1. v \in InverseDep(d, u) \ Perpetual
      BY <1>5 DEF InverseDep
    <2> QED
      BY <1>5, <2>1, AppliedIs DEF Final
  <1>6. RequirementsStep
    BY <1>2 DEF RequirementsStep
  <1>7. ConflictsStep
    BY <1>3, <1>4 DEF ConflictsStep
  <1>8. StopsStep
    BY <1>3, <1>5 DEF StopsStep
  <1> QED
    BY <1>6, <1>7, <1>8
=============================================================================
