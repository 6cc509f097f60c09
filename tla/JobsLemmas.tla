----------------------------- MODULE JobsLemmas -----------------------------
(***************************************************************************)
(* Proofs about the job engine, for any units, dependencies, transactions  *)
(* and requests: what each handler and each event preserves.  The theorems *)
(* these lemmas lead to are in module JobsTheorems.                        *)
(***************************************************************************)
EXTENDS Jobs, TLAPS

-----------------------------------------------------------------------------
(* What is used of finite sets.  Module JobsTheorems has it from the       *)
(* library, whose theorems would slow down every step if they were here.   *)

FiniteSetFacts ==
    /\ \A S : IsFiniteSet(S) => Cardinality(S) \in Nat
    /\ Cardinality({}) = 0
    /\ \A S, x : IsFiniteSet(S) /\ x \notin S => Cardinality(S \cup {x}) = Cardinality(S) + 1
    /\ \A S, x : IsFiniteSet(S) /\ x \in S =>
         /\ Cardinality(S \ {x}) = Cardinality(S) - 1
         /\ Cardinality(S \ {x}) \in Nat
    /\ \A S : \A T \in SUBSET S : IsFiniteSet(S) => IsFiniteSet(T)

LEMMA SizeType ==
    ASSUME FiniteSetFacts, NEW S, IsFiniteSet(S)
    PROVE  Cardinality(S) \in Nat
  BY Zenon DEF FiniteSetFacts

LEMMA SizeMore ==
    ASSUME FiniteSetFacts, NEW S, IsFiniteSet(S), NEW x, x \notin S
    PROVE  Cardinality(S \cup {x}) = Cardinality(S) + 1
  BY Zenon DEF FiniteSetFacts

LEMMA SizeLess ==
    ASSUME FiniteSetFacts, NEW S, IsFiniteSet(S), NEW x \in S
    PROVE  Cardinality(S \ {x}) = Cardinality(S) - 1 /\ Cardinality(S \ {x}) \in Nat
  BY Zenon DEF FiniteSetFacts

LEMMA FiniteSubset ==
    ASSUME FiniteSetFacts, NEW S, IsFiniteSet(S), NEW T \in SUBSET S
    PROVE  IsFiniteSet(T)
  BY Zenon DEF FiniteSetFacts

-----------------------------------------------------------------------------
(* Sequences.                                                              *)

LEMMA SeqEqual ==
    ASSUME NEW S, NEW s \in Seq(S), NEW t \in Seq(S), Len(s) = Len(t),
           \A i \in 1..Len(s) : s[i] = t[i]
    PROVE  s = t
  OBVIOUS

LEMMA ConcatAssociative ==
    ASSUME NEW S, NEW s \in Seq(S), NEW t \in Seq(S), NEW u \in Seq(S)
    PROVE  (s \o t) \o u = s \o (t \o u)
  OBVIOUS

-----------------------------------------------------------------------------
(* Stacks.                                                                 *)

\* A frame on top of a stack.
LEMMA PushTyped ==
    ASSUME NEW S, NEW f \in S, NEW s \in Seq(S)
    PROVE  <<f>> \o s \in Seq(S)
  OBVIOUS

\* A stack on top of another.
LEMMA ConcatTyped ==
    ASSUME NEW S, NEW s \in Seq(S), NEW t \in Seq(S)
    PROVE  s \o t \in Seq(S)
  OBVIOUS

LEMMA TailTyped ==
    ASSUME NEW S, NEW s \in Seq(S), s # <<>>
    PROVE  Head(s) \in S /\ Tail(s) \in Seq(S)
  OBVIOUS

LEMMA Retyped ==
    ASSUME NEW S, NEW T, NEW s \in Seq(S), \A i \in 1..Len(s) : s[i] \in T
    PROVE  s \in Seq(T)
  OBVIOUS

\* The units a unit is ordered against.
LEMMA NeighbourUnits ==
    ASSUME NEW u \in Unit
    PROVE  After(u) \subseteq Unit /\ Before(u) \subseteq Unit /\ Neighbours(u) \subseteq Unit
  <1>1. After(u) \subseteq Unit
    <2>1. \A d \in DepType : Dep[d][u] \in SUBSET Unit
      BY DepAssumption
    <2> QED
      BY <2>1 DEF After, DepType
  <1>2. Before(u) \subseteq Unit
    BY Zenon DEF Before, InverseDep
  <1> QED
    BY <1>1, <1>2 DEF Neighbours

\* A fact about nothing: with a record update in sight the SMT backend does
\* without its type inference, the cost of which grows with every step proved.
LEMMA Untyped == \A r : [r EXCEPT !.op = "none"] = [r EXCEPT !.op = "none"]
  OBVIOUS

USE Untyped

-----------------------------------------------------------------------------
(* Frames.                                                                 *)

\* Every frame but the second half of job_install().
Quiet == {f \in Frame : f.op # "place"}

LEMMA SimpleFrames ==
    /\ \A S \in SUBSET Unit : FailDependencies(S) \in Quiet
                              /\ CancelJobs(S) \in Quiet
                              /\ [op |-> "coldplug", units |-> S] \in Quiet
    /\ \A R \in SUBSET Req : AddJobs(R) \in Quiet
    /\ \A u \in Unit : /\ Requeue(u) \in Quiet /\ TriggerNotify(u) \in Quiet
                       /\ PathRunning(u) \in Quiet /\ CheckBindsTo(u) \in Quiet
    /\ \A j \in Job, e \in Errno : Ran(j, e) \in Quiet
    /\ \A u \in Unit, os \in ActiveState, ns \in ActiveState, fl \in SUBSET NotifyFlag :
          Notify(u, os, ns, fl) \in Quiet
    /\ [op |-> "dispatch"] \in Quiet /\ [op |-> "clear"] \in Quiet
  BY Zenon DEF Quiet, Frame, FailDependencies, CancelJobs, AddJobs, Requeue, TriggerNotify, PathRunning,
         CheckBindsTo, Ran, Notify

\* unit_start_on_failure() and the other requests of handlers.
LEMMA RequestFrames ==
    /\ \A u \in Unit : OnFailure(u) \in Quiet
    /\ \A S \in SUBSET Unit, mode \in Mode :
          Start(S, mode) \in SUBSET Req /\ Stop(S, mode) \in SUBSET Req
  <1>1. \A S \in SUBSET Unit, mode \in Mode :
          Start(S, mode) \in SUBSET Req /\ Stop(S, mode) \in SUBSET Req
    BY DEF Start, Stop, Req
  <1>2. \A u \in Unit : OnFailure(u) = AddJobs(Start(Dep["on_failure"][u], "replace"))
    BY DEF OnFailure, Start
  <1>3. \A u \in Unit : Dep["on_failure"][u] \in SUBSET Unit
    BY DepAssumption DEF DepType
  <1> QED
    BY <1>1, <1>2, <1>3, SimpleFrames DEF Mode

\* What is left to do once a job is gone.
LEMMA AfterFinishTyped ==
    ASSUME NEW u \in Unit, NEW t \in MergingType, NEW result \in Result,
           NEW recursive \in BOOLEAN
    PROVE  AfterFinish(u, t, result, recursive) \in Seq(Quiet)
  <1>1. \A d \in DepType : FailDependencies(Dep[d][u]) \in Quiet
    BY Zenon, DepAssumption, SimpleFrames
  <1>2. DependentsToFail(u, t, result) \in Seq(Quiet)
    BY <1>1 DEF DependentsToFail, DepType
  <1>3. <<OnFailure(u)>> \in Seq(Quiet) /\ <<TriggerNotify(u), Requeue(u)>> \in Seq(Quiet)
    BY SimpleFrames, RequestFrames
  <1> QED
    BY <1>2, <1>3 DEF AfterFinish

LEMMA QuietStacks ==
    ASSUME NEW s \in Seq(Quiet)
    PROVE  s \in Seq(Frame)
  BY DEF Quiet

-----------------------------------------------------------------------------
(* The invariant.                                                          *)

\* While job_install() waits for the cancellation of the old job, the slot is
\* empty and only the notification of path units and the requeueing of
\* neighbours come first.
PlacePending ==
    \A i \in 1..Len(stack) : stack[i].op = "place" =>
        /\ slot[stack[i].unit] = None
        /\ \A k \in 1..(i - 1) : stack[k].op \in {"trigger", "requeue"}

JobInv == FiniteSetFacts /\ TypeOK /\ SlotConsistent /\ QueuesInstalled /\ RunningCount

Inv == JobInv /\ PlacePending

LEMMA MustFailTyped ==
    ASSUME TypeOK, NEW u \in Unit, NEW t \in MergingType, NEW result \in Result
    PROVE  MustFail(u, t, result) \in SUBSET Job
  <1> DEFINE F(S) == {slot[v] : v \in {w \in S :
                        /\ slot[w] \notin {None, slot[u]}
                        /\ jobs[slot[w]].type \in {"start", "verify-active"}}}
  <1>1. \A S \in SUBSET Unit : F(S) \in SUBSET Job
    BY DEF TypeOK
  <1> HIDE DEF F
  <1>2. \A d \in DepType : Dep[d][u] \in SUBSET Unit
    BY DepAssumption
  <1>3. \/ MustFail(u, t, result) =
             F(Dep["required_by"][u] \cup Dep["requisite_of"][u] \cup Dep["bound_by"][u])
        \/ MustFail(u, t, result) = F(Dep["requisite_of"][u])
        \/ MustFail(u, t, result) = F({})
    BY DEF MustFail, F
  <1> QED
    BY <1>1, <1>2, <1>3 DEF DepType

LEMMA NoneNotJobRec == None \notin JobRec
  BY NoneAssumption

LEMMA RunningFinite ==
    ASSUME JobInv
    PROVE  IsFiniteSet(RunningJobs)
  <1>1. RunningJobs \in SUBSET Job
    BY DEF RunningJobs, Installed
  <1> QED
    BY Zenon, <1>1, JobAssumption, FiniteSubset DEF JobInv

LEMMA Uncounted ==
    ASSUME JobInv, NEW j \in Installed
    PROVE  /\ Uncount(j) \in Nat
           /\ Uncount(j) = Cardinality(RunningJobs \ {j})
  <1>1. CASE jobs[j].state = "running"
    <2>1. j \in RunningJobs
      BY <1>1 DEF RunningJobs
    <2>2. /\ Cardinality(RunningJobs \ {j}) = Cardinality(RunningJobs) - 1
          /\ Cardinality(RunningJobs \ {j}) \in Nat
      BY Zenon, <2>1, RunningFinite, SizeLess DEF JobInv
    <2> QED
      BY <2>2, <1>1 DEF Uncount, JobInv, RunningCount
  <1>2. CASE jobs[j].state # "running"
    <2>1. RunningJobs \ {j} = RunningJobs
      BY <1>2 DEF RunningJobs
    <2> QED
      BY Zenon, <2>1, <1>2 DEF Uncount, JobInv, RunningCount, TypeOK
  <1> QED
    BY <1>1, <1>2

-----------------------------------------------------------------------------
(* Finishing a job.                                                        *)

LEMMA UninstallKeeps ==
    ASSUME JobInv, NEW j \in Installed, NEW result \in Result, NEW recursive \in BOOLEAN,
           NEW rest \in Seq(Frame), UninstallJob(j, result, recursive, rest),
           UNCHANGED uvars, nreq' \in 0..MaxRequests
    PROVE  JobInv'
  <1> DEFINE u == jobs[j].unit
  <1>0. /\ j \in Job /\ u \in Unit /\ jobs[j].type \in MergingType /\ slot[u] = j
        /\ jobs[j] \in JobRec /\ jobs[j] # None
    BY DEF JobInv, TypeOK, SlotConsistent, Installed, JobRec
  <1>1. jobs' = [jobs EXCEPT ![j] = None] /\ slot' = [slot EXCEPT ![u] = None]
    BY DEF UninstallJob
  <1>2. Installed' = Installed \ {j}
    BY <1>0, <1>1, JobAssumption DEF Installed, JobInv, TypeOK
  <1>3. RunningJobs' = RunningJobs \ {j}
    BY <1>0, <1>1, <1>2 DEF RunningJobs, JobInv, TypeOK, Installed
  <1>4. RunningCount' /\ nrun' \in Nat
    BY <1>3, Uncounted DEF RunningCount, UninstallJob
  <1>5. QueuesInstalled'
    BY <1>2 DEF UninstallJob, job_unlink, JobInv, QueuesInstalled
  <1>6. SlotConsistent'
    <2>1. \A i \in Installed' : slot'[jobs'[i].unit] = i
      BY <1>0, <1>1, <1>2 DEF JobInv, TypeOK, SlotConsistent, Installed
    <2>2. \A v \in Unit : slot'[v] # None =>
              jobs'[slot'[v]] # None /\ jobs'[slot'[v]].unit = v
      BY <1>0, <1>1 DEF JobInv, TypeOK, SlotConsistent, Installed
    <2> QED
      BY <2>1, <2>2 DEF SlotConsistent
  <1>7. doomed' \in SUBSET Job
    <2>1. MustFail(u, jobs[j].type, result) \in SUBSET Job
      BY MustFailTyped, <1>0 DEF JobInv
    <2> QED
      BY <2>1 DEF UninstallJob, JobInv, TypeOK
  <1>8. stack' \in Seq(Frame)
    BY <1>0, AfterFinishTyped, QuietStacks, ConcatTyped DEF UninstallJob
  <1>9. TypeOK'
    BY Zenon, <1>0, <1>1, <1>4, <1>7, <1>8 DEF TypeOK, JobInv, UninstallJob, job_unlink, uvars
  <1> QED
    BY <1>4, <1>5, <1>6, <1>9 DEF JobInv

\* A record update that leaves the units of jobs alone.
LEMMA UpdateKeeps ==
    ASSUME JobInv, NEW j \in Installed, NEW r \in JobRec, r.unit = jobs[j].unit,
           jobs' = [jobs EXCEPT ![j] = r], slot' = slot
    PROVE  /\ jobs' \in [Job -> JobRec \cup {None}]
           /\ Installed' = Installed /\ SlotConsistent'
           /\ RunningJobs' = IF r.state = "running" THEN RunningJobs \cup {j}
                             ELSE RunningJobs \ {j}
  <1>0. j \in Job /\ jobs[j] # None /\ jobs \in [Job -> JobRec \cup {None}]
    BY DEF Installed, JobInv, TypeOK
  <1>n. None \notin JobRec
    BY NoneNotJobRec
  <1>1. jobs' \in [Job -> JobRec \cup {None}] /\ Installed' = Installed
    BY <1>0, <1>n DEF Installed
  <1>2. SlotConsistent'
    BY <1>0, <1>1, <1>n DEF JobInv, TypeOK, SlotConsistent
  <1>3. RunningJobs' = IF r.state = "running" THEN RunningJobs \cup {j} ELSE RunningJobs \ {j}
    BY <1>0, <1>1 DEF RunningJobs, Installed
  <1> QED
    BY <1>1, <1>2, <1>3

LEMMA CollectableInstalled ==
    ASSUME NEW js, NEW sl, NEW J
    PROVE  Collectable(js, sl, J) \subseteq J
  BY DEF Collectable

LEMMA PatchKeeps ==
    ASSUME JobInv, NEW j \in Installed, NEW rest \in Seq(Frame), PatchRestart(j, rest),
           UNCHANGED uvars, nreq' \in 0..MaxRequests
    PROVE  JobInv'
  <1> DEFINE r == [jobs[j] EXCEPT !.type = "start", !.state = "waiting"]
  <1>0. j \in Job /\ jobs[j] \in JobRec /\ jobs[j].unit \in Unit
    BY DEF Installed, JobInv, TypeOK, JobRec
  <1>1. r \in JobRec /\ r.unit = jobs[j].unit /\ r.state = "waiting"
    BY Zenon, <1>0 DEF JobRec, MergingType
  <1>2. jobs' = [jobs EXCEPT ![j] = r] /\ slot' = slot
    BY Zenon, <1>0 DEF PatchRestart, JobInv, TypeOK
  <1> HIDE DEF r
  <1>3. /\ jobs' \in [Job -> JobRec \cup {None}]
        /\ Installed' = Installed /\ SlotConsistent' /\ RunningJobs' = RunningJobs \ {j}
    BY Zenon, <1>1, <1>2, UpdateKeeps
  <1>4. RunningCount' /\ nrun' \in Nat
    BY Zenon, <1>3, Uncounted DEF RunningCount, PatchRestart
  <1>5. QueuesInstalled'
    BY <1>3, CollectableInstalled DEF PatchRestart, JobInv, QueuesInstalled
  <1>6. stack' \in Seq(Frame)
    BY <1>0, SimpleFrames, PushTyped DEF PatchRestart, Quiet
  <1>7. TypeOK'
    BY Zenon, <1>3, <1>4, <1>5, <1>6 DEF TypeOK, JobInv, PatchRestart, uvars, QueuesInstalled, Installed
  <1> QED
    BY <1>3, <1>4, <1>5, <1>7 DEF JobInv

\* job_finish_and_invalidate() keeps the job table, the slots, the queues and
\* the counter consistent, whatever comes after it.
LEMMA FinishKeeps ==
    ASSUME JobInv, NEW j \in Installed, NEW result \in Result, NEW recursive \in BOOLEAN,
           NEW rest \in Seq(Frame), job_finish_and_invalidate(j, result, recursive, rest),
           nreq' \in 0..MaxRequests
    PROVE  JobInv'
  BY UninstallKeeps, PatchKeeps DEF job_finish_and_invalidate

LEMMA FinishQuiet ==
    ASSUME JobInv, NEW j \in Installed, NEW result \in Result, NEW recursive \in BOOLEAN,
           NEW rest \in Seq(Quiet), job_finish_and_invalidate(j, result, recursive, rest)
    PROVE  stack' \in Seq(Quiet)
  <1>0. jobs[j].unit \in Unit /\ jobs[j].type \in MergingType
    BY DEF JobInv, TypeOK, Installed, JobRec
  <1>1. CASE UninstallJob(j, result, recursive, rest)
    BY <1>0, <1>1, AfterFinishTyped, ConcatTyped DEF UninstallJob
  <1>2. CASE PatchRestart(j, rest)
    BY <1>0, <1>2, SimpleFrames, PushTyped DEF PatchRestart
  <1> QED
    BY <1>1, <1>2 DEF job_finish_and_invalidate

-----------------------------------------------------------------------------
(* Installing a job.                                                       *)

LEMMA PlaceKeeps ==
    ASSUME JobInv, NEW u \in Unit, slot[u] = None, NEW t \in MergingType, NEW f \in Frame,
           f.irreversible \in BOOLEAN, f.ignore_order \in BOOLEAN,
           NEW rest \in Seq(Frame), PlaceJob(u, t, f, rest), nreq' \in 0..MaxRequests
    PROVE  JobInv'
  <1> DEFINE r == [unit |-> u, type |-> t, state |-> "waiting", irreversible |-> f.irreversible,
                   ignore_order |-> f.ignore_order, began |-> FALSE]
  <1>1. PICK j \in Job :
           /\ jobs[j] = None
           /\ jobs' = [jobs EXCEPT ![j] = r]
           /\ slot' = [slot EXCEPT ![u] = j]
           /\ runq' = runq \cup {j}
           /\ gcq' = gcq \cup Collectable(jobs', slot', {j})
           /\ armed' = IF u \in JobTimeout THEN armed \cup {j} ELSE armed
           /\ stack' = rest
           /\ UNCHANGED <<uvars, nrun, doomed>>
    BY Zenon DEF PlaceJob, FreeId
  <1>2. r \in JobRec /\ r # None /\ r.unit = u /\ r.state = "waiting"
    <2>1. r \in JobRec
      BY DEF JobRec
    <2> QED
      BY Zenon, <2>1, NoneNotJobRec
  <1> HIDE DEF r
  <1>3. Installed' = Installed \cup {j}
    BY <1>1, <1>2 DEF Installed, JobInv, TypeOK
  <1>4. RunningJobs' = RunningJobs
    BY <1>1, <1>2, <1>3 DEF RunningJobs, JobInv, TypeOK, Installed
  <1>5. SlotConsistent'
    BY <1>1, <1>2, <1>3, JobAssumption DEF SlotConsistent, JobInv, TypeOK, Installed
  <1>6. QueuesInstalled'
    BY <1>1, <1>3, CollectableInstalled DEF QueuesInstalled, JobInv
  <1>7. TypeOK'
    BY Zenon, <1>1, <1>2, <1>6 DEF TypeOK, JobInv, QueuesInstalled, Installed, uvars
  <1> QED
    BY <1>1, <1>4, <1>5, <1>6, <1>7 DEF JobInv, RunningCount

\* Merging two types that do not conflict gives a type a job can have.
LEMMA MergeTyped ==
    ASSUME NEW t1 \in MergingType, NEW t2 \in MergingType, NEW st \in ActiveState,
           ~job_type_is_conflicting(t1, t2)
    PROVE  job_type_merge_and_collapse(t1, t2, st) \in MergingType
  BY DEF MergingType, job_type_is_conflicting, job_type_is_mergeable, job_type_lookup_merge,
         job_type_merge_and_collapse, job_type_collapse, NoMerge, ActiveState,
         ActiveOrReloading

LEMMA MergeKeeps ==
    ASSUME JobInv, NEW j \in Installed, NEW t \in MergingType, NEW f \in Frame,
           f.irreversible \in BOOLEAN, f.ignore_order \in BOOLEAN,
           ~job_type_is_conflicting(jobs[j].type, t),
           NEW rest \in Seq(Frame), MergeIntoInstalled(j, t, f, rest), nreq' \in 0..MaxRequests
    PROVE  JobInv'
  <1> DEFINE r == MergedJob(j, t, f)
  <1>0. j \in Job /\ jobs[j] \in JobRec /\ jobs[j].unit \in Unit /\ jobs[j].type \in MergingType
        /\ ustate[jobs[j].unit] \in ActiveState
    BY DEF Installed, JobInv, TypeOK, JobRec
  <1>m. job_type_merge_and_collapse(jobs[j].type, t, ustate[jobs[j].unit]) \in MergingType
    BY <1>0, MergeTyped
  <1>1. /\ r \in JobRec /\ r.unit = jobs[j].unit
        /\ r.state = IF RunsAgain(j, t) THEN "waiting" ELSE jobs[j].state
    <2>1. /\ (jobs[j].irreversible \/ f.irreversible) \in BOOLEAN
          /\ (jobs[j].ignore_order \/ f.ignore_order) \in BOOLEAN
      OBVIOUS
    <2>2. (IF RunsAgain(j, t) THEN "waiting" ELSE jobs[j].state) \in {"waiting", "running"}
      BY <1>0 DEF JobRec
    <2> QED
      BY Zenon, <1>0, <1>m, <2>1, <2>2 DEF JobRec, MergedJob
  <1>2. jobs' = [jobs EXCEPT ![j] = r] /\ slot' = slot
    BY DEF MergeIntoInstalled
  <1> HIDE DEF r
  <1>3. /\ jobs' \in [Job -> JobRec \cup {None}]
        /\ Installed' = Installed /\ SlotConsistent'
        /\ RunningJobs' = IF r.state = "running" THEN RunningJobs \cup {j} ELSE RunningJobs \ {j}
    BY Zenon, <1>1, <1>2, UpdateKeeps
  <1>4. RunningCount' /\ nrun' \in Nat
    <2>1. CASE RunsAgain(j, t)
      <3>1. RunningJobs' = RunningJobs \ {j} /\ jobs[j].state = "running" /\ nrun' = nrun - 1
        BY <1>1, <1>3, <2>1 DEF RunsAgain, MergeIntoInstalled
      <3> QED
        BY Zenon, <3>1, Uncounted DEF Uncount, RunningCount
    <2>2. CASE ~RunsAgain(j, t)
      <3>1. RunningJobs' = RunningJobs /\ nrun' = nrun
        BY <1>1, <1>3, <2>2 DEF RunningJobs, MergeIntoInstalled
      <3> QED
        BY <3>1 DEF JobInv, RunningCount, TypeOK
    <2> QED
      BY <2>1, <2>2
  <1>5. QueuesInstalled'
    BY <1>3 DEF MergeIntoInstalled, JobInv, QueuesInstalled
  <1>6. TypeOK'
    BY Zenon, <1>3, <1>4, <1>5 DEF TypeOK, JobInv, MergeIntoInstalled, uvars, QueuesInstalled, Installed
  <1> QED
    BY <1>3, <1>4, <1>5, <1>6 DEF JobInv

-----------------------------------------------------------------------------
(* The steps.  With no path units a cancellation inside job_install() does *)
(* not install anything, so that the second half finds the slot empty.     *)

\* Below a frame that is not part of a cancellation nothing is half installed.
LEMMA BelowQuiet ==
    ASSUME Inv, stack # <<>>, Head(stack).op \notin {"trigger", "requeue"}
    PROVE  Tail(stack) \in Seq(Quiet) /\ (Head(stack).op # "place" => stack \in Seq(Quiet))
  <1>0. stack \in Seq(Frame) /\ Tail(stack) \in Seq(Frame) /\ Len(stack) \in Nat \ {0}
    BY DEF Inv, JobInv, TypeOK
  <1>1. \A i \in 2..Len(stack) : stack[i].op # "place"
    BY <1>0 DEF Inv, PlacePending
  <1>2. \A i \in 1..Len(Tail(stack)) : Tail(stack)[i] = stack[i + 1] /\ i + 1 \in 2..Len(stack)
    BY <1>0
  <1>3. \A i \in 1..Len(Tail(stack)) : Tail(stack)[i] \in Quiet
    BY <1>0, <1>1, <1>2 DEF Quiet
  <1>4. Head(stack).op # "place" => \A i \in 1..Len(stack) : stack[i] \in Quiet
    BY <1>0, <1>1 DEF Quiet
  <1> QED
    BY Zenon, <1>0, <1>3, <1>4, Retyped

LEMMA TopFrame ==
    ASSUME Inv, NEW op, Top(op), UNCHANGED nreq
    PROVE  /\ stack # <<>> /\ Head(stack).op = op /\ Head(stack) \in Frame
           /\ JobInv /\ TypeOK /\ stack \in Seq(Frame) /\ nreq' \in 0..MaxRequests
  BY DEF Top, Inv, JobInv, TypeOK

LEMMA QuietPending ==
    ASSUME stack' \in Seq(Quiet)
    PROVE  PlacePending'
  <1>1. \A i \in 1..Len(stack') : stack'[i] \in Quiet
    OBVIOUS
  <1>2. \A i \in 1..Len(stack') : stack'[i].op # "place"
    BY <1>1 DEF Quiet
  <1> QED
    BY Zenon, <1>2 DEF PlacePending

\* A step that only changes the stack, and what has nothing to do with jobs.
LEMMA StackStep ==
    ASSUME JobInv, UNCHANGED jvars, stack' \in Seq(Quiet), nreq' \in 0..MaxRequests,
           ustate' \in [Unit -> ActiveState], path' \in [Unit -> {"dead", "waiting", "running"}]
    PROVE  Inv'
  <1>1. TypeOK'
    BY QuietStacks DEF JobInv, TypeOK, jvars
  <1>2. SlotConsistent' /\ QueuesInstalled' /\ RunningCount'
    <2>1. /\ jobs' = jobs /\ slot' = slot /\ runq' = runq /\ gcq' = gcq /\ armed' = armed
          /\ nrun' = nrun
      BY DEF jvars
    <2>2. Installed' = Installed /\ RunningJobs' = RunningJobs
      BY <2>1 DEF Installed, RunningJobs
    <2> QED
      BY <2>1, <2>2 DEF JobInv, SlotConsistent, QueuesInstalled, RunningCount
  <1> QED
    BY <1>1, <1>2, QuietPending DEF Inv, JobInv

\* Popping a frame of a cancellation.
LEMMA PopPending ==
    ASSUME PlacePending, stack \in Seq(Frame), stack # <<>>, stack' = Tail(stack), slot' = slot
    PROVE  PlacePending'
  <1>1. \A i \in 1..Len(stack') : stack'[i] = stack[i + 1] /\ i + 1 \in 1..Len(stack)
    OBVIOUS
  <1>2. Len(stack') \in Nat
    OBVIOUS
  <1>3. ASSUME NEW i \in 1..Len(stack'), stack'[i].op = "place"
        PROVE  /\ slot'[stack'[i].unit] = None
               /\ \A k \in 1..(i - 1) : stack'[k].op \in {"trigger", "requeue"}
    <2>1. i + 1 \in 1..Len(stack) /\ stack[i + 1].op = "place" /\ stack'[i] = stack[i + 1]
      BY <1>1, <1>3
    <2>2. /\ slot[stack[i + 1].unit] = None
          /\ \A k \in 1..i : stack[k].op \in {"trigger", "requeue"}
      BY <2>1, <1>2 DEF PlacePending
    <2>3. \A k \in 1..(i - 1) : k + 1 \in 1..i /\ k \in 1..Len(stack')
      BY <1>2
    <2> QED
      BY <2>1, <2>2, <2>3, <1>1
  <1> QED
    BY <1>3 DEF PlacePending

LEMMA FinishStep ==
    ASSUME JobInv, NEW j \in Installed, NEW result \in Result, NEW recursive \in BOOLEAN,
           NEW rest \in Seq(Quiet), job_finish_and_invalidate(j, result, recursive, rest),
           nreq' \in 0..MaxRequests
    PROVE  Inv'
  BY FinishKeeps, FinishQuiet, QuietPending, QuietStacks DEF Inv

LEMMA SlotInstalled ==
    ASSUME JobInv, NEW u \in Unit, slot[u] # None
    PROVE  /\ slot[u] \in Installed /\ jobs[slot[u]].unit = u
           /\ jobs[slot[u]].type \in MergingType
  BY DEF JobInv, TypeOK, SlotConsistent, Installed, JobRec

LEMMA FailStepKeeps ==
    ASSUME Inv, FailStep
    PROVE  Inv'
  <1> DEFINE f == Head(stack)
  <1>t. Top("fail") /\ UNCHANGED nreq
    BY Zenon DEF FailStep
  <1>0. /\ stack # <<>> /\ f.op = "fail" /\ f \in Frame /\ JobInv
        /\ nreq' \in 0..MaxRequests
    BY <1>t, TopFrame
  <1>1. f.units \in SUBSET Unit
    BY Zenon, <1>0 DEF Frame
  <1>2. Tail(stack) \in Seq(Quiet)
    BY <1>0, BelowQuiet
  <1>3. \A v \in f.units : <<FailDependencies(f.units \ {v})>> \o Tail(stack) \in Seq(Quiet)
    BY Zenon, <1>1, <1>2, SimpleFrames, PushTyped
  <1>4. CASE UNCHANGED <<uvars, jvars>> /\ stack' \in Seq(Quiet)
    BY <1>0, <1>4, StackStep DEF uvars, JobInv, TypeOK
  <1>5. ASSUME NEW v \in f.units, slot[v] # None,
               job_finish_and_invalidate(slot[v], "dependency", TRUE,
                 <<FailDependencies(f.units \ {v})>> \o Tail(stack))
        PROVE  Inv'
    <2>1. slot[v] \in Installed
      BY Zenon, <1>0, <1>1, <1>5, SlotInstalled
    <2> QED
      BY Zenon, <1>0, <1>3, <1>5, <2>1, FinishStep DEF Result
  <1> QED
    BY Zenon, <1>2, <1>3, <1>4, <1>5 DEF FailStep

LEMMA RequeueStepKeeps ==
    ASSUME Inv, RequeueStep
    PROVE  Inv'
  <1> DEFINE J == {slot[v] : v \in Neighbours(Head(stack).unit)} \ {None}
  <1>t. Top("requeue") /\ UNCHANGED nreq
    BY Zenon DEF RequeueStep
  <1>0. /\ stack # <<>> /\ JobInv /\ stack \in Seq(Frame)
        /\ stack' = Tail(stack) /\ Head(stack).op = "requeue"
    BY <1>t, TopFrame DEF RequeueStep
  <1>1. J \subseteq Installed
    <2>1. Neighbours(Head(stack).unit) \subseteq Unit
      <3>1. Head(stack).unit \in Unit
        BY <1>0 DEF Frame
      <3> QED
        BY <3>1, NeighbourUnits
    <2> QED
      BY <1>0, <2>1, SlotInstalled
  <1>2. /\ runq' = runq \cup J /\ gcq' = gcq \cup Collectable(jobs, slot, J)
        /\ UNCHANGED <<ustate, path, jobs, slot, armed, nrun, doomed, nreq>>
    BY DEF RequeueStep, uvars
  <1> HIDE DEF J
  <1>3. Installed' = Installed /\ RunningJobs' = RunningJobs
    BY <1>2 DEF Installed, RunningJobs
  <1>4. SlotConsistent' /\ RunningCount'
    BY Zenon, <1>0, <1>2, <1>3 DEF JobInv, SlotConsistent, RunningCount
  <1>5. QueuesInstalled'
    BY <1>0, <1>1, <1>2, <1>3, CollectableInstalled DEF JobInv, QueuesInstalled
  <1>6. TypeOK'
    BY <1>0, <1>2, <1>5, <1>3 DEF JobInv, TypeOK, QueuesInstalled, Installed
  <1>7. PlacePending'
    BY <1>0, <1>2, PopPending DEF Inv
  <1> QED
    BY <1>4, <1>5, <1>6, <1>7 DEF Inv, JobInv

LEMMA TriggerStepKeeps ==
    ASSUME Watched = {}, Inv, TriggerStep
    PROVE  Inv'
  <1>t. Top("trigger") /\ UNCHANGED nreq
    BY Zenon DEF TriggerStep
  <1>0. /\ stack # <<>> /\ JobInv /\ stack \in Seq(Frame) /\ Head(stack).op = "trigger"
        /\ nreq' = nreq
    BY <1>t, TopFrame
  <1>1. PathSet(Head(stack).unit, path[Head(stack).unit], Tail(stack))
    BY DEF TriggerStep
  <1>2. /\ ustate' = ustate /\ UNCHANGED jvars /\ stack' = Tail(stack)
        /\ path' \in [Unit -> {"dead", "waiting", "running"}]
    BY Zenon, <1>0, <1>1 DEF PathSet, JobInv, TypeOK, Frame
  <1>3. /\ jobs' = jobs /\ slot' = slot /\ runq' = runq /\ gcq' = gcq /\ armed' = armed
        /\ nrun' = nrun /\ doomed' = doomed
    BY <1>2 DEF jvars
  <1>4. Installed' = Installed /\ RunningJobs' = RunningJobs
    BY <1>3 DEF Installed, RunningJobs
  <1>5. SlotConsistent' /\ RunningCount' /\ QueuesInstalled'
    BY <1>0, <1>3, <1>4 DEF JobInv, SlotConsistent, RunningCount, QueuesInstalled
  <1>6. TypeOK'
    BY <1>0, <1>2, <1>3 DEF JobInv, TypeOK
  <1>7. PlacePending'
    BY <1>0, <1>2, <1>3, PopPending DEF Inv
  <1> QED
    BY <1>5, <1>6, <1>7 DEF Inv, JobInv

-----------------------------------------------------------------------------
(* Applying a transaction.                                                 *)

\* A boolean expression is a boolean.
LEMMA EqBoolean ==
    ASSUME NEW x, NEW y
    PROVE  (x = y) \in BOOLEAN
  OBVIOUS

LEMMA InstallFrames ==
    \A J \in SUBSET (Unit \X MergingType), ir \in BOOLEAN, io \in BOOLEAN :
        [op |-> "install", left |-> J, irreversible |-> ir, ignore_order |-> io] \in Quiet
  BY DEF Quiet, Frame

LEMMA ApplyTyped ==
    ASSUME NEW tr \in Transactions, NEW mode
    PROVE  ApplyFrames(tr.jobs, mode) \in Seq(Quiet)
  <1> DEFINE J == tr.jobs
             S == Unit \ (IgnoreOnIsolate \cup {p[1] : p \in J})
             ir == mode = "replace-irreversibly"
             io == mode = "ignore-dependencies"
             g == [op |-> "install", left |-> J, irreversible |-> ir, ignore_order |-> io]
             h == CancelJobs(S)
  <1>1. J \in SUBSET (Unit \X MergingType)
    BY TransactionAssumption
  <1>2. S \in SUBSET Unit
    OBVIOUS
  <1>3. ir \in BOOLEAN /\ io \in BOOLEAN
    BY EqBoolean
  <1>4. g \in Quiet
    <2> HIDE DEF J, ir, io
    <2> QED
      BY <1>1, <1>3, InstallFrames
  <1>5. h \in Quiet
    <2> HIDE DEF S
    <2> QED
      BY Zenon, <1>2, SimpleFrames
  <1>6. ApplyFrames(J, mode) = (IF mode = "flush" THEN <<h>> ELSE <<>>) \o <<g>>
    BY DEF ApplyFrames
  <1> HIDE DEF g, h
  <1> QED
    BY <1>4, <1>5, <1>6

LEMMA AddJobKeeps ==
    ASSUME JobInv, NEW type, NEW u, NEW mode, NEW rest \in Seq(Quiet),
           manager_add_job(type, u, mode, rest), nreq' \in 0..MaxRequests
    PROVE  Inv'
  <1>1. stack' \in Seq(Quiet)
    <2>1. CASE stack' = rest
      BY <2>1
    <2>2. ASSUME NEW tr \in Transactions, stack' = ApplyFrames(tr.jobs, mode) \o rest
          PROVE  stack' \in Seq(Quiet)
      BY Zenon, <2>2, ApplyTyped, ConcatTyped
    <2> QED
      BY <2>1, <2>2 DEF manager_add_job
  <1>2. UNCHANGED <<ustate, path>> /\ UNCHANGED jvars
    BY DEF manager_add_job, uvars
  <1> QED
    BY <1>1, <1>2, StackStep DEF JobInv, TypeOK

LEMMA AddsStepKeeps ==
    ASSUME Inv, AddsStep
    PROVE  Inv'
  <1> DEFINE f == Head(stack)
  <1>t. Top("adds") /\ UNCHANGED nreq
    BY Zenon DEF AddsStep
  <1>0. /\ stack # <<>> /\ f.op = "adds" /\ f \in Frame /\ JobInv
        /\ nreq' \in 0..MaxRequests
    BY <1>t, TopFrame
  <1>1. f.reqs \in SUBSET Req
    BY Zenon, <1>0 DEF Frame
  <1>2. Tail(stack) \in Seq(Quiet)
    BY <1>0, BelowQuiet
  <1>3. \A q \in f.reqs : <<AddJobs(f.reqs \ {q})>> \o Tail(stack) \in Seq(Quiet)
    BY Zenon, <1>1, <1>2, SimpleFrames, PushTyped
  <1>4. CASE UNCHANGED <<uvars, jvars>> /\ stack' = Tail(stack)
    BY <1>0, <1>2, <1>4, StackStep DEF uvars, JobInv, TypeOK
  <1>5. ASSUME NEW q \in f.reqs,
               manager_add_job(q.type, q.unit, q.mode, <<AddJobs(f.reqs \ {q})>> \o Tail(stack))
        PROVE  Inv'
    BY Zenon, <1>0, <1>3, <1>5, AddJobKeeps
  <1> QED
    BY Zenon, <1>4, <1>5 DEF AddsStep

LEMMA FlushStepKeeps ==
    ASSUME Inv, FlushStep
    PROVE  Inv'
  <1> DEFINE S == Head(stack).units
             a(L) == <<CancelJobs(L)>> \o Tail(stack)
  <1>t. Top("flush") /\ UNCHANGED nreq
    BY Zenon DEF FlushStep
  <1>0. /\ stack # <<>> /\ Head(stack).op = "flush" /\ Head(stack) \in Frame /\ JobInv
        /\ nreq' \in 0..MaxRequests
    BY <1>t, TopFrame
  <1>1. S \in SUBSET Unit
    BY Zenon, <1>0 DEF Frame
  <1>2. Tail(stack) \in Seq(Quiet)
    BY <1>0, BelowQuiet
  <1>3. \A L \in SUBSET Unit : a(L) \in Seq(Quiet)
    BY Zenon, <1>2, SimpleFrames, PushTyped
  <1>4. CASE UNCHANGED <<uvars, jvars>> /\ stack' \in Seq(Quiet)
    BY <1>0, <1>4, StackStep DEF uvars, JobInv, TypeOK
  <1>5. ASSUME NEW u \in S, slot[u] # None, NEW L \in SUBSET Unit,
               job_finish_and_invalidate(slot[u], "canceled", FALSE, a(L))
        PROVE  Inv'
    <2>1. slot[u] \in Installed
      BY Zenon, <1>0, <1>1, <1>5, SlotInstalled
    <2> QED
      BY Zenon, <1>0, <1>3, <1>5, <2>1, FinishStep DEF Result
  <1>6. \A u \in S : S \in SUBSET Unit /\ S \ {u} \in SUBSET Unit
    BY <1>1
  <1> HIDE DEF a
  <1>7. \/ stack' = Tail(stack) /\ UNCHANGED <<uvars, jvars>>
        \/ \E u \in S : \/ \E L \in {S, S \ {u}} :
                              /\ slot[u] # None
                              /\ job_finish_and_invalidate(slot[u], "canceled", FALSE, a(L))
                        \/ stack' = a(S \ {u}) /\ UNCHANGED <<uvars, jvars>>
    BY Zenon DEF FlushStep, a
  <1>8. CASE stack' = Tail(stack) /\ UNCHANGED <<uvars, jvars>>
    BY Zenon, <1>2, <1>4, <1>8
  <1>9. ASSUME NEW u \in S, NEW L \in {S, S \ {u}}, slot[u] # None,
               job_finish_and_invalidate(slot[u], "canceled", FALSE, a(L))
        PROVE  Inv'
    <2>1. L \in SUBSET Unit
      BY Zenon, <1>6, <1>9
    <2> QED
      BY Zenon, <1>5, <1>9, <2>1
  <1>10. ASSUME NEW u \in S, stack' = a(S \ {u}), UNCHANGED <<uvars, jvars>>
         PROVE  Inv'
    BY Zenon, <1>3, <1>4, <1>6, <1>10
  <1> QED
    BY Zenon, <1>7, <1>8, <1>9, <1>10

LEMMA ClearStepKeeps ==
    ASSUME Inv, ClearStep
    PROVE  Inv'
  <1>t. Top("clear") /\ UNCHANGED nreq
    BY Zenon DEF ClearStep
  <1>0. /\ stack # <<>> /\ Head(stack).op = "clear" /\ JobInv /\ nreq' \in 0..MaxRequests
    BY <1>t, TopFrame
  <1>1. stack \in Seq(Quiet) /\ Tail(stack) \in Seq(Quiet)
    BY <1>0, BelowQuiet
  <1>2. CASE UNCHANGED <<uvars, jvars>> /\ stack' = Tail(stack)
    BY <1>0, <1>1, <1>2, StackStep DEF uvars, JobInv, TypeOK
  <1>3. ASSUME NEW j \in Installed, job_finish_and_invalidate(j, "canceled", FALSE, stack)
        PROVE  Inv'
    BY Zenon, <1>0, <1>1, <1>3, FinishStep DEF Result
  <1> QED
    BY Zenon, <1>2, <1>3 DEF ClearStep

\* The frames of a cancellation inside job_install().
LEMMA CancelPending ==
    ASSUME NEW g \in Frame, NEW a \in Frame, NEW b \in Frame, NEW rest \in Seq(Quiet),
           a.op = "trigger", b.op = "requeue", slot'[g.unit] = None,
           stack' = <<a, b>> \o (<<g>> \o rest)
    PROVE  PlacePending'
  <1>0. rest \in Seq(Frame) /\ Len(rest) \in Nat
    BY QuietStacks
  <1>1. /\ Len(stack') = Len(rest) + 3
        /\ stack'[1] = a /\ stack'[2] = b /\ stack'[3] = g
    BY <1>0
  <1>2. \A i \in 4..Len(stack') : stack'[i] = rest[i - 3] /\ i - 3 \in 1..Len(rest)
    BY <1>0, <1>1
  <1>3. \A i \in 4..Len(stack') : stack'[i].op # "place"
    BY <1>2 DEF Quiet
  <1>4. \A i \in 1..Len(stack') : i \in 4..Len(stack') \/ i = 1 \/ i = 2 \/ i = 3
    BY <1>0, <1>1
  <1>5. \A k \in 1..(3 - 1) : k = 1 \/ k = 2
    OBVIOUS
  <1> QED
    BY Zenon, <1>1, <1>3, <1>4, <1>5 DEF PlacePending

LEMMA InstallCancels ==
    ASSUME JobInv, NEW u \in Unit, slot[u] # None, NEW g \in Frame, g.unit = u,
           NEW rest \in Seq(Quiet),
           job_finish_and_invalidate(slot[u], "canceled", FALSE, <<g>> \o rest),
           nreq' \in 0..MaxRequests
    PROVE  Inv'
  <1>1. slot[u] \in Installed /\ jobs[slot[u]].unit = u
    BY SlotInstalled
  <1>2. <<g>> \o rest \in Seq(Frame)
    BY QuietStacks, PushTyped
  <1>3. JobInv'
    BY Zenon, <1>1, <1>2, FinishKeeps DEF Result
  <1>4. UninstallJob(slot[u], "canceled", FALSE, <<g>> \o rest)
    BY Zenon DEF job_finish_and_invalidate
  <1>5. slot'[u] = None
    BY Zenon, <1>1, <1>4 DEF UninstallJob, JobInv, TypeOK
  <1>6. AfterFinish(u, jobs[slot[u]].type, "canceled", FALSE) = <<TriggerNotify(u), Requeue(u)>>
    BY DEF AfterFinish
  <1>7. stack' = <<TriggerNotify(u), Requeue(u)>> \o (<<g>> \o rest)
    BY Zenon, <1>1, <1>4, <1>6 DEF UninstallJob
  <1>8. /\ TriggerNotify(u) \in Frame /\ Requeue(u) \in Frame
        /\ TriggerNotify(u).op = "trigger" /\ Requeue(u).op = "requeue"
    BY Zenon, SimpleFrames DEF Quiet, TriggerNotify, Requeue
  <1>9. PlacePending'
    BY Zenon, <1>5, <1>7, <1>8, CancelPending
  <1> QED
    BY <1>3, <1>9 DEF Inv

LEMMA PlaceFrames ==
    \A u \in Unit, t \in MergingType, ir \in BOOLEAN, io \in BOOLEAN :
        [op |-> "place", unit |-> u, type |-> t, irreversible |-> ir, ignore_order |-> io]
            \in Frame
  BY DEF Frame

LEMMA PlaceStack ==
    ASSUME NEW u, NEW t, NEW f, NEW rest, PlaceJob(u, t, f, rest)
    PROVE  stack' = rest
  BY DEF PlaceJob

LEMMA InstallStepKeeps ==
    ASSUME Inv, InstallStep
    PROVE  Inv'
  <1> DEFINE f == Head(stack)
             Rest(p) == <<[f EXCEPT !.left = @ \ {p}]>> \o Tail(stack)
  <1>t. Top("install") /\ UNCHANGED nreq
    BY Zenon DEF InstallStep
  <1>0. /\ stack # <<>> /\ f.op = "install" /\ f \in Frame /\ JobInv
        /\ nreq' \in 0..MaxRequests
    BY <1>t, TopFrame
  <1>1. f \in [op : {"install"}, left : SUBSET (Unit \X MergingType),
               irreversible : BOOLEAN, ignore_order : BOOLEAN]
    BY <1>0 DEF Frame
  <1>2. Tail(stack) \in Seq(Quiet)
    BY <1>0, BelowQuiet
  <1>3. \A p \in f.left : Rest(p) \in Seq(Quiet)
    <2>1. \A p \in f.left : [f EXCEPT !.left = @ \ {p}] \in Quiet
      BY <1>1 DEF Quiet, Frame
    <2> QED
      BY <1>2, <2>1, PushTyped
  <1>4. CASE UNCHANGED <<uvars, jvars>> /\ stack' = Tail(stack)
    BY <1>0, <1>2, <1>4, StackStep DEF uvars, JobInv, TypeOK
  <1>5. ASSUME NEW p \in f.left, job_install(p[1], p[2], f, Rest(p))
        PROVE  Inv'
    <2>0. /\ p[1] \in Unit /\ p[2] \in MergingType /\ Rest(p) \in Seq(Quiet)
          /\ Rest(p) \in Seq(Frame) /\ f.irreversible \in BOOLEAN /\ f.ignore_order \in BOOLEAN
      BY Zenon, <1>1, <1>3, QuietStacks
    <2>f. /\ f \in Frame /\ JobInv /\ nreq' \in 0..MaxRequests
          /\ job_install(p[1], p[2], f, Rest(p))
      BY <1>0, <1>5
    <2> HIDE DEF f, Rest
    <2>1. CASE slot[p[1]] = None
      <3>1. PlaceJob(p[1], p[2], f, Rest(p))
        BY Zenon, <2>f, <2>1 DEF job_install
      <3> QED
        BY Zenon, <2>0, <2>f, <2>1, <3>1, PlaceKeeps, PlaceStack, QuietPending DEF Inv
    <2>2. CASE slot[p[1]] # None /\ job_type_is_conflicting(jobs[slot[p[1]]].type, p[2])
      <3> DEFINE g == [op |-> "place", unit |-> p[1], type |-> p[2],
                       irreversible |-> f.irreversible, ignore_order |-> f.ignore_order]
      <3>1. g \in Frame /\ g.unit = p[1]
        BY <2>0, PlaceFrames
      <3>2. job_finish_and_invalidate(slot[p[1]], "canceled", FALSE, <<g>> \o Rest(p))
        BY Zenon, <2>f, <2>2 DEF job_install
      <3> HIDE DEF g
      <3> QED
        BY Zenon, <2>0, <2>f, <2>2, <3>1, <3>2, InstallCancels
    <2>3. CASE slot[p[1]] # None /\ ~job_type_is_conflicting(jobs[slot[p[1]]].type, p[2])
      <3>1. MergeIntoInstalled(slot[p[1]], p[2], f, Rest(p))
        BY Zenon, <2>f, <2>3 DEF job_install
      <3>2. slot[p[1]] \in Installed
        BY Zenon, <2>0, <2>f, <2>3, SlotInstalled
      <3>3. JobInv'
        BY Zenon, <2>0, <2>f, <2>3, <3>1, <3>2, MergeKeeps
      <3>4. stack' = Rest(p)
        BY Zenon, <3>1 DEF MergeIntoInstalled
      <3> QED
        BY <2>0, <3>3, <3>4, QuietPending DEF Inv
    <2> QED
      BY <2>1, <2>2, <2>3
  <1> QED
    BY Zenon, <1>4, <1>5 DEF InstallStep

LEMMA PlaceStepKeeps ==
    ASSUME Inv, PlaceStep
    PROVE  Inv'
  <1> DEFINE f == Head(stack)
  <1>t. Top("place") /\ UNCHANGED nreq
    BY Zenon DEF PlaceStep
  <1>0. /\ stack # <<>> /\ f.op = "place" /\ f \in Frame /\ JobInv /\ Len(stack) \in Nat \ {0}
        /\ nreq' \in 0..MaxRequests /\ f = stack[1] /\ stack \in Seq(Frame)
    BY <1>t, TopFrame
  <1>1. /\ f.unit \in Unit /\ f.type \in MergingType
        /\ f.irreversible \in BOOLEAN /\ f.ignore_order \in BOOLEAN
    BY <1>0 DEF Frame
  <1>2. slot[f.unit] = None
    BY <1>0 DEF Inv, PlacePending
  <1>3. Tail(stack) \in Seq(Quiet)
    BY <1>0, BelowQuiet
  <1>4. PlaceJob(f.unit, f.type, f, Tail(stack))
    BY DEF PlaceStep
  <1>5. JobInv'
    BY Zenon, <1>0, <1>1, <1>2, <1>3, <1>4, QuietStacks, PlaceKeeps
  <1> QED
    BY Zenon, <1>3, <1>4, <1>5, PlaceStack, QuietPending DEF Inv

-----------------------------------------------------------------------------
(* State changes of units, and path units.                                 *)

LEMMA InverseUnits ==
    ASSUME NEW d, NEW u
    PROVE  InverseDep(d, u) \in SUBSET Unit
  BY Zenon DEF InverseDep

LEMMA RetroactiveTyped ==
    ASSUME NEW u \in Unit
    PROVE  RetroactivelyStart(u) \in SUBSET Req /\ RetroactivelyStop(u) \in SUBSET Req
  <1> DEFINE down == InState(Unit \ After(u), {"inactive", "failed", "deactivating", "maintenance"})
             up == InState(Unit, {"active", "reloading", "activating", "maintenance"})
             A == (InverseDep("required_by", u) \cup InverseDep("bound_by", u)) \cap down
             B == InverseDep("wanted_by", u) \cap down
             C == (InverseDep("conflicted_by", u) \cup Dep["conflicted_by"][u]) \cap up
             D == InState(Dep["bound_by"][u], {"active", "reloading", "activating", "maintenance"})
  <1>1. up \in SUBSET Unit
    BY DEF InState
  <1>2. \A d \in DepType : Dep[d][u] \in SUBSET Unit
    BY DepAssumption
  <1>3. A \in SUBSET Unit /\ B \in SUBSET Unit
    BY InverseUnits
  <1>4. C \in SUBSET Unit
    BY <1>1
  <1>5. D \in SUBSET Unit
    BY <1>2 DEF InState, DepType
  <1>6. RetroactivelyStart(u) = Start(A, "replace") \cup Start(B, "fail") \cup Stop(C, "replace")
    BY Zenon DEF RetroactivelyStart
  <1>7. RetroactivelyStop(u) = Stop(D, "replace")
    BY DEF RetroactivelyStop
  <1> HIDE DEF A, B, C, D
  <1> QED
    BY <1>3, <1>4, <1>5, <1>6, <1>7, RequestFrames DEF Mode

LEMMA AfterNotifyTyped ==
    ASSUME NEW u \in Unit, NEW os, NEW ns, NEW flags, NEW unexpected
    PROVE  AfterNotify(u, os, ns, flags, unexpected) \in Seq(Quiet)
  <1> DEFINE R == IF unexpected /\ InactiveOrFailed(os) /\ ActiveOrActivating(ns)
                  THEN RetroactivelyStart(u)
                  ELSE IF unexpected /\ ActiveOrActivating(os) /\ InactiveOrDeactivating(ns)
                  THEN RetroactivelyStop(u) ELSE {}
             failed == ns # os /\ ns = "failed" /\ "will-auto-restart" \notin flags
  <1>1. R \in SUBSET Req
    BY RetroactiveTyped
  <1>2. AfterNotify(u, os, ns, flags, unexpected)
          = <<AddJobs(R)>> \o (IF failed THEN <<OnFailure(u)>> ELSE <<>>)
            \o <<TriggerNotify(u), CheckBindsTo(u)>>
    BY DEF AfterNotify
  <1> HIDE DEF R, failed
  <1>3. /\ AddJobs(R) \in Quiet /\ OnFailure(u) \in Quiet /\ TriggerNotify(u) \in Quiet
        /\ CheckBindsTo(u) \in Quiet
    BY Zenon, <1>1, SimpleFrames, RequestFrames
  <1> QED
    BY <1>2, <1>3

\* How a job ends is one of the results, or it goes on.
LEMMA OutcomeTyped ==
    ASSUME NEW j, jobs[j].type \in MergingType, NEW ns, NEW flags
    PROVE  JobOutcome(j, ns, flags) \in Result \cup {"none"}
  BY DEF JobOutcome, Result, MergingType

LEMMA NotifyStepKeeps ==
    ASSUME Inv, NotifyStep
    PROVE  Inv'
  <1> DEFINE f == Head(stack)
             j == slot[f.unit]
             rest(x) == AfterNotify(f.unit, f.os, f.ns, f.flags, x) \o Tail(stack)
  <1>t. Top("notify") /\ UNCHANGED nreq
    BY Zenon DEF NotifyStep
  <1>0. /\ stack # <<>> /\ f.op = "notify" /\ f \in Frame /\ JobInv
        /\ nreq' \in 0..MaxRequests
    BY <1>t, TopFrame
  <1>1. f.unit \in Unit
    BY <1>0 DEF Frame
  <1>2. Tail(stack) \in Seq(Quiet)
    BY <1>0, BelowQuiet
  <1>3. ASSUME NEW x PROVE rest(x) \in Seq(Quiet)
    BY <1>1, <1>2, AfterNotifyTyped, ConcatTyped
  <1>4. CASE j = None
    <2>1. stack' = rest(TRUE) /\ UNCHANGED <<uvars, jvars>>
      BY Zenon, <1>4 DEF NotifyStep
    <2> QED
      BY Zenon, <1>0, <1>3, <2>1, StackStep DEF uvars, JobInv, TypeOK
  <1>5. CASE j # None /\ JobOutcome(j, f.ns, f.flags) # "none"
    <2>1. job_finish_and_invalidate(j, JobOutcome(j, f.ns, f.flags), TRUE,
                                    rest(Unexpected(j, f.ns)))
      BY Zenon, <1>5 DEF NotifyStep
    <2>2. j \in Installed /\ jobs[j].type \in MergingType
      BY Zenon, <1>0, <1>1, <1>5, SlotInstalled
    <2>3. JobOutcome(j, f.ns, f.flags) \in Result
      BY Zenon, <1>5, <2>2, OutcomeTyped
    <2>4. rest(Unexpected(j, f.ns)) \in Seq(Quiet)
      BY <1>3
    <2> HIDE DEF f, j, rest
    <2> QED
      BY Zenon, <1>0, <2>1, <2>2, <2>3, <2>4, FinishStep
  <1>6. CASE j # None /\ JobOutcome(j, f.ns, f.flags) = "none"
    <2>1. /\ runq' = IF jobs[j].state = "waiting" THEN runq \cup {j} ELSE runq
          /\ stack' = rest(Unexpected(j, f.ns))
          /\ UNCHANGED <<ustate, path, jobs, slot, gcq, armed, nrun, doomed>>
      BY Zenon, <1>6 DEF NotifyStep, uvars
    <2>2. j \in Installed
      BY <1>0, <1>1, <1>6, SlotInstalled
    <2>3. stack' \in Seq(Quiet)
      BY Zenon, <1>3, <2>1
    <2> HIDE DEF f, j, rest
    <2>4. Installed' = Installed /\ RunningJobs' = RunningJobs
      BY Zenon, <2>1 DEF Installed, RunningJobs
    <2>5. SlotConsistent' /\ RunningCount'
      BY Zenon, <1>0, <2>1, <2>4 DEF JobInv, SlotConsistent, RunningCount
    <2>6. QueuesInstalled'
      BY Zenon, <1>0, <2>1, <2>2, <2>4 DEF JobInv, QueuesInstalled
    <2>7. TypeOK'
      BY Zenon, <1>0, <2>1, <2>3, <2>6, <2>4, QuietStacks DEF JobInv, TypeOK, QueuesInstalled, Installed
    <2> QED
      BY <2>3, <2>5, <2>6, <2>7, QuietPending DEF Inv, JobInv
  <1> QED
    BY Zenon, <1>4, <1>5, <1>6

LEMMA BindsStepKeeps ==
    ASSUME Inv, BindsStep
    PROVE  Inv'
  <1>t. Top("binds") /\ UNCHANGED nreq
    BY Zenon DEF BindsStep
  <1>0. /\ stack # <<>> /\ Head(stack).op = "binds" /\ JobInv /\ nreq' \in 0..MaxRequests
    BY <1>t, TopFrame
  <1>1. Tail(stack) \in Seq(Quiet)
    BY <1>0, BelowQuiet
  <1>2. CASE UNCHANGED <<uvars, jvars>> /\ stack' = Tail(stack)
    BY <1>0, <1>1, <1>2, StackStep DEF uvars, JobInv, TypeOK
  <1>3. CASE manager_add_job("stop", Head(stack).unit, "fail", Tail(stack))
    BY Zenon, <1>0, <1>1, <1>3, AddJobKeeps
  <1> QED
    BY Zenon, <1>2, <1>3 DEF BindsStep

PathState == {"dead", "waiting", "running"}

LEMMA PathSetKeeps ==
    ASSUME JobInv, NEW u \in Unit, NEW p \in PathState, NEW rest \in Seq(Quiet),
           PathSet(u, p, rest), nreq' \in 0..MaxRequests
    PROVE  Inv'
  <1>1. /\ path' \in [Unit -> {"dead", "waiting", "running"}] /\ ustate' = ustate
        /\ stack' \in Seq(Quiet) /\ UNCHANGED jvars
    BY DEF PathSet, PathState, JobInv, TypeOK
  <1> QED
    BY Zenon, <1>1, StackStep DEF JobInv, TypeOK

LEMMA PathRunKeeps ==
    ASSUME JobInv, NEW u \in Unit, NEW rest \in Seq(Quiet), PathRun(u, rest),
           nreq' \in 0..MaxRequests
    PROVE  Inv'
  <1>1. ASSUME NEW tr \in Transactions, UNCHANGED <<uvars, jvars>>,
               stack' = ApplyFrames(tr.jobs, "replace") \o <<PathRunning(u)>> \o rest
        PROVE  Inv'
    <2>1. ApplyFrames(tr.jobs, "replace") \in Seq(Quiet) /\ PathRunning(u) \in Quiet
      BY Zenon, ApplyTyped, SimpleFrames
    <2>2. stack' \in Seq(Quiet)
      BY <1>1, <2>1
    <2> QED
      BY Zenon, <1>1, <2>2, StackStep DEF uvars, JobInv, TypeOK
  <1>2. path[u] \in PathState
    BY DEF JobInv, TypeOK, PathState
  <1> QED
    BY Zenon, <1>1, <1>2, PathSetKeeps DEF PathRun, PathState

LEMMA PathCheckKeeps ==
    ASSUME JobInv, NEW u \in Unit, NEW down, NEW rest \in Seq(Quiet), PathCheck(u, down, rest),
           nreq' \in 0..MaxRequests
    PROVE  Inv'
  BY PathRunKeeps, PathSetKeeps DEF PathCheck, PathState

LEMMA PathStepKeeps ==
    ASSUME Inv, PathStep
    PROVE  Inv'
  <1>t. Top("path") /\ UNCHANGED nreq
    BY Zenon DEF PathStep
  <1>0. /\ stack # <<>> /\ Head(stack).op = "path" /\ JobInv /\ nreq' \in 0..MaxRequests
        /\ Head(stack) \in Frame
    BY <1>t, TopFrame
  <1>1. Tail(stack) \in Seq(Quiet) /\ Head(stack).unit \in Unit
    BY Zenon, <1>0, BelowQuiet DEF Frame
  <1> QED
    BY Zenon, <1>0, <1>1, PathSetKeeps DEF PathStep, PathState

LEMMA ColdplugStepKeeps ==
    ASSUME Inv, ColdplugStep
    PROVE  Inv'
  <1> DEFINE f == Head(stack)
  <1>t. Top("coldplug") /\ UNCHANGED nreq
    BY Zenon DEF ColdplugStep
  <1>0. /\ stack # <<>> /\ f.op = "coldplug" /\ JobInv /\ nreq' \in 0..MaxRequests
        /\ f \in Frame
    BY <1>t, TopFrame
  <1>1. Tail(stack) \in Seq(Quiet) /\ f.units \in SUBSET Unit
    BY Zenon, <1>0, BelowQuiet DEF Frame
  <1>2. CASE UNCHANGED <<uvars, jvars>> /\ stack' = Tail(stack)
    BY Zenon, <1>0, <1>1, <1>2, StackStep DEF uvars, JobInv, TypeOK
  <1>3. ASSUME NEW u \in f.units, NEW down \in BOOLEAN,
               PathCheck(u, down, <<[op |-> "coldplug", units |-> f.units \ {u}]>> \o Tail(stack))
        PROVE  Inv'
    <2>1. <<[op |-> "coldplug", units |-> f.units \ {u}]>> \o Tail(stack) \in Seq(Quiet)
      BY Zenon, <1>1, SimpleFrames, PushTyped
    <2> QED
      BY Zenon, <1>0, <1>1, <1>3, <2>1, PathCheckKeeps
  <1> QED
    BY Zenon, <1>2, <1>3 DEF ColdplugStep

-----------------------------------------------------------------------------
(* Running a job.                                                          *)

Outcomes == [r : Errno, ns : ActiveState \cup {None}]

LEMMA ReturnsTyped ==
    /\ \A e \in Errno : Returns(e) \in Outcomes
    /\ \A e \in Errno, s \in ActiveState : Enters(e, s) \in Outcomes
  BY DEF Returns, Enters, Outcomes

LEMMA PerformTyped ==
    ASSUME TypeOK, NEW u \in Unit, NEW t \in MergingType
    PROVE  Perform(t, u) \subseteq Outcomes
  <1>1. /\ Returns("EALREADY") \in Outcomes /\ Returns("EAGAIN") \in Outcomes
        /\ Returns("ECOMM") \in Outcomes /\ Returns("EPROTO") \in Outcomes
        /\ Returns("ENOLINK") \in Outcomes /\ Returns("EBADR") \in Outcomes
        /\ Returns("OK") \in Outcomes /\ Returns("ECANCELED") \in Outcomes
        /\ Returns("ENOEXEC") \in Outcomes
    BY ReturnsTyped DEF Errno
  <1>2. /\ \A s \in ActiveState : Enters("OK", s) \in Outcomes /\ Enters("ECANCELED", s) \in Outcomes
        /\ {"activating", "active", "failed", "inactive", "deactivating", "reloading"}
             \subseteq ActiveState
    BY ReturnsTyped DEF Errno, ActiveState
  <1>3. unit_start(u) \subseteq Outcomes
    BY <1>1, <1>2 DEF unit_start
  <1>4. unit_stop(u) \subseteq Outcomes
    BY <1>1, <1>2 DEF unit_stop
  <1>5. unit_reload(u) \subseteq Outcomes
    BY <1>1, <1>2 DEF unit_reload
  <1> QED
    BY <1>1, <1>3, <1>4, <1>5 DEF Perform, MergingType

LEMMA RunJobKeeps ==
    ASSUME JobInv, NEW j \in Installed, NEW rest \in Seq(Quiet), RunJob(j, rest),
           nreq' \in 0..MaxRequests
    PROVE  Inv'
  <1> DEFINE u == jobs[j].unit
  <1>0. /\ j \in Job /\ jobs[j] \in JobRec /\ u \in Unit /\ jobs[j].type \in MergingType
        /\ TypeOK
    BY Zenon DEF JobInv, TypeOK, Installed, JobRec
  <1>1. /\ runq' = runq \ {j} /\ slot' = slot /\ gcq' = gcq /\ path' = path /\ doomed' = doomed
    BY Zenon DEF RunJob, Dequeue
  <1>2. CASE jobs[j].state # "waiting" \/ ~job_is_runnable(j)
    <2>1. /\ stack' = rest /\ ustate' = ustate /\ jobs' = jobs /\ armed' = armed /\ nrun' = nrun
      BY Zenon, <1>2 DEF RunJob
    <2>2. Installed' = Installed /\ RunningJobs' = RunningJobs
      BY <2>1 DEF Installed, RunningJobs
    <2>3. SlotConsistent' /\ RunningCount' /\ QueuesInstalled'
      BY Zenon, <1>1, <2>1, <2>2 DEF JobInv, SlotConsistent, RunningCount, QueuesInstalled
    <2>4. TypeOK'
      BY Zenon, <1>0, <1>1, <2>1, QuietStacks DEF TypeOK
    <2> QED
      BY <2>1, <2>3, <2>4, QuietPending DEF Inv, JobInv
  <1>3. CASE jobs[j].state = "waiting" /\ job_is_runnable(j)
    <2>1. PICK o \in Perform(jobs[j].type, u), flags \in {{}, NotifyFlag} :
              /\ jobs' = [jobs EXCEPT ![j].state = "running", ![j].began = TRUE]
              /\ nrun' = nrun + 1
              /\ armed' = IF u \in RunningTimeout THEN armed \cup {j} ELSE armed
              /\ ustate' = IF o.ns = None THEN ustate ELSE [ustate EXCEPT ![u] = o.ns]
              /\ stack' = (IF o.ns = None THEN <<>>
                           ELSE <<Notify(u, ustate[u], o.ns, flags)>>)
                          \o (IF Waits(jobs[j].type, o.r) THEN <<>> ELSE <<Ran(j, o.r)>>)
                          \o rest
      BY Zenon, <1>3 DEF RunJob
    <2>2. o.r \in Errno /\ o.ns \in ActiveState \cup {None}
      BY <1>0, PerformTyped DEF Outcomes
    <2>3. ustate' \in [Unit -> ActiveState]
      BY <1>0, <2>1, <2>2 DEF TypeOK
    <2>4. stack' \in Seq(Quiet)
      <3>1. Ran(j, o.r) \in Quiet
        BY Zenon, <1>0, <2>2, SimpleFrames
      <3>2. o.ns # None => Notify(u, ustate[u], o.ns, flags) \in Quiet
        BY Zenon, <1>0, <2>2, SimpleFrames DEF TypeOK
      <3> QED
        BY <2>1, <3>1, <3>2
    <2> DEFINE r == [jobs[j] EXCEPT !.state = "running", !.began = TRUE]
    <2>5. r \in JobRec /\ r.unit = jobs[j].unit /\ r.state = "running"
      BY Zenon, <1>0 DEF JobRec
    <2>6. jobs' = [jobs EXCEPT ![j] = r]
      BY Zenon, <1>0, <2>1 DEF TypeOK
    <2> HIDE DEF r
    <2>7. /\ jobs' \in [Job -> JobRec \cup {None}]
          /\ Installed' = Installed /\ SlotConsistent' /\ RunningJobs' = RunningJobs \cup {j}
      BY Zenon, <1>1, <2>5, <2>6, UpdateKeeps
    <2>8. RunningCount' /\ nrun' \in Nat
      <3>1. j \notin RunningJobs
        BY Zenon, <1>3 DEF RunningJobs
      <3>2. Cardinality(RunningJobs \cup {j}) = Cardinality(RunningJobs) + 1
        BY Zenon, <1>0, <3>1, RunningFinite, SizeMore DEF JobInv
      <3> QED
        BY <1>0, <2>1, <2>7, <3>2 DEF JobInv, RunningCount, TypeOK
    <2>9. QueuesInstalled'
      BY <1>1, <2>1, <2>7 DEF JobInv, QueuesInstalled
    <2>10. TypeOK'
      BY Zenon, <1>0, <1>1, <2>1, <2>3, <2>4, <2>7, <2>8, QuietStacks DEF TypeOK
    <2> QED
      BY <2>4, <2>7, <2>8, <2>9, <2>10, QuietPending DEF Inv, JobInv
  <1> QED
    BY Zenon, <1>2, <1>3, <1>0 DEF JobRec

LEMMA DispatchStepKeeps ==
    ASSUME Inv, DispatchStep
    PROVE  Inv'
  <1>0. /\ stack # <<>> /\ Head(stack).op = "dispatch" /\ JobInv /\ nreq' \in 0..MaxRequests
        /\ runq \subseteq Installed
    BY Zenon DEF DispatchStep, Top, Inv, JobInv, TypeOK, QueuesInstalled
  <1>1. stack \in Seq(Quiet) /\ Tail(stack) \in Seq(Quiet)
    BY <1>0, BelowQuiet
  <1>2. CASE UNCHANGED <<uvars, jvars>> /\ stack' = Tail(stack)
    BY Zenon, <1>0, <1>1, <1>2, StackStep DEF uvars, JobInv, TypeOK
  <1>3. ASSUME NEW j \in runq, RunJob(j, stack)
        PROVE  Inv'
    BY <1>0, <1>1, <1>3, RunJobKeeps
  <1> QED
    BY <1>2, <1>3 DEF DispatchStep

LEMMA RanStepKeeps ==
    ASSUME Inv, RanStep
    PROVE  Inv'
  <1> DEFINE f == Head(stack)
             j == f.job
  <1>t. Top("ran") /\ UNCHANGED nreq
    BY Zenon DEF RanStep
  <1>0. /\ stack # <<>> /\ f.op = "ran" /\ JobInv /\ nreq' \in 0..MaxRequests /\ f \in Frame
        /\ TypeOK
    BY <1>t, TopFrame
  <1>1. Tail(stack) \in Seq(Quiet) /\ j \in Job /\ f.r \in Errno
    BY Zenon, <1>0, BelowQuiet DEF Frame
  <1>2. CASE UNCHANGED <<uvars, jvars>> /\ stack' = Tail(stack)
    BY Zenon, <1>0, <1>1, <1>2, StackStep DEF uvars, JobInv, TypeOK
  <1>3. CASE jobs[j] # None /\ f.r = "EAGAIN"
    <2>1. /\ jobs' = [jobs EXCEPT ![j].state = "waiting"]
          /\ nrun' = Uncount(j) /\ stack' = Tail(stack)
          /\ UNCHANGED <<ustate, path, slot, runq, gcq, armed, doomed>>
      BY <1>3 DEF RanStep, uvars
    <2>2. j \in Installed /\ jobs[j] \in JobRec
      BY Zenon, <1>0, <1>1, <1>3 DEF Installed, TypeOK
    <2> HIDE DEF j, f
    <2> DEFINE r == [jobs[j] EXCEPT !.state = "waiting"]
    <2>3. r \in JobRec /\ r.unit = jobs[j].unit /\ r.state = "waiting"
      BY <2>2 DEF JobRec
    <2>4. jobs' = [jobs EXCEPT ![j] = r]
      BY <2>1, <2>2, <1>0 DEF TypeOK
    <2> HIDE DEF r
    <2>5. /\ jobs' \in [Job -> JobRec \cup {None}]
          /\ Installed' = Installed /\ SlotConsistent' /\ RunningJobs' = RunningJobs \ {j}
      BY Zenon, <1>0, <2>1, <2>2, <2>3, <2>4, UpdateKeeps
    <2>6. RunningCount' /\ nrun' \in Nat
      BY <1>0, <2>1, <2>2, <2>5, Uncounted DEF RunningCount
    <2>7. QueuesInstalled'
      BY <1>0, <2>1, <2>5 DEF JobInv, QueuesInstalled
    <2>8. TypeOK'
      BY <1>0, <1>1, <2>1, <2>5, <2>6, QuietStacks DEF TypeOK
    <2> QED
      BY <1>1, <2>1, <2>5, <2>6, <2>7, <2>8, QuietPending DEF Inv, JobInv
  <1>4. CASE jobs[j] # None /\ job_finish_and_invalidate(j, ResultOf(f.r), TRUE, Tail(stack))
    <2>1. ResultOf(f.r) \in Result
      BY DEF ResultOf, Result
    <2>2. j \in Installed
      BY <1>1, <1>4 DEF Installed
    <2> QED
      BY Zenon, <1>0, <1>1, <1>4, <2>1, <2>2, FinishStep
  <1> QED
    BY Zenon, <1>2, <1>3, <1>4 DEF RanStep

-----------------------------------------------------------------------------
(* Events.                                                                 *)

LEMMA OneFrame ==
    ASSUME NEW S, NEW f \in S
    PROVE  <<f>> \in Seq(S)
  OBVIOUS

LEMMA EmptyStack == <<>> \in Seq(Quiet)
  OBVIOUS

LEMMA RequestKeeps ==
    ASSUME Inv, NEW tr, NEW mode, Request(tr, mode)
    PROVE  Inv'
  <1>1. JobInv /\ nreq' \in 0..MaxRequests
    BY BoundAssumption DEF Request, Inv, JobInv, TypeOK
  <1> QED
    BY Zenon, <1>1, EmptyStack, AddJobKeeps DEF Request

LEMMA FinishEventKeeps ==
    ASSUME Inv, NEW j \in Job, CancelJob(j) \/ JobTimesOut(j) \/ CollectJob(j)
    PROVE  Inv'
  <1>0. JobInv /\ TypeOK
    BY DEF Inv, JobInv
  <1>1. CASE CancelJob(j)
    <2>1. nreq' \in 0..MaxRequests /\ j \in Installed
      BY <1>0, <1>1, BoundAssumption DEF CancelJob, TypeOK, Installed
    <2> QED
      BY Zenon, <1>0, <1>1, <2>1, EmptyStack, FinishStep DEF CancelJob, Result
  <1>2. CASE JobTimesOut(j)
    <2>1. nreq' \in 0..MaxRequests /\ j \in Installed
      BY Zenon, <1>0, <1>2 DEF JobTimesOut, JobInv, TypeOK, QueuesInstalled
    <2> QED
      BY Zenon, <1>0, <1>2, <2>1, EmptyStack, FinishStep DEF JobTimesOut, Result
  <1>3. CASE CollectJob(j)
    <2>1. nreq' \in 0..MaxRequests /\ j \in Installed
      BY Zenon, <1>0, <1>3 DEF CollectJob, JobInv, TypeOK, QueuesInstalled
    <2>2. CASE job_finish_and_invalidate(j, "collected", FALSE, <<>>)
      BY Zenon, <1>0, <2>1, <2>2, EmptyStack, FinishStep DEF Result
    <2>3. CASE /\ gcq' = gcq \ {j}
               /\ UNCHANGED <<uvars, jobs, slot, runq, armed, nrun, doomed, stack>>
      <3>1. /\ gcq' = gcq \ {j} /\ stack' = <<>>
            /\ UNCHANGED <<ustate, path, jobs, slot, runq, armed, nrun, doomed>>
        BY Zenon, <1>3, <2>3 DEF uvars, CollectJob, Idle
      <3>2. Installed' = Installed /\ RunningJobs' = RunningJobs
        BY Zenon, <3>1 DEF Installed, RunningJobs
      <3>3. SlotConsistent' /\ RunningCount' /\ QueuesInstalled'
        BY Zenon, <1>0, <3>1, <3>2 DEF JobInv, SlotConsistent, RunningCount, QueuesInstalled
      <3>4. TypeOK'
        BY <1>0, <2>1, <3>1 DEF TypeOK
      <3> QED
        BY <3>1, <3>3, <3>4, EmptyStack, QuietPending DEF Inv, JobInv
    <2> QED
      BY Zenon, <1>3, <2>2, <2>3 DEF CollectJob
  <1> QED
    BY <1>1, <1>2, <1>3

LEMMA StackEventKeeps ==
    ASSUME Inv, DispatchRunQueue \/ ClearJobs
    PROVE  Inv'
  <1> DEFINE d == [op |-> "dispatch"]
             c == [op |-> "clear"]
  <1>j. JobInv /\ nreq \in 0..MaxRequests
    BY DEF Inv, JobInv, TypeOK
  <1>s. UNCHANGED <<uvars, jvars>> /\ (stack' = <<d>> \/ stack' = <<c>>)
    BY Zenon DEF DispatchRunQueue, ClearJobs
  <1>r. nreq' = nreq \/ (nreq < MaxRequests /\ nreq' = nreq + 1)
    BY Zenon DEF DispatchRunQueue, ClearJobs
  <1>1. /\ JobInv /\ UNCHANGED <<uvars, jvars>> /\ nreq' \in 0..MaxRequests
        /\ stack' = <<d>> \/ stack' = <<c>>
    BY <1>j, <1>s, <1>r, BoundAssumption
  <1>2. d \in Quiet /\ c \in Quiet
    BY Zenon, SimpleFrames
  <1> HIDE DEF d, c
  <1>3. stack' \in Seq(Quiet)
    BY Zenon, <1>1, <1>2, OneFrame
  <1>4. ustate' \in [Unit -> ActiveState] /\ path' \in [Unit -> {"dead", "waiting", "running"}]
    BY <1>1 DEF uvars, JobInv, TypeOK
  <1> QED
    BY <1>1, <1>3, <1>4, StackStep

LEMMA UnitEventKeeps ==
    ASSUME Inv, NEW u \in Unit, NEW ns \in ActiveState, NEW flags \in {{}, NotifyFlag},
           UnitEvent(u, ns, flags)
    PROVE  Inv'
  <1>1. /\ JobInv /\ UNCHANGED jvars /\ nreq' \in 0..MaxRequests /\ path' = path
        /\ ustate' \in [Unit -> ActiveState] /\ ustate[u] \in ActiveState
        /\ stack' = <<Notify(u, ustate[u], ns, flags)>>
    BY Zenon DEF UnitEvent, Inv, JobInv, TypeOK
  <1>2. Notify(u, ustate[u], ns, flags) \in Quiet
    BY Zenon, <1>1, SimpleFrames
  <1>3. stack' \in Seq(Quiet)
    BY <1>1, <1>2
  <1> QED
    BY Zenon, <1>1, <1>3, StackStep DEF JobInv, TypeOK

LEMMA PathEventKeeps ==
    ASSUME Inv, NEW u \in Unit, PathStarts(u) \/ PathFires(u) \/ PathStops(u)
    PROVE  Inv'
  <1>0. UNCHANGED nreq
    <2>1. CASE PathStarts(u)
      BY <2>1 DEF PathStarts
    <2>2. CASE PathFires(u)
      BY <2>2 DEF PathFires
    <2>3. CASE PathStops(u)
      BY <2>3 DEF PathStops
    <2> QED
      BY <2>1, <2>2, <2>3
  <1>1. JobInv /\ nreq' \in 0..MaxRequests
    BY Zenon, <1>0 DEF Inv, JobInv, TypeOK
  <1> QED
    BY Zenon, <1>1, EmptyStack, PathCheckKeeps, PathRunKeeps, PathSetKeeps
       DEF PathStarts, PathFires, PathStops, PathWait, PathState

LEMMA ReloadKeeps ==
    ASSUME Inv, Reload
    PROVE  Inv'
  <1> DEFINE S == {u \in Watched : path[u] # "dead"}
  <1>1. /\ TypeOK /\ JobInv /\ nreq' \in 0..MaxRequests
        /\ jobs' = jobs /\ slot' = slot /\ ustate' = ustate /\ doomed' = doomed
        /\ runq' \subseteq Installed /\ gcq' \subseteq Installed /\ armed' \subseteq Installed
        /\ nrun' = Cardinality(RunningJobs)
        /\ path' \in [Unit -> {"dead", "waiting", "running"}]
        /\ stack' = <<[op |-> "coldplug", units |-> S]>>
    BY BoundAssumption, CollectableInstalled DEF Reload, Inv, JobInv, TypeOK, RunningJobs
  <1>2. [op |-> "coldplug", units |-> S] \in Quiet
    BY Zenon, UnitSetsAssumption, SimpleFrames
  <1> HIDE DEF S
  <1>3. stack' \in Seq(Quiet)
    BY <1>1, <1>2
  <1>4. Installed' = Installed /\ RunningJobs' = RunningJobs
    BY Zenon, <1>1 DEF Installed, RunningJobs
  <1>5. SlotConsistent' /\ RunningCount' /\ QueuesInstalled'
    BY Zenon, <1>1, <1>4 DEF JobInv, SlotConsistent, RunningCount, QueuesInstalled
  <1>6. nrun' \in Nat
    BY Zenon, <1>1, RunningFinite, SizeType DEF JobInv
  <1>7. TypeOK'
    BY Zenon, <1>1, <1>3, <1>6, QuietStacks DEF TypeOK, Installed
  <1> QED
    BY <1>3, <1>5, <1>7, QuietPending DEF Inv, JobInv

-----------------------------------------------------------------------------
(* All steps.                                                              *)

LEMMA InitInv ==
    ASSUME FiniteSetFacts, Init
    PROVE  Inv
  <1>1. Installed = {} /\ RunningJobs = {}
    BY DEF Init, Installed, RunningJobs
  <1>2. TypeOK
    BY BoundAssumption DEF Init, TypeOK, ActiveState
  <1>3. SlotConsistent /\ QueuesInstalled
    BY <1>1 DEF Init, SlotConsistent, QueuesInstalled
  <1>4. RunningCount
    BY Zenon, <1>1 DEF Init, RunningCount, FiniteSetFacts
  <1>5. PlacePending
    BY DEF Init, PlacePending
  <1> QED
    BY <1>2, <1>3, <1>4, <1>5 DEF Inv, JobInv

LEMMA StutterInv ==
    ASSUME Inv, UNCHANGED vars
    PROVE  Inv'
  <1>1. /\ ustate' = ustate /\ path' = path /\ jobs' = jobs /\ slot' = slot /\ runq' = runq
        /\ gcq' = gcq /\ armed' = armed /\ nrun' = nrun /\ doomed' = doomed /\ stack' = stack
        /\ nreq' = nreq
    BY DEF vars, uvars, jvars
  <1>2. Installed' = Installed /\ RunningJobs' = RunningJobs
    BY <1>1 DEF Installed, RunningJobs
  <1>3. TypeOK' /\ PlacePending'
    BY Zenon, <1>1 DEF Inv, JobInv, TypeOK, PlacePending
  <1> QED
    BY Zenon, <1>1, <1>2, <1>3 DEF Inv, JobInv, SlotConsistent, QueuesInstalled, RunningCount

LEMMA HandlerInv ==
    ASSUME Watched = {}, Inv, HandlerStep
    PROVE  Inv'
  BY FailStepKeeps, RequeueStepKeeps, AddsStepKeeps, FlushStepKeeps, InstallStepKeeps,
     PlaceStepKeeps, NotifyStepKeeps, BindsStepKeeps, TriggerStepKeeps, PathStepKeeps,
     RanStepKeeps, DispatchStepKeeps, ClearStepKeeps, ColdplugStepKeeps DEF HandlerStep

LEMMA NextInv ==
    ASSUME Watched = {}, Inv, [Next]_vars
    PROVE  Inv'
  BY Zenon, HandlerInv, RequestKeeps, FinishEventKeeps, StackEventKeeps, UnitEventKeeps,
     ReloadKeeps, StutterInv DEF Next

-----------------------------------------------------------------------------
(* What is on the stack, as a set.                                         *)

Frames(s) == {s[i] : i \in 1..Len(s)}

LEMMA FramesOf ==
    ASSUME NEW S
    PROVE  /\ Frames(<<>>) = {}
           /\ \A f \in S : Frames(<<f>>) = {f}
           /\ \A s \in Seq(S) : Frames(s) \subseteq S
           /\ \A s \in Seq(S) : s # <<>> => Frames(s) = {Head(s)} \cup Frames(Tail(s))
           /\ \A s, t \in Seq(S) : Frames(s \o t) = Frames(s) \cup Frames(t)
  <1>1. Frames(<<>>) = {} /\ \A f \in S : Frames(<<f>>) = {f}
    BY DEF Frames
  <1>2. \A s \in Seq(S) : Frames(s) \subseteq S
    BY DEF Frames
  <1>3. ASSUME NEW s \in Seq(S), s # <<>>
        PROVE  Frames(s) = {Head(s)} \cup Frames(Tail(s))
    <2>0. Tail(s) \in Seq(S) /\ Len(s) \in Nat \ {0} /\ Len(Tail(s)) = Len(s) - 1
      BY <1>3
    <2>1. Head(s) = s[1] /\ \A i \in 1..Len(Tail(s)) : Tail(s)[i] = s[i + 1]
      BY <1>3
    <2>2. \A i \in 1..Len(s) : i = 1 \/ i - 1 \in 1..Len(Tail(s))
      BY <2>0
    <2>3. \A i \in 1..Len(Tail(s)) : i + 1 \in 1..Len(s)
      BY <2>0
    <2>4. \A i \in 2..Len(s) : s[i] = Tail(s)[i - 1] /\ i - 1 \in 1..Len(Tail(s))
      BY <2>0, <2>1
    <2>5. Frames(s) \subseteq {Head(s)} \cup Frames(Tail(s))
      BY <2>0, <2>1, <2>4 DEF Frames
    <2>6. {Head(s)} \cup Frames(Tail(s)) \subseteq Frames(s)
      BY <2>0, <2>1, <2>3 DEF Frames
    <2> QED
      BY <2>5, <2>6
  <1>4. ASSUME NEW s \in Seq(S), NEW t \in Seq(S)
        PROVE  Frames(s \o t) = Frames(s) \cup Frames(t)
    <2>0. Len(s) \in Nat /\ Len(t) \in Nat /\ Len(s \o t) = Len(s) + Len(t)
      OBVIOUS
    <2>1. /\ \A i \in 1..Len(s) : (s \o t)[i] = s[i] /\ i \in 1..Len(s \o t)
          /\ \A i \in 1..Len(t) : (s \o t)[i + Len(s)] = t[i] /\ i + Len(s) \in 1..Len(s \o t)
      OBVIOUS
    <2>2. \A i \in 1..Len(s \o t) :
             \/ i \in 1..Len(s) /\ (s \o t)[i] = s[i]
             \/ i - Len(s) \in 1..Len(t) /\ (s \o t)[i] = t[i - Len(s)]
      OBVIOUS
    <2>3. Frames(s \o t) \subseteq Frames(s) \cup Frames(t)
      BY <2>2 DEF Frames
    <2>4. Frames(s) \cup Frames(t) \subseteq Frames(s \o t)
      BY <2>1 DEF Frames
    <2> QED
      BY <2>3, <2>4
  <1> QED
    BY <1>1, <1>2, <1>3, <1>4

\* What a step that pops the top of the stack leaves on it.
Below == IF stack = <<>> THEN <<>> ELSE Tail(stack)

LEMMA BelowOf ==
    ASSUME stack \in Seq(Frame)
    PROVE  /\ Below \in Seq(Frame)
           /\ Frames(Below) \subseteq Frames(stack)
           /\ stack # <<>> => /\ Frames(stack) = {Head(stack)} \cup Frames(Below)
                              /\ Below = Tail(stack)
           /\ stack = <<>> => Below = <<>> /\ Frames(stack) = {}
  <1>1. CASE stack = <<>>
    <2>1. Below = <<>>
      BY <1>1 DEF Below
    <2> QED
      BY <1>1, <2>1, FramesOf
  <1>2. CASE stack # <<>>
    <2>1. Below = Tail(stack) /\ Tail(stack) \in Seq(Frame)
      BY <1>2 DEF Below
    <2>2. Frames(stack) = {Head(stack)} \cup Frames(Tail(stack))
      BY <1>2, FramesOf
    <2> QED
      BY <1>2, <2>1, <2>2
  <1> QED
    BY <1>1, <1>2

\* The frames every step but the start of a job and the change of a unit's
\* state pushes.
Calm == {f \in Frame : f.op \notin {"notify", "ran"}}

LEMMA CalmFrames ==
    /\ \A S \in SUBSET Unit : FailDependencies(S) \in Calm
                              /\ [op |-> "coldplug", units |-> S] \in Calm
                              /\ CancelJobs(S) \in Calm
    /\ \A R \in SUBSET Req : AddJobs(R) \in Calm
    /\ \A u \in Unit : /\ Requeue(u) \in Calm /\ TriggerNotify(u) \in Calm
                       /\ PathRunning(u) \in Calm /\ CheckBindsTo(u) \in Calm
                       /\ OnFailure(u) \in Calm
    /\ [op |-> "dispatch"] \in Calm /\ [op |-> "clear"] \in Calm
  <1>1. \A R \in SUBSET Req : AddJobs(R) \in Calm
    BY Zenon DEF Calm, Frame, AddJobs
  <1>2. \A u \in Unit : OnFailure(u) = AddJobs(Start(Dep["on_failure"][u], "replace"))
    BY DEF OnFailure, Start
  <1>3. \A u \in Unit : Dep["on_failure"][u] \in SUBSET Unit
    BY DepAssumption DEF DepType
  <1>4. \A u \in Unit : OnFailure(u) \in Calm
    BY <1>1, <1>2, <1>3, RequestFrames DEF Mode
  <1>5. \A S \in SUBSET Unit : FailDependencies(S) \in Calm
                              /\ [op |-> "coldplug", units |-> S] \in Calm
                              /\ CancelJobs(S) \in Calm
    BY Zenon DEF Calm, Frame, FailDependencies, CancelJobs
  <1>6. \A u \in Unit : /\ Requeue(u) \in Calm /\ TriggerNotify(u) \in Calm
                       /\ PathRunning(u) \in Calm /\ CheckBindsTo(u) \in Calm
    BY Zenon DEF Calm, Frame, Requeue, TriggerNotify, PathRunning, CheckBindsTo
  <1>7. [op |-> "dispatch"] \in Calm /\ [op |-> "clear"] \in Calm
    BY Zenon DEF Calm, Frame
  <1> QED
    BY <1>1, <1>4, <1>5, <1>6, <1>7

LEMMA CalmFrame == Calm \subseteq Frame
  BY DEF Calm

LEMMA CalmStacks ==
    ASSUME NEW s \in Seq(Calm)
    PROVE  s \in Seq(Frame)
  BY DEF Calm

LEMMA InstallCalm ==
    \A J \in SUBSET (Unit \X MergingType), ir \in BOOLEAN, io \in BOOLEAN :
        [op |-> "install", left |-> J, irreversible |-> ir, ignore_order |-> io] \in Calm
  BY DEF Calm, Frame

LEMMA PlaceCalm ==
    \A u \in Unit, t \in MergingType, ir \in BOOLEAN, io \in BOOLEAN :
        [op |-> "place", unit |-> u, type |-> t, irreversible |-> ir, ignore_order |-> io]
            \in Calm
  BY DEF Calm, Frame

LEMMA AfterFinishCalm ==
    ASSUME NEW u \in Unit, NEW t \in MergingType, NEW result \in Result,
           NEW recursive \in BOOLEAN
    PROVE  /\ AfterFinish(u, t, result, recursive) \in Seq(Calm)
           /\ Requeue(u) \in Frames(AfterFinish(u, t, result, recursive))
  <1>1. \A d \in DepType : FailDependencies(Dep[d][u]) \in Calm
    BY Zenon, DepAssumption, CalmFrames
  <1>2. DependentsToFail(u, t, result) \in Seq(Calm)
    BY <1>1 DEF DependentsToFail, DepType
  <1>e. <<>> \in Seq(Calm)
    OBVIOUS
  <1>3. PICK a \in Seq(Calm), b \in Seq(Calm) :
           AfterFinish(u, t, result, recursive) = a \o b \o <<TriggerNotify(u), Requeue(u)>>
    <2>1. <<OnFailure(u)>> \in Seq(Calm)
      BY CalmFrames
    <2> QED
      BY Zenon, <1>2, <1>e, <2>1 DEF AfterFinish
  <1>4. Requeue(u) \in Calm /\ TriggerNotify(u) \in Calm
    BY CalmFrames
  <1>5. /\ <<TriggerNotify(u), Requeue(u)>> \in Seq(Calm) /\ a \o b \in Seq(Calm)
        /\ <<TriggerNotify(u), Requeue(u)>> # <<>>
        /\ Tail(<<TriggerNotify(u), Requeue(u)>>) = <<Requeue(u)>>
    BY <1>4
  <1>6. Requeue(u) \in Frames(<<TriggerNotify(u), Requeue(u)>>)
    <2>1. Frames(<<TriggerNotify(u), Requeue(u)>>)
            = {Head(<<TriggerNotify(u), Requeue(u)>>)} \cup Frames(<<Requeue(u)>>)
      BY Zenon, <1>5, FramesOf
    <2>2. Frames(<<Requeue(u)>>) = {Requeue(u)}
      BY <1>4, FramesOf
    <2> QED
      BY <2>1, <2>2
  <1>f. \A d, c \in Seq(Calm) : Frames(d \o c) = Frames(d) \cup Frames(c)
    BY FramesOf
  <1>7. Requeue(u) \in Frames((a \o b) \o <<TriggerNotify(u), Requeue(u)>>)
    BY Zenon, <1>5, <1>6, <1>f
  <1> QED
    BY <1>3, <1>5, <1>7, ConcatTyped

LEMMA AfterNotifyCalm ==
    ASSUME NEW u \in Unit, NEW os, NEW ns, NEW flags, NEW unexpected
    PROVE  AfterNotify(u, os, ns, flags, unexpected) \in Seq(Calm)
  <1> DEFINE R == IF unexpected /\ InactiveOrFailed(os) /\ ActiveOrActivating(ns)
                  THEN RetroactivelyStart(u)
                  ELSE IF unexpected /\ ActiveOrActivating(os) /\ InactiveOrDeactivating(ns)
                  THEN RetroactivelyStop(u) ELSE {}
             failed == ns # os /\ ns = "failed" /\ "will-auto-restart" \notin flags
  <1>1. R \in SUBSET Req
    BY RetroactiveTyped
  <1>2. AfterNotify(u, os, ns, flags, unexpected)
          = <<AddJobs(R)>> \o (IF failed THEN <<OnFailure(u)>> ELSE <<>>)
            \o <<TriggerNotify(u), CheckBindsTo(u)>>
    BY DEF AfterNotify
  <1> HIDE DEF R, failed
  <1>3. /\ AddJobs(R) \in Calm /\ OnFailure(u) \in Calm /\ TriggerNotify(u) \in Calm
        /\ CheckBindsTo(u) \in Calm
    BY Zenon, <1>1, CalmFrames
  <1> QED
    BY <1>2, <1>3

LEMMA ApplyCalm ==
    ASSUME NEW tr \in Transactions, NEW mode
    PROVE  ApplyFrames(tr.jobs, mode) \in Seq(Calm)
  <1> DEFINE J == tr.jobs
             S == Unit \ (IgnoreOnIsolate \cup {p[1] : p \in J})
             ir == mode = "replace-irreversibly"
             io == mode = "ignore-dependencies"
             g == [op |-> "install", left |-> J, irreversible |-> ir, ignore_order |-> io]
             h == CancelJobs(S)
  <1>1. J \in SUBSET (Unit \X MergingType)
    BY TransactionAssumption
  <1>2. S \in SUBSET Unit
    OBVIOUS
  <1>3. ir \in BOOLEAN /\ io \in BOOLEAN
    BY EqBoolean
  <1>4. g \in Calm
    <2> HIDE DEF J, ir, io
    <2> QED
      BY <1>1, <1>3, InstallCalm
  <1>5. h \in Calm
    <2> HIDE DEF S
    <2> QED
      BY Zenon, <1>2, CalmFrames
  <1>6. ApplyFrames(J, mode) = (IF mode = "flush" THEN <<h>> ELSE <<>>) \o <<g>>
    BY DEF ApplyFrames
  <1> HIDE DEF g, h
  <1> QED
    BY <1>4, <1>5, <1>6

-----------------------------------------------------------------------------
(* Wakeups, timers and running jobs.                                       *)

\* The job of unit v keeps job j waiting.
Blocks(j, v) ==
    /\ slot[v] # None
    /\ \/ /\ v \in After(jobs[j].unit)
          /\ \/ jobs[slot[v]].ignore_order
             \/ ~jobs[j].ignore_order /\ jobs[j].type \notin {"stop", "restart"}
       \/ /\ v \in Before(jobs[j].unit)
          /\ \/ jobs[slot[v]].ignore_order
             \/ ~jobs[j].ignore_order /\ jobs[slot[v]].type \in {"stop", "restart"}

\* The running job j waits for a state its unit has reached.
Arrived(j) ==
    LET s == ustate[jobs[j].unit] IN
    \/ jobs[j].type \in {"start", "verify-active"} /\ ActiveOrReloading(s)
    \/ jobs[j].type \in {"stop", "restart"} /\ InactiveOrFailed(s)
    \/ jobs[j].type = "reload" /\ s = "active"

\* unit_notify() is about to be called for unit u.
Noticed(u) == stack # <<>> /\ Head(stack).op = "notify" /\ Head(stack).unit = u

\* The result of running job j is still to be looked at.
RanFor(j) == \E f \in Frames(stack) : f.op = "ran" /\ f.job = j

\* The job of unit u is still to be queued again.
RequeueFor(u) == \E f \in Frames(stack) : f.op = "requeue" /\ f.unit \in Neighbours(u)

\* A running job that has reached its state, a waiting job that is not queued
\* and a job that needs a timer.
JobOK(j) ==
    /\ jobs[j].state = "running" /\ Arrived(j) => Noticed(jobs[j].unit) \/ RanFor(j)
    /\ jobs[j].state = "waiting" /\ j \notin runq =>
         \/ \E v \in Unit : Blocks(j, v)
         \/ Busy(j) \/ Noticed(jobs[j].unit) \/ RequeueFor(jobs[j].unit)
    /\ jobs[j].unit \in JobTimeout \/ (jobs[j].unit \in RunningTimeout /\ jobs[j].began) =>
         j \in armed

\* The frames that are only ever on top of the stack, and tell the truth there.
Urgent(f) == f.op = "notify" \/ (f.op = "ran" /\ f.r = "EAGAIN")

UrgentFirst ==
    /\ \A f \in Frames(Below) : ~Urgent(f)
    /\ stack # <<>> /\ Head(stack).op = "notify" =>
         Head(stack).ns = ustate[Head(stack).unit]
    /\ stack # <<>> /\ Head(stack).op = "ran" /\ Head(stack).r = "EAGAIN" =>
         Busy(Head(stack).job)

BInv == UrgentFirst /\ \A j \in Installed : JobOK(j)

LEMMA BusySame ==
    ASSUME NEW j, jobs'[j] = jobs[j], ustate'[jobs[j].unit] = ustate[jobs[j].unit]
    PROVE  (Busy(j)' <=> Busy(j)) /\ (Arrived(j)' <=> Arrived(j))
  BY Zenon DEF Busy, Arrived

LEMMA BlocksKept ==
    ASSUME NEW j, NEW v, jobs'[j] = jobs[j], slot'[v] = slot[v], Blocks(j, v),
           jobs[slot[v]].type \in {"stop", "restart"} =>
             jobs'[slot[v]].type \in {"stop", "restart"},
           jobs[slot[v]].ignore_order => jobs'[slot[v]].ignore_order
    PROVE  Blocks(j, v)'
  <1>1. /\ After(jobs'[j].unit) = After(jobs[j].unit)
        /\ Before(jobs'[j].unit) = Before(jobs[j].unit)
    OBVIOUS
  <1> QED
    BY Zenon, <1>1 DEF Blocks

LEMMA BlocksIs ==
    ASSUME JobInv, NEW j \in Installed
    PROVE  /\ Blocked(j) <=> \E v \in Unit : Blocks(j, v)
           /\ \A v \in Unit : Blocks(j, v) => v \in Neighbours(jobs[j].unit)
           /\ ~job_is_runnable(j) => \E v \in Unit : Blocks(j, v)
  <1> DEFINE u == jobs[j].unit
  <1>1. u \in Unit /\ jobs[j].type \in MergingType
    BY DEF JobInv, TypeOK, Installed, JobRec
  <1>2. After(u) \subseteq Unit /\ Before(u) \subseteq Unit
    BY <1>1, NeighbourUnits
  <1>3. ASSUME NEW v \in Unit, slot[v] # None
        PROVE  /\ job_compare(jobs[j], jobs[slot[v]], "after") > 0 <=>
                    /\ ~jobs[j].ignore_order /\ ~jobs[slot[v]].ignore_order
                    /\ jobs[j].type \notin {"stop", "restart"}
               /\ job_compare(jobs[j], jobs[slot[v]], "before") > 0 <=>
                    /\ ~jobs[j].ignore_order /\ ~jobs[slot[v]].ignore_order
                    /\ jobs[slot[v]].type \in {"stop", "restart"}
               /\ \A d \in {"after", "before"} :
                    job_compare(jobs[j], jobs[slot[v]], d) \in Int
    <2>1. jobs[slot[v]].type \in MergingType
      BY <1>3, SlotInstalled
    <2> QED
      BY <1>1, <2>1 DEF job_compare, MergingType
  <1>4. Blocked(j) <=> \E v \in Unit : Blocks(j, v)
    <2>1. ASSUME NEW v \in Unit, Blocks(j, v) PROVE Blocked(j)
      BY <1>3, <2>1 DEF Blocked, Blocks
    <2>2. ASSUME Blocked(j) PROVE \E v \in Unit : Blocks(j, v)
      BY <1>2, <1>3, <2>2 DEF Blocked, Blocks
    <2> QED
      BY <2>1, <2>2
  <1>5. \A v \in Unit : Blocks(j, v) => v \in Neighbours(u)
    BY DEF Blocks, Neighbours
  <1>6. ASSUME ~job_is_runnable(j)
        PROVE  \E v \in Unit : Blocks(j, v)
    <2>1. ~jobs[j].ignore_order
      BY <1>6 DEF job_is_runnable
    <2>2. \/ \E v \in After(u) : slot[v] # None
                /\ ~(job_compare(jobs[j], jobs[slot[v]], "after") <= 0)
          \/ \E v \in Before(u) : slot[v] # None
                /\ ~(job_compare(jobs[j], jobs[slot[v]], "before") <= 0)
      BY Zenon, <1>6 DEF job_is_runnable
    <2>3. CASE \E v \in After(u) : slot[v] # None
                /\ ~(job_compare(jobs[j], jobs[slot[v]], "after") <= 0)
      <3>1. PICK v \in After(u) : slot[v] # None
                /\ ~(job_compare(jobs[j], jobs[slot[v]], "after") <= 0)
        BY <2>3
      <3>2. job_compare(jobs[j], jobs[slot[v]], "after") > 0 /\ v \in Unit
        BY <1>2, <1>3, <3>1
      <3> QED
        BY <1>3, <3>1, <3>2 DEF Blocks
    <2>4. CASE \E v \in Before(u) : slot[v] # None
                /\ ~(job_compare(jobs[j], jobs[slot[v]], "before") <= 0)
      <3>1. PICK v \in Before(u) : slot[v] # None
                /\ ~(job_compare(jobs[j], jobs[slot[v]], "before") <= 0)
        BY <2>4
      <3>2. job_compare(jobs[j], jobs[slot[v]], "before") > 0 /\ v \in Unit
        BY <1>2, <1>3, <3>1
      <3> QED
        BY <1>3, <3>1, <3>2 DEF Blocks
    <2> QED
      BY <2>2, <2>3, <2>4
  <1> QED
    BY <1>4, <1>5, <1>6

LEMMA NeighbourSymmetric ==
    ASSUME NEW u \in Unit, NEW v \in Unit, v \in Neighbours(u)
    PROVE  u \in Neighbours(v)
  BY DEF Neighbours, After, Before, InverseDep

\* The top of the stack is not about the jobs outside J.
HeadFor(J) ==
    stack # <<>> =>
        /\ Head(stack).op = "notify" =>
             \A j \in Installed \ J : jobs[j].unit # Head(stack).unit
        /\ Head(stack).op = "ran" => Head(stack).job \in J
        /\ Head(stack).op = "requeue" =>
             \A j \in Installed \ J : Head(stack).unit \notin Neighbours(jobs[j].unit)

\* A step that only touches the jobs of J, and pushes a requeueing where
\* something that kept another job waiting has gone.
LEMMA OthersKeep ==
    ASSUME Inv, BInv, NEW J, HeadFor(J), Frames(Below) \subseteq Frames(stack'),
           NEW j \in Installed \ J, jobs'[j] = jobs[j],
           ustate'[jobs[j].unit] = ustate[jobs[j].unit],
           j \in runq => j \in runq', j \in armed => j \in armed',
           \A v \in Unit : Blocks(j, v) => Blocks(j, v)' \/ RequeueFor(jobs[j].unit)'
    PROVE  JobOK(j)'
  <1>0. stack \in Seq(Frame) /\ JobOK(j)
    BY DEF Inv, JobInv, TypeOK, BInv
  <1>1. stack # <<>> => Frames(stack) = {Head(stack)} \cup Frames(Below)
    BY <1>0, BelowOf
  <1>2. stack = <<>> => Frames(stack) = {}
    BY <1>0, BelowOf
  <1>3. ~Noticed(jobs[j].unit)
    BY Zenon DEF HeadFor, Noticed
  <1>4. RanFor(j) => RanFor(j)'
    BY Zenon, <1>1, <1>2 DEF HeadFor, RanFor
  <1>5. RequeueFor(jobs[j].unit) => RequeueFor(jobs[j].unit)'
    BY Zenon, <1>1, <1>2 DEF HeadFor, RequeueFor
  <1>6. /\ Busy(j)' <=> Busy(j)
        /\ Arrived(j)' <=> Arrived(j)
    BY BusySame
  <1>7. jobs'[j].state = "running" /\ Arrived(j)' => RanFor(j)'
    BY Zenon, <1>0, <1>3, <1>4, <1>6 DEF JobOK
  <1>8. jobs'[j].state = "waiting" /\ j \notin runq' =>
         \/ \E v \in Unit : Blocks(j, v)'
         \/ Busy(j)' \/ RequeueFor(jobs[j].unit)'
    BY Zenon, <1>0, <1>3, <1>5, <1>6 DEF JobOK
  <1>9. jobs'[j].unit \in JobTimeout \/ (jobs'[j].unit \in RunningTimeout /\ jobs'[j].began) =>
         j \in armed'
    BY Zenon, <1>0 DEF JobOK
  <1> QED
    BY Zenon, <1>7, <1>8, <1>9 DEF JobOK

\* The stack after a step that pushes calm frames.
LEMMA CalmStep ==
    ASSUME stack \in Seq(Frame), UrgentFirst, NEW x \in Seq(Calm), stack' = x \o Below
    PROVE  UrgentFirst' /\ Frames(Below) \subseteq Frames(stack')
           /\ Frames(x) \subseteq Frames(stack') /\ stack' \in Seq(Frame)
  <1>0. x \in Seq(Frame) /\ Below \in Seq(Frame)
    BY CalmStacks, BelowOf
  <1>1. stack' \in Seq(Frame) /\ Frames(stack') = Frames(x) \cup Frames(Below)
    BY <1>0, FramesOf
  <1>2. \A f \in Frames(x) : f \in Calm
    BY FramesOf
  <1>3. \A f \in Calm : ~Urgent(f)
    BY DEF Calm, Urgent
  <1>4. \A f \in Frames(stack') : ~Urgent(f)
    BY <1>1, <1>2, <1>3 DEF UrgentFirst
  <1>5. /\ Frames(Below') \subseteq Frames(stack')
        /\ stack' # <<>> => Head(stack') \in Frames(stack')
    <2>1. CASE stack' = <<>>
      <3>1. Below' = <<>>
        BY <2>1 DEF Below
      <3> QED
        BY <2>1, <3>1
    <2>2. CASE stack' # <<>>
      <3>1. Below' = Tail(stack')
        BY Zenon, <2>2 DEF Below
      <3>2. Frames(stack') = {Head(stack')} \cup Frames(Tail(stack'))
        BY Zenon, <1>1, <2>2, FramesOf
      <3> QED
        BY <3>1, <3>2
    <2> QED
      BY <2>1, <2>2
  <1>6. \A f \in Frames(Below') : ~Urgent(f)
    BY <1>4, <1>5
  <1>7. stack' # <<>> => ~Urgent(Head(stack'))
    BY <1>4, <1>5
  <1>8. UrgentFirst'
    BY Zenon, <1>6, <1>7 DEF UrgentFirst, Urgent
  <1> QED
    BY <1>1, <1>8

LEMMA InstalledFacts ==
    ASSUME JobInv, NEW j \in Installed
    PROVE  /\ j \in Job /\ j # None /\ jobs[j] # None /\ jobs[j] \in JobRec
           /\ jobs[j].unit \in Unit /\ jobs[j].type \in MergingType
           /\ jobs[j].state \in {"waiting", "running"} /\ slot[jobs[j].unit] = j
           /\ ustate[jobs[j].unit] \in ActiveState
  BY JobAssumption DEF JobInv, TypeOK, SlotConsistent, Installed, JobRec

\* Two stacks of calm frames on top of what is left.
LEMMA CalmConcat ==
    ASSUME NEW a \in Seq(Calm), NEW b \in Seq(Calm), NEW c \in Seq(Frame)
    PROVE  a \o b \in Seq(Calm) /\ a \o (b \o c) = (a \o b) \o c
           /\ Frames(a) \subseteq Frames(a \o b)
  <1>1. a \in Seq(Frame) /\ b \in Seq(Frame)
    BY CalmStacks
  <1>2. a \o (b \o c) = (a \o b) \o c
    BY <1>1
  <1>3. Frames(a \o b) = Frames(a) \cup Frames(b)
    <2>1. \A s, t \in Seq(Calm) : Frames(s \o t) = Frames(s) \cup Frames(t)
      BY FramesOf
    <2> QED
      BY Zenon, <2>1
  <1> QED
    BY <1>2, <1>3, ConcatTyped

\* A step that leaves the jobs and the units alone.
LEMMA StillStep ==
    ASSUME Inv, BInv, HeadFor({}), NEW x \in Seq(Calm), stack' = x \o Below,
           ustate' = ustate, jobs' = jobs, slot' = slot, armed' = armed, runq \subseteq runq'
    PROVE  BInv'
  <1>1. stack \in Seq(Frame) /\ UrgentFirst
    BY DEF Inv, JobInv, TypeOK, BInv
  <1>2. UrgentFirst' /\ Frames(Below) \subseteq Frames(stack')
    BY Zenon, <1>1, CalmStep
  <1>3. Installed' = Installed
    BY DEF Installed
  <1>4. ASSUME NEW j \in Installed
        PROVE  JobOK(j)'
    <2>1. \A v \in Unit : Blocks(j, v) => Blocks(j, v)'
      BY Zenon DEF Blocks
    <2>2. j \in Installed \ {} /\ jobs'[j] = jobs[j]
          /\ ustate'[jobs[j].unit] = ustate[jobs[j].unit]
      BY <1>4
    <2> QED
      BY Zenon, <1>2, <2>1, <2>2, OthersKeep
  <1> QED
    BY Zenon, <1>2, <1>3, <1>4 DEF BInv

LEMMA UninstallStep ==
    ASSUME Inv, BInv, NEW j \in Installed, HeadFor({j}), NEW result \in Result,
           NEW recursive \in BOOLEAN, NEW x \in Seq(Calm),
           UninstallJob(j, result, recursive, x \o Below), ustate' = ustate
    PROVE  BInv'
  <1> DEFINE u == jobs[j].unit
             a == AfterFinish(u, jobs[j].type, result, recursive)
  <1>0. /\ JobInv /\ TypeOK /\ stack \in Seq(Frame) /\ UrgentFirst /\ Below \in Seq(Frame)
    BY BelowOf DEF Inv, JobInv, TypeOK, BInv
  <1>j. /\ j \in Job /\ u \in Unit /\ jobs[j].type \in MergingType /\ slot[u] = j /\ j # None
    BY <1>0, InstalledFacts
  <1>1. /\ jobs' = [jobs EXCEPT ![j] = None] /\ slot' = [slot EXCEPT ![u] = None]
        /\ runq' = runq \ {j} /\ armed' = armed \ {j} /\ stack' = a \o (x \o Below)
    BY Zenon DEF UninstallJob, job_unlink
  <1>2. a \in Seq(Calm) /\ Requeue(u) \in Frames(a)
    BY <1>j, AfterFinishCalm
  <1> HIDE DEF a
  <1>3. a \o x \in Seq(Calm) /\ stack' = (a \o x) \o Below /\ Frames(a) \subseteq Frames(a \o x)
    BY Zenon, <1>0, <1>1, <1>2, CalmConcat
  <1>4. UrgentFirst' /\ Frames(Below) \subseteq Frames(stack') /\ Requeue(u) \in Frames(stack')
    BY Zenon, <1>0, <1>2, <1>3, CalmStep
  <1>5. Installed' = Installed \ {j}
    BY <1>0, <1>1, <1>j, JobAssumption DEF Installed, TypeOK
  <1>6. ASSUME NEW i \in Installed \ {j}
        PROVE  JobOK(i)'
    <2>0. jobs'[i] = jobs[i] /\ i \in Job
      BY <1>0, <1>1, <1>6 DEF TypeOK, Installed
    <2>1. ASSUME NEW v \in Unit, Blocks(i, v)
          PROVE  Blocks(i, v)' \/ RequeueFor(jobs[i].unit)'
      <3>1. slot[v] # None /\ v \in Neighbours(jobs[i].unit)
        BY <1>0, <2>1, BlocksIs DEF Blocks
      <3>2. CASE v = u
        <4>1. Requeue(u).op = "requeue" /\ Requeue(u).unit = u
          BY DEF Requeue
        <4> QED
          BY Zenon, <1>4, <2>0, <3>1, <3>2, <4>1 DEF RequeueFor
      <3>3. CASE v # u
        <4>1. slot[v] \in Job /\ slot[v] # j /\ slot'[v] = slot[v]
          BY <1>0, <1>1, <1>j, <3>1, <3>3 DEF JobInv, TypeOK, SlotConsistent
        <4>2. jobs'[slot[v]] = jobs[slot[v]]
          BY <1>0, <1>1, <4>1 DEF TypeOK
        <4> QED
          BY Zenon, <2>0, <2>1, <4>1, <4>2, BlocksKept
      <3> QED
        BY <3>2, <3>3
    <2> QED
      BY Zenon, <1>1, <1>4, <1>6, <2>0, <2>1, OthersKeep
  <1> QED
    BY Zenon, <1>4, <1>5, <1>6 DEF BInv

LEMMA PatchStep ==
    ASSUME Inv, BInv, NEW j \in Installed, HeadFor({j}), NEW x \in Seq(Calm),
           PatchRestart(j, x \o Below), ustate' = ustate
    PROVE  BInv'
  <1> DEFINE u == jobs[j].unit
             a == <<Requeue(u)>>
  <1>0. /\ JobInv /\ TypeOK /\ stack \in Seq(Frame) /\ UrgentFirst /\ Below \in Seq(Frame)
    BY BelowOf DEF Inv, JobInv, TypeOK, BInv
  <1>j. /\ j \in Job /\ u \in Unit /\ jobs[j] \in JobRec /\ slot[u] = j /\ j # None
    BY <1>0, InstalledFacts
  <1>1. /\ jobs' = [jobs EXCEPT ![j] = [jobs[j] EXCEPT !.type = "start", !.state = "waiting"]]
        /\ slot' = slot
        /\ runq' = runq \cup {j} /\ armed' = armed /\ stack' = a \o (x \o Below)
    BY Zenon, <1>0, <1>j DEF PatchRestart, TypeOK
  <1>2. a \in Seq(Calm) /\ Requeue(u) \in Frames(a)
    <2>1. Requeue(u) \in Calm
      BY <1>j, CalmFrames
    <2> QED
      BY <2>1, FramesOf
  <1> HIDE DEF a
  <1>3. a \o x \in Seq(Calm) /\ stack' = (a \o x) \o Below /\ Frames(a) \subseteq Frames(a \o x)
    BY Zenon, <1>0, <1>1, <1>2, CalmConcat
  <1>4. UrgentFirst' /\ Frames(Below) \subseteq Frames(stack') /\ Requeue(u) \in Frames(stack')
    BY Zenon, <1>0, <1>2, <1>3, CalmStep
  <1>5. /\ jobs'[j] = [jobs[j] EXCEPT !.type = "start", !.state = "waiting"]
        /\ \A i \in Installed \ {j} : jobs'[i] = jobs[i]
    BY <1>0, <1>1, <1>j DEF TypeOK, Installed
  <1>c. jobs'[j].unit = u /\ jobs'[j].began = jobs[j].began /\ jobs'[j].state = "waiting"
    BY Zenon, <1>5, <1>j DEF JobRec
  <1>6. Installed' \subseteq Installed
    BY <1>0, <1>1 DEF TypeOK, Installed
  <1>7. ASSUME NEW i \in Installed \ {j}
        PROVE  JobOK(i)'
    <2>0. jobs'[i] = jobs[i] /\ i \in Job
      BY <1>5, <1>7 DEF Installed
    <2>1. ASSUME NEW v \in Unit, Blocks(i, v)
          PROVE  Blocks(i, v)' \/ RequeueFor(jobs[i].unit)'
      <3>1. slot[v] # None /\ v \in Neighbours(jobs[i].unit)
        BY <1>0, <2>1, BlocksIs DEF Blocks
      <3>2. CASE v = u
        <4>1. Requeue(u).op = "requeue" /\ Requeue(u).unit = u
          BY DEF Requeue
        <4> QED
          BY Zenon, <1>4, <2>0, <3>1, <3>2, <4>1 DEF RequeueFor
      <3>3. CASE v # u
        <4>1. slot[v] \in Installed /\ slot[v] # j
          BY <1>0, <1>j, <3>1, <3>3, SlotInstalled
        <4>2. jobs'[slot[v]] = jobs[slot[v]]
          BY <1>5, <4>1
        <4> QED
          BY Zenon, <1>1, <2>0, <2>1, <4>2, BlocksKept
      <3> QED
        BY <3>2, <3>3
    <2> QED
      BY Zenon, <1>1, <1>4, <1>7, <2>0, <2>1, OthersKeep
  <1>8. JobOK(j)'
    <2>1. JobOK(j)
      BY DEF BInv
    <2> QED
      BY Zenon, <1>1, <1>c, <2>1 DEF JobOK
  <1> QED
    BY Zenon, <1>4, <1>6, <1>7, <1>8 DEF BInv

LEMMA FinishB ==
    ASSUME Inv, BInv, NEW j \in Installed, HeadFor({j}), NEW result \in Result,
           NEW recursive \in BOOLEAN, NEW x \in Seq(Calm),
           job_finish_and_invalidate(j, result, recursive, x \o Below)
    PROVE  BInv'
  <1>1. ustate' = ustate
    BY Zenon DEF job_finish_and_invalidate, uvars
  <1>2. CASE UninstallJob(j, result, recursive, x \o Below)
    BY Zenon, <1>1, <1>2, UninstallStep
  <1>3. CASE PatchRestart(j, x \o Below)
    BY Zenon, <1>1, <1>3, PatchStep
  <1> QED
    BY Zenon, <1>2, <1>3 DEF job_finish_and_invalidate

LEMMA PlaceB ==
    ASSUME Inv, BInv, HeadFor({}), NEW u \in Unit, slot[u] = None, NEW t, NEW f,
           NEW x \in Seq(Calm), PlaceJob(u, t, f, x \o Below)
    PROVE  BInv'
  <1> DEFINE r == [unit |-> u, type |-> t, state |-> "waiting", irreversible |-> f.irreversible,
                   ignore_order |-> f.ignore_order, began |-> FALSE]
  <1>0. /\ JobInv /\ TypeOK /\ stack \in Seq(Frame) /\ UrgentFirst
    BY DEF Inv, JobInv, TypeOK, BInv
  <1>1. PICK j \in Job :
           /\ jobs[j] = None
           /\ jobs' = [jobs EXCEPT ![j] = r]
           /\ slot' = [slot EXCEPT ![u] = j]
           /\ runq' = runq \cup {j}
           /\ armed' = IF u \in JobTimeout THEN armed \cup {j} ELSE armed
           /\ stack' = x \o Below /\ ustate' = ustate
    BY Zenon DEF PlaceJob, FreeId, uvars
  <1>r. r.unit = u /\ r.state = "waiting" /\ r.began = FALSE
    BY Zenon
  <1> HIDE DEF r
  <1>2. jobs'[j] = r /\ \A i \in Installed : i # j /\ jobs'[i] = jobs[i]
    BY <1>0, <1>1 DEF TypeOK, Installed
  <1>3. Installed' \subseteq Installed \cup {j}
    BY <1>0, <1>1 DEF TypeOK, Installed
  <1>4. UrgentFirst' /\ Frames(Below) \subseteq Frames(stack')
    BY Zenon, <1>0, <1>1, CalmStep
  <1>5. ASSUME NEW i \in Installed
        PROVE  JobOK(i)'
    <2>1. ASSUME NEW v \in Unit, Blocks(i, v)
          PROVE  Blocks(i, v)'
      <3>1. v # u /\ slot[v] # None
        BY <2>1 DEF Blocks
      <3>2. slot'[v] = slot[v] /\ slot[v] \in Installed
        BY <1>0, <1>1, <3>1, SlotInstalled DEF TypeOK
      <3> QED
        BY Zenon, <1>2, <1>5, <2>1, <3>2, BlocksKept
    <2>2. i \in armed => i \in armed'
      BY <1>1
    <2>3. (i \in runq => i \in runq') /\ i \in Installed \ {}
      BY <1>1, <1>5
    <2> QED
      BY Zenon, <1>1, <1>2, <1>4, <2>1, <2>2, <2>3, OthersKeep
  <1>6. JobOK(j)'
    <2>1. u \in JobTimeout => j \in armed'
      BY <1>1
    <2> QED
      BY Zenon, <1>1, <1>2, <1>r, <2>1 DEF JobOK
  <1> QED
    BY Zenon, <1>3, <1>4, <1>5, <1>6 DEF BInv

\* A late merge leaves the type of the running job alone, and no merge makes
\* a stop of something else.
LEMMA MergedTypes ==
    ASSUME NEW a \in MergingType, NEW b \in MergingType, NEW s, ~job_type_is_conflicting(a, b)
    PROVE  /\ job_type_is_superset(a, b) => job_type_merge_and_collapse(a, b, s) = a
           /\ a \in {"stop", "restart"} =>
                job_type_merge_and_collapse(a, b, s) \in {"stop", "restart"}
           /\ a \in {"start", "verify-active"} /\ b \in {"start", "stop", "verify-active"} =>
                job_type_merge_and_collapse(a, b, s) \in {"start", "verify-active"}
  BY DEF MergingType, job_type_is_conflicting, job_type_is_mergeable, job_type_lookup_merge,
         job_type_merge_and_collapse, job_type_collapse, NoMerge, job_type_is_superset

LEMMA MergeB ==
    ASSUME Inv, BInv, HeadFor({}), NEW j \in Installed, NEW t \in MergingType, NEW f,
           ~job_type_is_conflicting(jobs[j].type, t),
           NEW x \in Seq(Calm), MergeIntoInstalled(j, t, f, x \o Below)
    PROVE  BInv'
  <1> DEFINE r == MergedJob(j, t, f)
             u == jobs[j].unit
  <1>0. /\ JobInv /\ TypeOK /\ stack \in Seq(Frame) /\ UrgentFirst
    BY DEF Inv, JobInv, TypeOK, BInv
  <1>j. /\ j \in Job /\ u \in Unit /\ jobs[j] \in JobRec /\ slot[u] = j /\ j # None
        /\ jobs[j].type \in MergingType
    BY <1>0, InstalledFacts
  <1>1. /\ jobs' = [jobs EXCEPT ![j] = r] /\ slot' = slot /\ ustate' = ustate
        /\ runq' = runq \cup {j} /\ stack' = x \o Below
        /\ armed' = IF u \in JobTimeout THEN armed \cup {j} ELSE armed
    BY Zenon DEF MergeIntoInstalled, uvars
  <1>r. /\ r.unit = u /\ r.began = jobs[j].began
        /\ r.type = job_type_merge_and_collapse(jobs[j].type, t, ustate[u])
        /\ r.state = IF RunsAgain(j, t) THEN "waiting" ELSE jobs[j].state
        /\ r.ignore_order = (jobs[j].ignore_order \/ f.ignore_order)
    BY Zenon, <1>j DEF MergedJob, JobRec
  <1> HIDE DEF r
  <1>2. jobs'[j] = r /\ \A i \in Installed \ {j} : jobs'[i] = jobs[i]
    BY <1>0, <1>1, <1>j DEF TypeOK, Installed
  <1>3. Installed' \subseteq Installed
    BY <1>0, <1>1 DEF TypeOK, Installed
  <1>4. UrgentFirst' /\ Frames(Below) \subseteq Frames(stack')
    BY Zenon, <1>0, <1>1, CalmStep
  <1>5. ASSUME NEW i \in Installed \ {j}
        PROVE  JobOK(i)'
    <2>1. ASSUME NEW v \in Unit, Blocks(i, v)
          PROVE  Blocks(i, v)'
      <3>1. slot[v] # None
        BY <2>1 DEF Blocks
      <3>2. slot'[v] = slot[v] /\ slot[v] \in Installed
        BY <1>0, <1>1, <3>1, SlotInstalled
      <3>3. /\ jobs[slot[v]].type \in {"stop", "restart"} =>
                 jobs'[slot[v]].type \in {"stop", "restart"}
            /\ jobs[slot[v]].ignore_order => jobs'[slot[v]].ignore_order
        <4>1. CASE slot[v] = j
          <5>1. jobs[j].type \in {"stop", "restart"} => r.type \in {"stop", "restart"}
            BY <1>r, <1>j, MergedTypes
          <5>2. jobs[j].ignore_order => r.ignore_order
            BY Zenon, <1>r
          <5> QED
            BY <1>2, <4>1, <5>1, <5>2
        <4>2. CASE slot[v] # j
          BY <1>2, <3>2, <4>2
        <4> QED
          BY <4>1, <4>2
      <3> QED
        BY Zenon, <1>2, <1>5, <2>1, <3>2, <3>3, BlocksKept
    <2>2. (i \in armed => i \in armed') /\ (i \in runq => i \in runq') /\ i \in Installed \ {}
      BY <1>1, <1>5
    <2>3. jobs'[i] = jobs[i]
      BY <1>2, <1>5
    <2> QED
      BY Zenon, <1>1, <1>4, <2>1, <2>2, <2>3, OthersKeep
  <1>6. JobOK(j)'
    <2>0. JobOK(j)
      BY DEF BInv
    <2>1. (u \in JobTimeout => j \in armed') /\ (j \in armed => j \in armed') /\ j \in runq'
      BY <1>1
    <2>2. jobs'[j].state = "running" /\ Arrived(j)' => RanFor(j)'
      <3> SUFFICES ASSUME jobs'[j].state = "running", Arrived(j)'
                   PROVE  RanFor(j)'
        OBVIOUS
      <3>1. jobs[j].state = "running" /\ ~RunsAgain(j, t)
        BY <1>2, <1>r
      <3>2. r.type = jobs[j].type
        BY <3>1, <1>r, <1>j, MergedTypes DEF RunsAgain
      <3>3. Arrived(j)
        BY Zenon, <1>1, <1>2, <1>r, <3>2 DEF Arrived
      <3>4. ~Noticed(u)
        BY DEF HeadFor, Noticed
      <3>5. RanFor(j)
        BY Zenon, <2>0, <3>1, <3>3, <3>4 DEF JobOK
      <3>6. stack # <<>> => Frames(stack) = {Head(stack)} \cup Frames(Below)
        BY <1>0, BelowOf
      <3>7. stack = <<>> => Frames(stack) = {}
        BY <1>0, BelowOf
      <3> QED
        BY <3>5, <3>6, <3>7, <1>4 DEF HeadFor, RanFor
    <2> QED
      BY Zenon, <1>2, <1>r, <2>0, <2>1, <2>2 DEF JobOK
  <1> QED
    BY Zenon, <1>3, <1>4, <1>5, <1>6 DEF BInv

\* What a unit method returns at once, and when.
LEMMA PerformFacts ==
    ASSUME TypeOK, NEW j, NEW u \in Unit, jobs[j].unit = u, jobs[j].type \in MergingType,
           NEW o \in Perform(jobs[j].type, u)
    PROVE  /\ o.ns # None => o.r # "EAGAIN"
           /\ o.r = "EAGAIN" => Busy(j)
           /\ o.ns = None /\ Waits(jobs[j].type, o.r) => ~Arrived(j)
  <1> DEFINE s == ustate[u]
             t == jobs[j].type
  <1>0. s \in ActiveState
    BY DEF TypeOK
  <1>n. "EAGAIN" # "OK" /\ "EAGAIN" # "ECANCELED" /\ None \notin ActiveState
    BY NoneAssumption
  <1>1. CASE t = "verify-active"
    <2>1. /\ o.ns = None
          /\ o.r = IF ActiveOrReloading(s) THEN "EALREADY"
                   ELSE IF s = "activating" THEN "EAGAIN" ELSE "EBADR"
      BY <1>1 DEF Perform, Returns
    <2> QED
      BY <1>1, <2>1 DEF Busy, Waits
  <1>2. CASE t = "start"
    <2>1. o \in unit_start(u)
      BY <1>2 DEF Perform
    <2>2. o.r = "EAGAIN" => o.ns = None /\ s \in {"maintenance", "deactivating", "activating"}
      BY <1>0, <2>1 DEF unit_start, Returns, Enters, ActiveOrReloading, ActiveState
    <2>3. o.ns = None /\ Waits(t, o.r) => ~ActiveOrReloading(s)
      BY <1>0, <1>n, <2>1 DEF unit_start, Returns, Enters, ActiveOrReloading, Waits, ActiveState
    <2> QED
      BY <1>2, <2>2, <2>3 DEF Busy, Arrived
  <1>3. CASE t \in {"stop", "restart"}
    <2>1. o \in unit_stop(u)
      BY <1>3 DEF Perform
    <2>2. o.r # "EAGAIN"
      BY <2>1 DEF unit_stop, Returns, Enters
    <2>3. o.ns = None /\ Waits(t, o.r) => ~InactiveOrFailed(s)
      BY <1>0, <1>n, <2>1 DEF unit_stop, Returns, Enters, InactiveOrFailed, Waits, ActiveState
    <2> QED
      BY <1>3, <2>2, <2>3 DEF Arrived
  <1>4. CASE t = "reload"
    <2>1. o \in unit_reload(u)
      BY <1>4 DEF Perform
    <2>2. o.r = "EAGAIN" => o.ns = None /\ s = "reloading"
      BY <2>1 DEF unit_reload, Returns, Enters
    <2>3. ~(o.ns = None /\ Waits(t, o.r))
      BY <1>0, <1>4, <1>n, <2>1 DEF unit_reload, Returns, Enters, Waits, ActiveState
    <2> QED
      BY <1>4, <2>2, <2>3 DEF Busy
  <1> QED
    BY <1>1, <1>2, <1>3, <1>4 DEF MergingType

LEMMA Pushed ==
    ASSUME NEW S, NEW f \in S, NEW s \in Seq(S), NEW t, t = <<f>> \o s
    PROVE  t \in Seq(S) /\ t # <<>> /\ Head(t) = f /\ Tail(t) = s
           /\ Frames(t) = {f} \cup Frames(s)
  <1>1. <<f>> \o s \in Seq(S) /\ <<f>> \o s # <<>> /\ Head(<<f>> \o s) = f
    OBVIOUS
  <1>2. Tail(<<f>> \o s) = s
    <2>1. Len(Tail(<<f>> \o s)) = Len(s) /\ Tail(<<f>> \o s) \in Seq(S)
      OBVIOUS
    <2>2. \A i \in 1..Len(s) : Tail(<<f>> \o s)[i] = s[i]
      OBVIOUS
    <2> QED
      BY <2>1, <2>2, SeqEqual
  <1>3. <<f>> \in Seq(S) /\ Frames(<<f>>) = {f}
    BY FramesOf
  <1>4. \A x, y \in Seq(S) : Frames(x \o y) = Frames(x) \cup Frames(y)
    BY FramesOf
  <1> QED
    BY Zenon, <1>1, <1>2, <1>3, <1>4

LEMMA PushedFrame ==
    ASSUME NEW f \in Frame, NEW s \in Seq(Frame), NEW t, t = <<f>> \o s
    PROVE  t \in Seq(Frame) /\ t # <<>> /\ Head(t) = f /\ Tail(t) = s
           /\ Frames(t) = {f} \cup Frames(s)
  BY ZenonT(60), Pushed

\* The same for the next stack.
LEMMA PushStep ==
    ASSUME NEW f \in Frame, NEW s \in Seq(Frame), stack' = <<f>> \o s
    PROVE  stack' # <<>> /\ Head(stack') = f /\ Below' = s
           /\ Frames(stack') = {f} \cup Frames(s)
  <1>1. PICK t : t = <<f>> \o s
    OBVIOUS
  <1>2. t # <<>> /\ Head(t) = f /\ Tail(t) = s /\ Frames(t) = {f} \cup Frames(s)
    BY Zenon, <1>1, PushedFrame
  <1>3. stack' = t
    BY <1>1
  <1>4. stack' # <<>> /\ Head(stack') = f /\ Tail(stack') = s
        /\ Frames(stack') = {f} \cup Frames(s)
    BY Zenon, <1>2, <1>3
  <1> QED
    BY Zenon, <1>4 DEF Below

\* What the start of job j of unit u pushes.
RunFrames(j, u, os, ns, e, flags, waits) ==
    (IF ns = None THEN <<>> ELSE <<Notify(u, os, ns, flags)>>)
    \o (IF waits THEN <<>> ELSE <<Ran(j, e)>>)

\* The stack after the start of a job.
LEMMA RunStack ==
    ASSUME stack \in Seq(Frame), \A f \in Frames(stack) : ~Urgent(f), TypeOK,
           NEW j \in Job, NEW u \in Unit, NEW ns \in ActiveState \cup {None}, NEW e \in Errno,
           NEW flags \in SUBSET NotifyFlag, NEW waits \in BOOLEAN,
           ns # None => e # "EAGAIN" /\ ustate'[u] = ns,
           e = "EAGAIN" => Busy(j)',
           stack' = RunFrames(j, u, ustate[u], ns, e, flags, waits) \o stack
    PROVE  /\ UrgentFirst' /\ Frames(stack) \subseteq Frames(stack')
           /\ ns # None => Noticed(u)'
           /\ ~waits => RanFor(j)'
  <1> DEFINE N == Notify(u, ustate[u], ns, flags)
             R == Ran(j, e)
  <1>1. R \in Frame /\ R.op = "ran" /\ R.job = j /\ R.r = e /\ (Urgent(R) <=> e = "EAGAIN")
    BY Zenon, SimpleFrames DEF Quiet, Ran, Urgent
  <1>2. N.op = "notify" /\ N.unit = u /\ N.ns = ns
    BY Zenon DEF Notify
  <1>3. ns # None => N \in Frame
    BY Zenon, SimpleFrames DEF Quiet, TypeOK
  <1>s. stack' = (IF ns = None THEN <<>> ELSE <<N>>) \o (IF waits THEN <<>> ELSE <<R>>) \o stack
    BY DEF RunFrames
  <1> HIDE DEF N, R
  <1>4. CASE ns = None /\ waits
    <2>1. stack' = stack
      BY <1>s, <1>4
    <2>2. stack # <<>> => Head(stack) \in Frames(stack)
      BY FramesOf
    <2>3. Frames(Below) \subseteq Frames(stack)
      BY BelowOf
    <2>4. Below' = Below
      BY <2>1 DEF Below
    <2> QED
      BY Zenon, <1>4, <2>1, <2>2, <2>3, <2>4 DEF UrgentFirst, Urgent
  <1>5. CASE ns = None /\ ~waits
    <2>1. stack' = <<R>> \o stack
      BY <1>s, <1>5, <1>1
    <2>2. /\ stack' # <<>> /\ Head(stack') = R /\ Below' = stack
          /\ Frames(stack') = {R} \cup Frames(stack)
      BY Zenon, <1>1, <2>1, PushStep
    <2>4. R \in Frames(stack') /\ Frames(stack) \subseteq Frames(stack')
      BY <2>2
    <2> QED
      BY Zenon, <1>1, <1>5, <2>2, <2>4 DEF UrgentFirst, Urgent, RanFor
  <1>6. CASE ns # None /\ waits
    <2>1. stack' = <<N>> \o stack
      BY <1>s, <1>6, <1>3
    <2>2. /\ stack' # <<>> /\ Head(stack') = N /\ Below' = stack
          /\ Frames(stack') = {N} \cup Frames(stack)
      BY Zenon, <1>3, <1>6, <2>1, PushStep
    <2>4. Frames(stack) \subseteq Frames(stack')
      BY <2>2
    <2> QED
      BY Zenon, <1>2, <1>6, <2>2, <2>4 DEF UrgentFirst, Noticed
  <1>7. CASE ns # None /\ ~waits
    <2>1. stack' = (<<N>> \o <<R>>) \o stack
      BY Zenon, <1>s, <1>7
    <2>2. PICK b \in Seq(Frame) : b = <<R>> \o stack /\ Frames(b) = {R} \cup Frames(stack)
      BY Zenon, <1>1, PushedFrame
    <2>c. stack' = <<N>> \o b
      <3>1. <<N>> \in Seq(Frame) /\ <<R>> \in Seq(Frame)
        BY <1>1, <1>3, <1>7
      <3> QED
        BY <2>1, <2>2, <3>1, ConcatAssociative
    <2>3. /\ stack' # <<>> /\ Head(stack') = N /\ Below' = b
          /\ Frames(stack') = {N} \cup Frames(b)
      BY Zenon, <1>3, <1>7, <2>c, PushStep
    <2>7. \A f \in Frames(b) : ~Urgent(f)
      BY Zenon, <1>1, <1>7, <2>2
    <2>8. R \in Frames(stack') /\ Frames(stack) \subseteq Frames(stack')
      BY <2>2, <2>3
    <2> QED
      BY Zenon, <1>1, <1>2, <1>7, <2>3, <2>7, <2>8 DEF UrgentFirst, Noticed, RanFor
  <1> QED
    BY <1>4, <1>5, <1>6, <1>7

LEMMA RunB ==
    ASSUME Inv, BInv, stack # <<>>, Head(stack).op = "dispatch", NEW j \in Installed,
           RunJob(j, stack)
    PROVE  BInv'
  <1> DEFINE u == jobs[j].unit
  <1>0. /\ JobInv /\ TypeOK /\ stack \in Seq(Frame) /\ UrgentFirst /\ JobOK(j)
    BY DEF Inv, JobInv, TypeOK, BInv
  <1>j. /\ j \in Job /\ u \in Unit /\ jobs[j] \in JobRec /\ slot[u] = j /\ j # None
        /\ jobs[j].type \in MergingType
    BY <1>0, InstalledFacts
  <1>h. HeadFor({j})
    BY Zenon DEF HeadFor
  <1>f. Frames(stack) = {Head(stack)} \cup Frames(Below)
    BY <1>0, BelowOf
  <1>u. \A f \in Frames(stack) : ~Urgent(f)
    BY Zenon, <1>0, <1>f DEF UrgentFirst, Urgent
  <1>1. /\ runq' = runq \ {j} /\ slot' = slot
    BY Zenon DEF RunJob, Dequeue
  <1>2. ASSUME NEW i \in Installed \ {j}, Frames(stack) \subseteq Frames(stack'),
               jobs'[j].type = jobs[j].type, jobs'[j].ignore_order = jobs[j].ignore_order,
               \A k \in Installed \ {j} : jobs'[k] = jobs[k],
               \A v \in Unit \ {u} : ustate'[v] = ustate[v],
               armed \subseteq armed'
        PROVE  JobOK(i)'
    <2>1. jobs'[i] = jobs[i] /\ jobs[i].unit \in Unit \ {u}
      BY <1>0, <1>2, <1>j, InstalledFacts
    <2>2. ASSUME NEW v \in Unit, Blocks(i, v)
          PROVE  Blocks(i, v)'
      <3>1. slot[v] # None
        BY <2>2 DEF Blocks
      <3>2. slot[v] \in Installed /\ slot'[v] = slot[v]
        BY <1>0, <1>1, <3>1, SlotInstalled
      <3>3. /\ jobs'[slot[v]].type = jobs[slot[v]].type
            /\ jobs'[slot[v]].ignore_order = jobs[slot[v]].ignore_order
        BY <1>2, <3>2
      <3> QED
        BY Zenon, <2>1, <2>2, <3>2, <3>3, BlocksKept
    <2>3. (i \in runq => i \in runq') /\ (i \in armed => i \in armed')
      BY <1>1, <1>2
    <2>4. Frames(Below) \subseteq Frames(stack')
      BY <1>2, <1>f
    <2> QED
      BY Zenon, <1>h, <1>2, <2>1, <2>2, <2>3, <2>4, OthersKeep
  <1>3. CASE jobs[j].state # "waiting" \/ ~job_is_runnable(j)
    <2>1. /\ stack' = stack /\ ustate' = ustate /\ jobs' = jobs /\ armed' = armed
      BY Zenon, <1>3 DEF RunJob
    <2>2. Installed' = Installed
      BY <2>1 DEF Installed
    <2>3. UrgentFirst'
      <3>1. Below' = Below
        BY <2>1 DEF Below
      <3> QED
        BY Zenon, <1>0, <1>u, <2>1, <3>1 DEF UrgentFirst
    <2>4. JobOK(j)'
      <3>1. Arrived(j)' <=> Arrived(j)
        BY Zenon, <2>1 DEF Arrived
      <3>2. (RanFor(j)' <=> RanFor(j)) /\ (Noticed(u)' <=> Noticed(u))
        BY Zenon, <2>1 DEF RanFor, Noticed
      <3>3. jobs[j].state = "waiting" => \E v \in Unit : Blocks(j, v)
        BY Zenon, <1>0, <1>3, BlocksIs
      <3>4. jobs[j].state = "waiting" => \E v \in Unit : Blocks(j, v)'
        BY Zenon, <1>1, <2>1, <3>3 DEF Blocks
      <3> QED
        BY Zenon, <1>0, <2>1, <3>1, <3>2, <3>4 DEF JobOK
    <2>5. \A i \in Installed \ {j} : JobOK(i)'
      BY <1>2, <2>1
    <2> QED
      BY Zenon, <2>2, <2>3, <2>4, <2>5 DEF BInv
  <1>4. CASE jobs[j].state = "waiting" /\ job_is_runnable(j)
    <2>1. PICK o \in Perform(jobs[j].type, u), flags \in {{}, NotifyFlag} :
              /\ jobs' = [jobs EXCEPT ![j].state = "running", ![j].began = TRUE]
              /\ armed' = IF u \in RunningTimeout THEN armed \cup {j} ELSE armed
              /\ ustate' = IF o.ns = None THEN ustate ELSE [ustate EXCEPT ![u] = o.ns]
              /\ stack' = (IF o.ns = None THEN <<>>
                           ELSE <<Notify(u, ustate[u], o.ns, flags)>>)
                          \o (IF Waits(jobs[j].type, o.r) THEN <<>> ELSE <<Ran(j, o.r)>>)
                          \o stack
      BY Zenon, <1>4 DEF RunJob
    <2>2. o.r \in Errno /\ o.ns \in ActiveState \cup {None}
      BY <1>0, <1>j, PerformTyped DEF Outcomes
    <2>3. /\ o.ns # None => o.r # "EAGAIN"
          /\ o.r = "EAGAIN" => Busy(j)
          /\ o.ns = None /\ Waits(jobs[j].type, o.r) => ~Arrived(j)
      BY <1>0, <1>j, PerformFacts
    <2>4. /\ jobs'[j] = [jobs[j] EXCEPT !.state = "running", !.began = TRUE]
          /\ \A i \in Installed \ {j} : jobs'[i] = jobs[i]
      BY <1>0, <1>j, <2>1 DEF TypeOK, Installed
    <2>5. /\ jobs'[j].type = jobs[j].type /\ jobs'[j].ignore_order = jobs[j].ignore_order
          /\ jobs'[j].unit = u /\ jobs'[j].state = "running"
      BY Zenon, <1>j, <2>4 DEF JobRec
    <2>6. /\ o.ns # None => ustate'[u] = o.ns
          /\ \A v \in Unit \ {u} : ustate'[v] = ustate[v]
      BY <1>0, <1>j, <2>1 DEF TypeOK
    <2>7. o.ns = None => (Arrived(j)' <=> Arrived(j)) /\ (Busy(j)' <=> Busy(j))
      <3>1. o.ns = None => ustate'[u] = ustate[u]
        BY <2>1
      <3> QED
        BY Zenon, <2>5, <3>1 DEF Arrived, Busy
    <2>8. PICK waits \in BOOLEAN : waits <=> Waits(jobs[j].type, o.r)
      BY Zenon DEF Waits
    <2>9. stack' = RunFrames(j, u, ustate[u], o.ns, o.r, flags, waits) \o stack
      BY <2>1, <2>8 DEF RunFrames
    <2>10. /\ UrgentFirst' /\ Frames(stack) \subseteq Frames(stack')
           /\ o.ns # None => Noticed(u)'
           /\ ~waits => RanFor(j)'
      <3>1. flags \in SUBSET NotifyFlag
        BY <2>1
      <3>2. o.r = "EAGAIN" => Busy(j)'
        BY Zenon, <2>3, <2>7
      <3>3. o.ns # None => o.r # "EAGAIN" /\ ustate'[u] = o.ns
        BY Zenon, <2>3, <2>6
      <3>4. waits \in BOOLEAN
        BY <2>8
      <3>5. PICK e \in Errno, ns \in ActiveState \cup {None}, v \in Unit :
               e = o.r /\ ns = o.ns /\ v = u
        BY Zenon, <1>j, <2>2
      <3>6. /\ ns # None => e # "EAGAIN" /\ ustate'[v] = ns
            /\ e = "EAGAIN" => Busy(j)'
            /\ stack' = RunFrames(j, v, ustate[v], ns, e, flags, waits) \o stack
        BY Zenon, <2>9, <3>2, <3>3, <3>5
      <3>7. /\ UrgentFirst' /\ Frames(stack) \subseteq Frames(stack')
            /\ ns # None => Noticed(v)'
            /\ ~waits => RanFor(j)'
        BY Zenon, <1>0, <1>j, <1>u, <3>1, <3>4, <3>6, RunStack
      <3> QED
        BY Zenon, <2>5, <3>5, <3>7
    <2>11. JobOK(j)'
      <3>1. Arrived(j)' => Noticed(u)' \/ RanFor(j)'
        BY Zenon, <2>3, <2>7, <2>8, <2>10
      <3>2. u \in RunningTimeout => j \in armed'
        BY <2>1
      <3>3. j \in armed => j \in armed'
        BY <2>1
      <3> QED
        BY Zenon, <1>0, <2>5, <3>1, <3>2, <3>3 DEF JobOK
    <2>12. armed \subseteq armed'
      BY <2>1
    <2>13. \A i \in Installed \ {j} : JobOK(i)'
      BY <1>2, <2>4, <2>5, <2>6, <2>10, <2>12
    <2>14. Installed' \subseteq Installed
      BY <1>0, <2>1 DEF TypeOK, Installed
    <2> QED
      BY Zenon, <2>10, <2>11, <2>13, <2>14 DEF BInv
  <1> QED
    BY Zenon, <1>3, <1>4, <1>j DEF JobRec

LEMMA Tops ==
    ASSUME Inv, NEW op, Top(op)
    PROVE  /\ stack # <<>> /\ Head(stack).op = op /\ Head(stack) \in Frame
           /\ JobInv /\ TypeOK /\ stack \in Seq(Frame)
           /\ Below = Tail(stack) /\ Below \in Seq(Frame)
           /\ op \notin {"notify", "ran", "requeue"} => \A J : HeadFor(J)
  <1>1. /\ stack # <<>> /\ Head(stack).op = op /\ stack \in Seq(Frame) /\ JobInv /\ TypeOK
    BY DEF Top, Inv, JobInv, TypeOK
  <1>2. Head(stack) \in Frame
    BY <1>1
  <1>3. Below = Tail(stack) /\ Below \in Seq(Frame)
    BY <1>1, BelowOf
  <1>4. op \notin {"notify", "ran", "requeue"} => \A J : HeadFor(J)
    BY Zenon, <1>1 DEF HeadFor
  <1> QED
    BY <1>1, <1>2, <1>3, <1>4

LEMMA Idles ==
    ASSUME Inv, Idle
    PROVE  /\ JobInv /\ TypeOK /\ stack \in Seq(Frame) /\ stack = <<>> /\ Below = <<>>
           /\ Frames(stack) = {} /\ Frames(Below) = {} /\ \A J : HeadFor(J)
  <1>1. JobInv /\ TypeOK /\ stack \in Seq(Frame) /\ stack = <<>>
    BY DEF Idle, Inv, JobInv, TypeOK
  <1>2. Below = <<>> /\ Frames(stack) = {}
    BY <1>1, BelowOf
  <1> QED
    BY Zenon, <1>1, <1>2 DEF HeadFor

LEMMA NothingPushed ==
    ASSUME Inv
    PROVE  <<>> \in Seq(Calm) /\ Below = <<>> \o Below
  <1>1. stack \in Seq(Frame)
    BY DEF Inv, JobInv, TypeOK
  <1>2. Below \in Seq(Frame)
    BY <1>1, BelowOf
  <1> QED
    BY <1>2

LEMMA OneCalm ==
    ASSUME NEW f \in Calm
    PROVE  <<f>> \in Seq(Calm)
  OBVIOUS

\* A step that only pops the stack.
LEMMA PopB ==
    ASSUME Inv, BInv, HeadFor({}), stack' = Below, UNCHANGED <<uvars, jvars>>
    PROVE  BInv'
  BY Zenon, NothingPushed, StillStep DEF uvars, jvars

\* A step that only changes the stack.
LEMMA PushB ==
    ASSUME Inv, BInv, HeadFor({}), NEW x \in Seq(Calm), stack' = x \o Below,
           UNCHANGED <<ustate, jvars>>
    PROVE  BInv'
  BY StillStep DEF jvars

LEMMA FailB ==
    ASSUME Inv, BInv, FailStep
    PROVE  BInv'
  <1> DEFINE f == Head(stack)
             a(v) == <<FailDependencies(f.units \ {v})>>
  <1>t. Top("fail")
    BY Zenon DEF FailStep
  <1>0. /\ f.op = "fail" /\ f \in Frame /\ JobInv /\ Below = Tail(stack) /\ \A J : HeadFor(J)
    BY <1>t, Tops
  <1>1. f.units \in SUBSET Unit
    BY Zenon, <1>0 DEF Frame
  <1>2. \A v \in f.units : a(v) \in Seq(Calm)
    BY Zenon, <1>1, CalmFrames, OneCalm
  <1>3. CASE stack' = Below /\ UNCHANGED <<uvars, jvars>>
    BY Zenon, <1>0, <1>3, PopB
  <1>4. ASSUME NEW v \in f.units, stack' = a(v) \o Below, UNCHANGED <<uvars, jvars>>
        PROVE  BInv'
    <2>1. UNCHANGED <<ustate, jvars>>
      BY <1>4 DEF uvars
    <2> QED
      BY Zenon, <1>0, <1>2, <1>4, <2>1, PushB
  <1>5. ASSUME NEW v \in f.units, slot[v] # None,
               job_finish_and_invalidate(slot[v], "dependency", TRUE, a(v) \o Below)
        PROVE  BInv'
    <2>1. slot[v] \in Installed
      BY Zenon, <1>0, <1>1, <1>5, SlotInstalled
    <2> QED
      BY Zenon, <1>0, <1>2, <1>5, <2>1, FinishB DEF Result
  <1> QED
    BY Zenon, <1>0, <1>3, <1>4, <1>5 DEF FailStep

LEMMA RequeueB ==
    ASSUME Inv, BInv, RequeueStep
    PROVE  BInv'
  <1> DEFINE w == Head(stack).unit
             J == {slot[v] : v \in Neighbours(w)} \ {None}
  <1>t. Top("requeue")
    BY Zenon DEF RequeueStep
  <1>0. /\ stack # <<>> /\ Head(stack).op = "requeue" /\ Head(stack) \in Frame /\ JobInv
        /\ Below = Tail(stack) /\ stack \in Seq(Frame)
    BY <1>t, Tops
  <1>1. /\ runq' = runq \cup J /\ stack' = <<>> \o Below
        /\ jobs' = jobs /\ slot' = slot /\ armed' = armed /\ ustate' = ustate
    BY Zenon, <1>0, NothingPushed DEF RequeueStep, uvars
  <1>2. w \in Unit
    BY <1>0 DEF Frame
  <1>3. HeadFor(J)
    <2>1. ASSUME NEW j \in Installed \ J, w \in Neighbours(jobs[j].unit)
          PROVE  FALSE
      <3>1. jobs[j].unit \in Unit /\ slot[jobs[j].unit] = j /\ j # None
        BY <1>0, InstalledFacts
      <3>2. jobs[j].unit \in Neighbours(w)
        BY <1>2, <2>1, <3>1, NeighbourSymmetric
      <3> QED
        BY <2>1, <3>1, <3>2
    <2> QED
      BY Zenon, <1>0, <2>1 DEF HeadFor
  <1> HIDE DEF J
  <1>4. UrgentFirst' /\ Frames(Below) \subseteq Frames(stack')
    BY Zenon, <1>0, <1>1, CalmStep, NothingPushed DEF BInv
  <1>5. Installed' = Installed
    BY <1>1 DEF Installed
  <1>6. \A j \in Installed, v \in Unit : Blocks(j, v) => Blocks(j, v)'
    BY Zenon, <1>1 DEF Blocks
  <1>7. ASSUME NEW j \in Installed \ J
        PROVE  JobOK(j)'
    <2>1. jobs'[j] = jobs[j] /\ ustate'[jobs[j].unit] = ustate[jobs[j].unit]
          /\ (j \in armed => j \in armed') /\ (j \in runq => j \in runq')
      BY <1>1
    <2> QED
      BY Zenon, <1>3, <1>4, <1>6, <1>7, <2>1, OthersKeep
  <1>8. ASSUME NEW j \in Installed \cap J
        PROVE  JobOK(j)'
    <2>0. JobOK(j)
      BY <1>8 DEF BInv
    <2>1. ~Noticed(jobs[j].unit)
      BY <1>0 DEF Noticed
    <2>2. Frames(stack) = {Head(stack)} \cup Frames(Below)
      BY <1>0, BelowOf
    <2>3. RanFor(j) => RanFor(j)'
      BY Zenon, <1>0, <1>4, <2>2 DEF RanFor
    <2>4. Arrived(j)' <=> Arrived(j)
      BY Zenon, <1>1 DEF Arrived
    <2>5. j \in runq' /\ jobs' = jobs /\ armed' = armed
      BY <1>1, <1>8
    <2> QED
      BY Zenon, <2>0, <2>1, <2>3, <2>4, <2>5 DEF JobOK
  <1> QED
    BY Zenon, <1>4, <1>5, <1>7, <1>8 DEF BInv

LEMMA AddJobB ==
    ASSUME Inv, BInv, HeadFor({}), NEW type, NEW u, NEW mode, NEW x \in Seq(Calm),
           manager_add_job(type, u, mode, x \o Below)
    PROVE  BInv'
  <1>1. UNCHANGED <<ustate, jvars>> /\ Below \in Seq(Frame)
    BY BelowOf DEF manager_add_job, uvars, Inv, JobInv, TypeOK
  <1>2. CASE stack' = x \o Below
    BY Zenon, <1>1, <1>2, PushB
  <1>3. ASSUME NEW tr \in Transactions, stack' = ApplyFrames(tr.jobs, mode) \o (x \o Below)
        PROVE  BInv'
    <2>1. PICK a \in Seq(Calm) : a = ApplyFrames(tr.jobs, mode)
      BY Zenon, ApplyCalm
    <2>2. a \o x \in Seq(Calm) /\ stack' = (a \o x) \o Below
      BY Zenon, <1>1, <1>3, <2>1, CalmConcat
    <2> QED
      BY Zenon, <1>1, <2>2, PushB
  <1> QED
    BY Zenon, <1>2, <1>3 DEF manager_add_job

LEMMA AddsB ==
    ASSUME Inv, BInv, AddsStep
    PROVE  BInv'
  <1> DEFINE f == Head(stack)
             a(q) == <<AddJobs(f.reqs \ {q})>>
  <1>t. Top("adds")
    BY Zenon DEF AddsStep
  <1>0. /\ f.op = "adds" /\ f \in Frame /\ Below = Tail(stack) /\ \A J : HeadFor(J)
    BY <1>t, Tops
  <1>1. f.reqs \in SUBSET Req
    BY Zenon, <1>0 DEF Frame
  <1>2. \A q \in f.reqs : a(q) \in Seq(Calm)
    BY Zenon, <1>1, CalmFrames, OneCalm
  <1>3. CASE stack' = Below /\ UNCHANGED <<uvars, jvars>>
    BY Zenon, <1>0, <1>3, PopB
  <1>4. ASSUME NEW q \in f.reqs, manager_add_job(q.type, q.unit, q.mode, a(q) \o Below)
        PROVE  BInv'
    BY Zenon, <1>0, <1>2, <1>4, AddJobB
  <1> QED
    BY Zenon, <1>0, <1>3, <1>4 DEF AddsStep

LEMMA FlushB ==
    ASSUME Inv, BInv, FlushStep
    PROVE  BInv'
  <1> DEFINE S == Head(stack).units
             a(L) == <<CancelJobs(L)>>
  <1>t. Top("flush")
    BY Zenon DEF FlushStep
  <1>0. /\ stack # <<>> /\ Head(stack).op = "flush" /\ Head(stack) \in Frame
        /\ JobInv /\ Below = Tail(stack) /\ \A J : HeadFor(J)
    BY <1>t, Tops
  <1>1. S \in SUBSET Unit
    BY Zenon, <1>0 DEF Frame
  <1>2. \A L \in SUBSET Unit : a(L) \in Seq(Calm)
    BY Zenon, CalmFrames, OneCalm
  <1>3. CASE stack' = Below /\ UNCHANGED <<uvars, jvars>>
    BY Zenon, <1>0, <1>3, PopB
  <1>4. ASSUME NEW L \in SUBSET Unit, stack' = a(L) \o Below, UNCHANGED <<uvars, jvars>>
        PROVE  BInv'
    <2>1. UNCHANGED <<ustate, jvars>>
      BY <1>4 DEF uvars
    <2> QED
      BY Zenon, <1>0, <1>2, <1>4, <2>1, PushB
  <1>5. ASSUME NEW u \in S, slot[u] # None, NEW L \in SUBSET Unit,
               job_finish_and_invalidate(slot[u], "canceled", FALSE, a(L) \o Below)
        PROVE  BInv'
    <2>1. slot[u] \in Installed
      BY Zenon, <1>0, <1>1, <1>5, SlotInstalled
    <2> QED
      BY Zenon, <1>0, <1>2, <1>5, <2>1, FinishB DEF Result
  <1>6. \A u \in S : S \in SUBSET Unit /\ S \ {u} \in SUBSET Unit
    BY <1>1
  <1> HIDE DEF a
  <1>7. \/ stack' = Below /\ UNCHANGED <<uvars, jvars>>
        \/ \E u \in S : \/ \E L \in {S, S \ {u}} :
                              /\ slot[u] # None
                              /\ job_finish_and_invalidate(slot[u], "canceled", FALSE,
                                                           a(L) \o Below)
                        \/ stack' = a(S \ {u}) \o Below /\ UNCHANGED <<uvars, jvars>>
    BY Zenon, <1>0 DEF FlushStep, a
  <1> QED
    BY Zenon, <1>3, <1>4, <1>5, <1>6, <1>7

LEMMA ClearB ==
    ASSUME Inv, BInv, ClearStep
    PROVE  BInv'
  <1>t. Top("clear")
    BY Zenon DEF ClearStep
  <1>0. /\ stack # <<>> /\ Head(stack).op = "clear" /\ Head(stack) \in Frame
        /\ stack \in Seq(Frame) /\ Below = Tail(stack) /\ \A J : HeadFor(J)
    BY <1>t, Tops
  <1>1. CASE stack' = Below /\ UNCHANGED <<uvars, jvars>>
    BY Zenon, <1>0, <1>1, PopB
  <1>2. ASSUME NEW j \in Installed, job_finish_and_invalidate(j, "canceled", FALSE, stack)
        PROVE  BInv'
    <2>1. stack = <<Head(stack)>> \o Below
      BY <1>0
    <2>2. <<Head(stack)>> \in Seq(Calm)
      BY <1>0 DEF Calm
    <2> QED
      BY Zenon, <1>0, <1>2, <2>1, <2>2, FinishB DEF Result
  <1> QED
    BY Zenon, <1>0, <1>1, <1>2 DEF ClearStep

LEMMA InstallB ==
    ASSUME Inv, BInv, InstallStep
    PROVE  BInv'
  <1> DEFINE f == Head(stack)
             a(p) == <<[f EXCEPT !.left = @ \ {p}]>>
  <1>t. Top("install")
    BY Zenon DEF InstallStep
  <1>0. /\ f.op = "install" /\ f \in Frame /\ JobInv /\ Below = Tail(stack)
        /\ Below \in Seq(Frame) /\ \A J : HeadFor(J)
    BY <1>t, Tops
  <1>1. f \in [op : {"install"}, left : SUBSET (Unit \X MergingType),
               irreversible : BOOLEAN, ignore_order : BOOLEAN]
    BY <1>0 DEF Frame
  <1>2. ASSUME NEW p \in f.left PROVE a(p) \in Seq(Calm)
    <2>1. [f EXCEPT !.left = @ \ {p}] \in Calm
      BY <1>1 DEF Calm, Frame
    <2> QED
      BY Zenon, <2>1, OneCalm
  <1>3. CASE stack' = Below /\ UNCHANGED <<uvars, jvars>>
    BY Zenon, <1>0, <1>3, PopB
  <1>4. ASSUME NEW p \in f.left, job_install(p[1], p[2], f, a(p) \o Below)
        PROVE  BInv'
    <2>0. /\ p[1] \in Unit /\ p[2] \in MergingType /\ a(p) \in Seq(Calm)
          /\ f.irreversible \in BOOLEAN /\ f.ignore_order \in BOOLEAN
      BY Zenon, <1>1, <1>2, <1>4
    <2>f. job_install(p[1], p[2], f, a(p) \o Below)
      BY <1>4
    <2> HIDE DEF f, a
    <2>1. CASE slot[p[1]] = None
      <3>1. PlaceJob(p[1], p[2], f, a(p) \o Below)
        BY Zenon, <2>f, <2>1 DEF job_install
      <3> QED
        BY Zenon, <1>0, <2>0, <2>1, <3>1, PlaceB
    <2>2. CASE slot[p[1]] # None /\ job_type_is_conflicting(jobs[slot[p[1]]].type, p[2])
      <3> DEFINE g == [op |-> "place", unit |-> p[1], type |-> p[2],
                       irreversible |-> f.irreversible, ignore_order |-> f.ignore_order]
      <3>1. g \in Calm
        BY <2>0, PlaceCalm
      <3>2. job_finish_and_invalidate(slot[p[1]], "canceled", FALSE, <<g>> \o (a(p) \o Below))
        BY Zenon, <2>f, <2>2 DEF job_install
      <3> HIDE DEF g
      <3>3. PICK b \in Seq(Calm) : b = <<g>>
        BY Zenon, <3>1, OneCalm
      <3>4. b \o a(p) \in Seq(Calm) /\ b \o (a(p) \o Below) = (b \o a(p)) \o Below
        BY Zenon, <1>0, <2>0, CalmConcat
      <3>5. slot[p[1]] \in Installed
        BY Zenon, <1>0, <2>0, <2>2, SlotInstalled
      <3>6. job_finish_and_invalidate(slot[p[1]], "canceled", FALSE, (b \o a(p)) \o Below)
        BY Zenon, <3>2, <3>3, <3>4
      <3> QED
        BY Zenon, <1>0, <3>4, <3>5, <3>6, FinishB DEF Result
    <2>3. CASE slot[p[1]] # None /\ ~job_type_is_conflicting(jobs[slot[p[1]]].type, p[2])
      <3>1. MergeIntoInstalled(slot[p[1]], p[2], f, a(p) \o Below)
        BY Zenon, <2>f, <2>3 DEF job_install
      <3>2. slot[p[1]] \in Installed
        BY Zenon, <1>0, <2>0, <2>3, SlotInstalled
      <3> QED
        BY Zenon, <1>0, <2>0, <2>3, <3>1, <3>2, MergeB
    <2> QED
      BY <2>1, <2>2, <2>3
  <1> QED
    BY Zenon, <1>0, <1>3, <1>4 DEF InstallStep

LEMMA PlaceStepB ==
    ASSUME Inv, BInv, PlaceStep
    PROVE  BInv'
  <1> DEFINE f == Head(stack)
  <1>t. Top("place")
    BY Zenon DEF PlaceStep
  <1>0. /\ stack # <<>> /\ f.op = "place" /\ f \in Frame /\ Below = Tail(stack)
        /\ stack \in Seq(Frame) /\ \A J : HeadFor(J)
    BY <1>t, Tops
  <1>1. f.unit \in Unit
    BY <1>0 DEF Frame
  <1>2. slot[f.unit] = None
    BY <1>0 DEF Inv, PlacePending
  <1>3. PlaceJob(f.unit, f.type, f, <<>> \o Below)
    BY Zenon, <1>0, NothingPushed DEF PlaceStep
  <1> QED
    BY Zenon, <1>0, <1>1, <1>2, <1>3, NothingPushed, PlaceB

LEMMA NotifyB ==
    ASSUME Inv, BInv, NotifyStep
    PROVE  BInv'
  <1> DEFINE f == Head(stack)
             a(y) == AfterNotify(f.unit, f.os, f.ns, f.flags, y)
  <1>k. PICK j : j = slot[f.unit]
    BY Zenon
  <1>t. Top("notify")
    BY Zenon DEF NotifyStep
  <1>0. /\ stack # <<>> /\ f.op = "notify" /\ f \in Frame /\ JobInv /\ Below = Tail(stack)
        /\ stack \in Seq(Frame)
    BY <1>t, Tops
  <1>1. f.unit \in Unit
    BY <1>0 DEF Frame
  <1>2. ASSUME NEW y PROVE a(y) \in Seq(Calm)
    BY <1>1, AfterNotifyCalm
  <1>3. f.ns = ustate[f.unit]
    BY Zenon, <1>0 DEF BInv, UrgentFirst
  <1>4. CASE j = None
    <2>1. stack' = a(TRUE) \o Below /\ UNCHANGED <<ustate, jvars>>
      BY Zenon, <1>k, <1>0, <1>4 DEF NotifyStep, uvars
    <2>2. HeadFor({})
      <3>1. \A i \in Installed : jobs[i].unit # f.unit
        BY Zenon, <1>k, <1>0, <1>4, InstalledFacts
      <3> QED
        BY Zenon, <1>0, <3>1 DEF HeadFor
    <2>3. a(TRUE) \in Seq(Calm)
      BY Zenon, <1>2
    <2> QED
      BY Zenon, <2>1, <2>2, <2>3, PushB
  <1>h. ASSUME j # None
        PROVE  /\ j \in Installed /\ jobs[j].unit = f.unit /\ jobs[j].type \in MergingType
               /\ HeadFor({j})
    <2>1. j \in Installed /\ jobs[j].unit = f.unit /\ jobs[j].type \in MergingType
      BY <1>k, <1>0, <1>1, <1>h, SlotInstalled
    <2>2. \A i \in Installed \ {j} : jobs[i].unit # f.unit
      BY <1>k, <1>0, InstalledFacts
    <2> QED
      BY Zenon, <1>0, <2>1, <2>2 DEF HeadFor
  <1>5. CASE j # None /\ JobOutcome(j, f.ns, f.flags) # "none"
    <2>1. job_finish_and_invalidate(j, JobOutcome(j, f.ns, f.flags), TRUE,
                                    a(Unexpected(j, f.ns)) \o Below)
      BY Zenon, <1>k, <1>0, <1>5 DEF NotifyStep
    <2>2. j \in Installed /\ HeadFor({j}) /\ JobOutcome(j, f.ns, f.flags) \in Result
      BY Zenon, <1>5, <1>h, OutcomeTyped
    <2>3. a(Unexpected(j, f.ns)) \in Seq(Calm)
      BY <1>2
    <2> HIDE DEF f, a
    <2> QED
      BY Zenon, <2>1, <2>2, <2>3, FinishB
  <1>6. CASE j # None /\ JobOutcome(j, f.ns, f.flags) = "none"
    <2>1. /\ runq' = IF jobs[j].state = "waiting" THEN runq \cup {j} ELSE runq
          /\ stack' = a(Unexpected(j, f.ns)) \o Below
          /\ ustate' = ustate /\ jobs' = jobs /\ slot' = slot /\ armed' = armed
      BY Zenon, <1>k, <1>0, <1>6 DEF NotifyStep, uvars
    <2>2. /\ j \in Installed /\ jobs[j].unit = f.unit /\ jobs[j].type \in MergingType
          /\ HeadFor({j})
      BY <1>h, <1>6
    <2>3. PICK x \in Seq(Calm) : stack' = x \o Below
      BY Zenon, <1>2, <2>1
    <2>4. jobs[j].state = "running" => ~Arrived(j)
      BY <1>3, <1>6, <2>2 DEF JobOutcome, Arrived, MergingType, InactiveOrFailed,
         ActiveOrReloading
    <2> HIDE DEF f, a
    <2>5. UrgentFirst' /\ Frames(Below) \subseteq Frames(stack')
      BY Zenon, <1>0, <2>3, CalmStep DEF BInv
    <2>6. Installed' = Installed
      BY <2>1 DEF Installed
    <2>7. ASSUME NEW i \in Installed \ {j}
          PROVE  JobOK(i)'
      <3>1. \A v \in Unit : Blocks(i, v) => Blocks(i, v)'
        BY Zenon, <2>1 DEF Blocks
      <3>2. jobs'[i] = jobs[i] /\ ustate'[jobs[i].unit] = ustate[jobs[i].unit]
            /\ (i \in armed => i \in armed') /\ (i \in runq => i \in runq')
        BY <2>1
      <3> QED
        BY Zenon, <2>2, <2>5, <2>7, <3>1, <3>2, OthersKeep
    <2>8. JobOK(j)'
      <3>0. JobOK(j)
        BY <2>2 DEF BInv
      <3>1. jobs'[j].state = "running" => ~Arrived(j)'
        BY Zenon, <2>1, <2>4 DEF Arrived
      <3>2. jobs'[j].state = "waiting" => j \in runq'
        BY <2>1
      <3> QED
        BY Zenon, <2>1, <3>0, <3>1, <3>2 DEF JobOK
    <2> QED
      BY Zenon, <2>5, <2>6, <2>7, <2>8 DEF BInv
  <1> QED
    BY Zenon, <1>4, <1>5, <1>6

LEMMA RanB ==
    ASSUME Inv, BInv, RanStep
    PROVE  BInv'
  <1> DEFINE f == Head(stack)
  <1>k. PICK j : j = f.job
    BY Zenon
  <1>t. Top("ran")
    BY Zenon DEF RanStep
  <1>0. /\ stack # <<>> /\ f.op = "ran" /\ f \in Frame /\ JobInv /\ Below = Tail(stack)
        /\ stack \in Seq(Frame) /\ TypeOK
    BY <1>t, Tops
  <1>1. j \in Job /\ HeadFor({j})
    BY Zenon, <1>k, <1>0 DEF Frame, HeadFor
  <1>2. CASE jobs[j] = None
    <2>1. stack' = <<>> \o Below /\ ustate' = ustate /\ jobs' = jobs /\ slot' = slot
          /\ armed' = armed /\ runq' = runq
      BY Zenon, <1>k, <1>0, <1>2, NothingPushed DEF RanStep, uvars, jvars
    <2>2. UrgentFirst' /\ Frames(Below) \subseteq Frames(stack')
      BY Zenon, <1>0, <2>1, NothingPushed, CalmStep DEF BInv
    <2>3. Installed' = Installed /\ \A i \in Installed : i \in Installed \ {j}
      BY <1>2, <2>1 DEF Installed
    <2> HIDE DEF f
    <2>4. ASSUME NEW i \in Installed \ {j}
          PROVE  JobOK(i)'
      <3>1. \A v \in Unit : Blocks(i, v) => Blocks(i, v)'
        BY Zenon, <2>1 DEF Blocks
      <3>2. jobs'[i] = jobs[i] /\ ustate'[jobs[i].unit] = ustate[jobs[i].unit]
            /\ (i \in armed => i \in armed') /\ (i \in runq => i \in runq')
        BY <2>1
      <3> QED
        BY Zenon, <1>1, <2>2, <2>4, <3>1, <3>2, OthersKeep
    <2> QED
      BY Zenon, <2>2, <2>3, <2>4 DEF BInv
  <1>3. CASE jobs[j] # None /\ f.r = "EAGAIN"
    <2>1. /\ jobs' = [jobs EXCEPT ![j].state = "waiting"] /\ stack' = <<>> \o Below
          /\ ustate' = ustate /\ slot' = slot /\ runq' = runq /\ armed' = armed
      BY Zenon, <1>k, <1>0, <1>3, NothingPushed DEF RanStep, uvars
    <2>2. j \in Installed /\ jobs[j] \in JobRec /\ Busy(j)
      BY Zenon, <1>k, <1>0, <1>1, <1>3 DEF Installed, TypeOK, BInv, UrgentFirst
    <2>3. UrgentFirst' /\ Frames(Below) \subseteq Frames(stack')
      BY Zenon, <1>0, <2>1, NothingPushed, CalmStep DEF BInv
    <2>4. /\ jobs'[j] = [jobs[j] EXCEPT !.state = "waiting"]
          /\ \A i \in Installed \ {j} : jobs'[i] = jobs[i]
      BY <1>0, <1>1, <2>1 DEF TypeOK, Installed
    <2> HIDE DEF f
    <2>5. /\ jobs'[j].unit = jobs[j].unit /\ jobs'[j].type = jobs[j].type
          /\ jobs'[j].state = "waiting" /\ jobs'[j].began = jobs[j].began
          /\ jobs'[j].ignore_order = jobs[j].ignore_order
      BY Zenon, <2>2, <2>4 DEF JobRec
    <2>6. Installed' \subseteq Installed
      BY <1>0, <2>1, <2>2 DEF TypeOK, Installed
    <2>7. ASSUME NEW i \in Installed \ {j}
          PROVE  JobOK(i)'
      <3>1. ASSUME NEW v \in Unit, Blocks(i, v)
            PROVE  Blocks(i, v)'
        <4>1. slot[v] # None
          BY <3>1 DEF Blocks
        <4>2. slot[v] \in Installed /\ slot'[v] = slot[v]
          BY <1>0, <2>1, <4>1, SlotInstalled
        <4>3. /\ jobs'[slot[v]].type = jobs[slot[v]].type
              /\ jobs'[slot[v]].ignore_order = jobs[slot[v]].ignore_order
          BY Zenon, <2>4, <2>5, <4>2
        <4>4. jobs'[i] = jobs[i]
          BY <2>4, <2>7
        <4> QED
          BY Zenon, <3>1, <4>2, <4>3, <4>4, BlocksKept
      <3>2. jobs'[i] = jobs[i] /\ ustate'[jobs[i].unit] = ustate[jobs[i].unit]
            /\ (i \in armed => i \in armed') /\ (i \in runq => i \in runq')
        BY <2>1, <2>4, <2>7
      <3> QED
        BY Zenon, <1>1, <2>3, <2>7, <3>1, <3>2, OthersKeep
    <2>8. JobOK(j)'
      <3>0. JobOK(j)
        BY <2>2 DEF BInv
      <3>1. Busy(j)'
        BY Zenon, <2>1, <2>2, <2>5 DEF Busy
      <3> QED
        BY Zenon, <2>1, <2>5, <3>0, <3>1 DEF JobOK
    <2> QED
      BY Zenon, <2>3, <2>6, <2>7, <2>8 DEF BInv
  <1>4. CASE jobs[j] # None /\ job_finish_and_invalidate(j, ResultOf(f.r), TRUE, Below)
    <2>1. ResultOf(f.r) \in Result
      BY DEF ResultOf, Result
    <2>2. j \in Installed
      BY <1>1, <1>4 DEF Installed
    <2>3. job_finish_and_invalidate(j, ResultOf(f.r), TRUE, <<>> \o Below)
      BY Zenon, <1>4, NothingPushed
    <2> QED
      BY Zenon, <1>1, <2>1, <2>2, <2>3, NothingPushed, FinishB
  <1> QED
    BY Zenon, <1>k, <1>0, <1>2, <1>3, <1>4 DEF RanStep

LEMMA DispatchB ==
    ASSUME Inv, BInv, DispatchStep
    PROVE  BInv'
  <1>t. Top("dispatch")
    BY Zenon DEF DispatchStep
  <1>0. /\ stack # <<>> /\ Head(stack).op = "dispatch" /\ Below = Tail(stack)
        /\ runq \subseteq Installed /\ HeadFor({})
    BY <1>t, Tops DEF JobInv, QueuesInstalled
  <1>1. CASE stack' = Below /\ UNCHANGED <<uvars, jvars>>
    BY Zenon, <1>0, <1>1, PopB
  <1>2. ASSUME NEW j \in runq, RunJob(j, stack)
        PROVE  BInv'
    <2>1. j \in Installed
      BY <1>0, <1>2
    <2> QED
      BY Zenon, <1>0, <1>2, <2>1, RunB
  <1> QED
    BY Zenon, <1>0, <1>1, <1>2 DEF DispatchStep

LEMMA BindsB ==
    ASSUME Inv, BInv, BindsStep
    PROVE  BInv'
  <1>t. Top("binds")
    BY Zenon DEF BindsStep
  <1>0. Below = Tail(stack) /\ HeadFor({})
    BY <1>t, Tops
  <1>1. CASE stack' = Below /\ UNCHANGED <<uvars, jvars>>
    BY Zenon, <1>0, <1>1, PopB
  <1>2. CASE manager_add_job("stop", Head(stack).unit, "fail", Below)
    BY Zenon, <1>0, <1>2, NothingPushed, AddJobB
  <1> QED
    BY Zenon, <1>0, <1>1, <1>2 DEF BindsStep

LEMMA PathSetB ==
    ASSUME Inv, BInv, HeadFor({}), NEW u, NEW p, PathSet(u, p, Below)
    PROVE  BInv'
  <1>1. stack' = <<>> \o Below /\ UNCHANGED <<ustate, jvars>>
    BY Zenon, NothingPushed DEF PathSet
  <1> QED
    BY Zenon, <1>1, NothingPushed, PushB

\* Path units: there are none, so nothing is triggered.
LEMMA TriggerB ==
    ASSUME Watched = {}, Inv, BInv, TriggerStep
    PROVE  BInv'
  <1>t. Top("trigger")
    BY Zenon DEF TriggerStep
  <1>0. Below = Tail(stack) /\ HeadFor({})
    BY <1>t, Tops
  <1>1. PathSet(Head(stack).unit, path[Head(stack).unit], Below)
    BY <1>0 DEF TriggerStep
  <1> QED
    BY Zenon, <1>0, <1>1, PathSetB

LEMMA PathB ==
    ASSUME Inv, BInv, PathStep
    PROVE  BInv'
  <1>t. Top("path")
    BY Zenon DEF PathStep
  <1>0. Below = Tail(stack) /\ HeadFor({})
    BY <1>t, Tops
  <1> QED
    BY Zenon, <1>0, PathSetB DEF PathStep

LEMMA ColdplugB ==
    ASSUME Inv, BInv, ColdplugStep
    PROVE  BInv'
  <1> DEFINE f == Head(stack)
             a(u) == <<[op |-> "coldplug", units |-> f.units \ {u}]>>
  <1>t. Top("coldplug")
    BY Zenon DEF ColdplugStep
  <1>0. /\ f.op = "coldplug" /\ f \in Frame /\ Below = Tail(stack) /\ \A J : HeadFor(J)
        /\ Below \in Seq(Frame)
    BY <1>t, Tops
  <1>1. f.units \in SUBSET Unit
    BY Zenon, <1>0 DEF Frame
  <1>2. \A u \in f.units : a(u) \in Seq(Calm)
    BY Zenon, <1>1, CalmFrames, OneCalm
  <1>3. CASE stack' = Below /\ UNCHANGED <<uvars, jvars>>
    BY Zenon, <1>0, <1>3, PopB
  <1>4. ASSUME NEW u \in f.units, NEW down, PathCheck(u, down, a(u) \o Below)
        PROVE  BInv'
    <2>0. a(u) \in Seq(Calm) /\ u \in Unit
      BY <1>1, <1>2
    <2>1. CASE \E p : PathSet(u, p, a(u) \o Below)
      <3>1. stack' = a(u) \o Below /\ UNCHANGED <<ustate, jvars>>
        BY Zenon, <2>1 DEF PathSet
      <3> QED
        BY Zenon, <1>0, <2>0, <3>1, PushB
    <2>2. ASSUME NEW tr \in Transactions, UNCHANGED <<uvars, jvars>>,
                 stack' = ApplyFrames(tr.jobs, "replace") \o <<PathRunning(u)>> \o (a(u) \o Below)
          PROVE  BInv'
      <3>1. PICK b \in Seq(Calm), c \in Seq(Calm) :
              b = ApplyFrames(tr.jobs, "replace") /\ c = <<PathRunning(u)>>
        BY Zenon, <2>0, ApplyCalm, CalmFrames, OneCalm
      <3>2. b \o c \in Seq(Calm)
        BY Zenon, CalmConcat, <1>0
      <3>p. PICK d \in Seq(Calm), g \in Seq(Calm) : d = b \o c /\ g = a(u)
        BY Zenon, <2>0, <3>2
      <3>q. stack' = d \o (g \o Below)
        BY Zenon, <2>2, <3>1, <3>p
      <3>3. d \o g \in Seq(Calm) /\ stack' = (d \o g) \o Below
        BY Zenon, <1>0, <3>q, CalmConcat
      <3>4. UNCHANGED <<ustate, jvars>>
        BY <2>2 DEF uvars
      <3> QED
        BY Zenon, <1>0, <3>3, <3>4, PushB
    <2> QED
      BY Zenon, <1>4, <2>1, <2>2 DEF PathCheck, PathRun
  <1> QED
    BY Zenon, <1>0, <1>3, <1>4 DEF ColdplugStep

LEMMA HandlerB ==
    ASSUME Watched = {}, Inv, BInv, HandlerStep
    PROVE  BInv'
  BY Zenon, FailB, RequeueB, AddsB, FlushB, InstallB, PlaceStepB, NotifyB, BindsB, TriggerB,
     PathB, RanB, DispatchB, ClearB, ColdplugB DEF HandlerStep

\* A job that ends between handlers.
LEMMA EndB ==
    ASSUME Inv, BInv, Idle, NEW j \in Installed, NEW result \in Result,
           NEW recursive \in BOOLEAN, job_finish_and_invalidate(j, result, recursive, <<>>)
    PROVE  BInv'
  <1>1. Below = <<>> /\ HeadFor({j})
    BY Zenon, Idles
  <1>2. job_finish_and_invalidate(j, result, recursive, <<>> \o Below)
    BY Zenon, <1>1, NothingPushed
  <1> QED
    BY Zenon, <1>1, <1>2, NothingPushed, FinishB

LEMMA PushIdleB ==
    ASSUME Inv, BInv, Idle, NEW f \in Calm, stack' = <<f>>, UNCHANGED <<uvars, jvars>>
    PROVE  BInv'
  <1>1. Below = <<>> /\ HeadFor({})
    BY Zenon, Idles
  <1>2. stack' = <<f>> \o Below
    BY <1>1
  <1>3. UNCHANGED <<ustate, jvars>>
    BY DEF uvars
  <1> QED
    BY Zenon, <1>1, <1>2, <1>3, OneCalm, PushB

\* What is left of the stack and of the job table is as it was.
LEMMA SameB ==
    ASSUME Inv, BInv, ustate' = ustate, jobs' = jobs, slot' = slot, runq' = runq,
           armed' = armed, stack' = stack
    PROVE  BInv'
  <1>1. Below' = Below /\ Installed' = Installed
    BY DEF Below, Installed
  <1>2. UrgentFirst'
    BY Zenon, <1>1 DEF BInv, UrgentFirst, Urgent, Frames, Busy
  <1>3. ASSUME NEW j \in Installed
        PROVE  JobOK(j)'
    BY <1>3 DEF BInv, JobOK, Arrived, Noticed, RanFor, RequeueFor, Frames, Busy, Blocks
  <1> QED
    BY Zenon, <1>1, <1>2, <1>3 DEF BInv

LEMMA UnitEventB ==
    ASSUME Inv, BInv, NEW u \in Unit, NEW ns \in ActiveState, NEW flags \in {{}, NotifyFlag},
           UnitEvent(u, ns, flags)
    PROVE  BInv'
  <1> DEFINE g == Notify(u, ustate[u], ns, flags)
  <1>0. /\ JobInv /\ TypeOK /\ stack = <<>> /\ Below = <<>> /\ Frames(stack) = {}
        /\ Frames(Below) = {} /\ HeadFor({}) /\ Idle
    BY Zenon, Idles DEF UnitEvent
  <1>1. /\ ustate' = [ustate EXCEPT ![u] = ns] /\ stack' = <<g>>
        /\ jobs' = jobs /\ slot' = slot /\ runq' = runq /\ armed' = armed
    BY DEF UnitEvent, jvars
  <1>2. ustate'[u] = ns /\ \A v \in Unit \ {u} : ustate'[v] = ustate[v]
    BY <1>0, <1>1 DEF TypeOK
  <1>3. g \in Frame /\ g.op = "notify" /\ g.unit = u /\ g.ns = ns
    BY <1>0 DEF Notify, Frame, TypeOK, NotifyFlag
  <1> HIDE DEF g
  <1>4. stack' # <<>> /\ Head(stack') = g /\ Below' = <<>>
    BY <1>1, <1>3 DEF Below
  <1>5. Frames(Below)' = {}
    BY <1>4 DEF Frames
  <1>6. UrgentFirst'
    BY Zenon, <1>2, <1>3, <1>4, <1>5 DEF UrgentFirst
  <1>7. Installed' = Installed
    BY <1>1 DEF Installed
  <1>8. ASSUME NEW j \in Installed PROVE JobOK(j)'
    <2>0. JobOK(j)
      BY <1>8 DEF BInv
    <2>1. CASE jobs[j].unit = u
      <3>1. Noticed(jobs[j].unit)'
        BY Zenon, <1>1, <1>3, <1>4, <2>1 DEF Noticed
      <3> QED
        BY Zenon, <1>1, <2>0, <3>1 DEF JobOK
    <2>2. CASE jobs[j].unit # u
      <3>1. jobs[j].unit \in Unit
        BY <1>0, <1>8, InstalledFacts
      <3>2. ustate'[jobs[j].unit] = ustate[jobs[j].unit]
        BY <1>2, <2>2, <3>1
      <3>3. Frames(Below) \subseteq Frames(stack') /\ j \in Installed \ {}
        BY <1>0, <1>8
      <3>4. \A v \in Unit : Blocks(j, v) => Blocks(j, v)'
        BY Zenon, <1>1 DEF Blocks
      <3> QED
        BY Zenon, <1>0, <1>1, <3>2, <3>3, <3>4, OthersKeep
    <2> QED
      BY <2>1, <2>2
  <1> QED
    BY Zenon, <1>6, <1>7, <1>8 DEF BInv

LEMMA ReloadB ==
    ASSUME Inv, BInv, Reload
    PROVE  BInv'
  <1> DEFINE g == [op |-> "coldplug", units |-> {u \in Watched : path[u] # "dead"}]
  <1>0. /\ JobInv /\ TypeOK /\ stack = <<>> /\ Frames(stack) = {} /\ Idle
    BY Zenon, Idles DEF Reload
  <1>1. /\ ustate' = ustate /\ jobs' = jobs /\ slot' = slot /\ stack' = <<g>>
        /\ runq' = {j \in Installed : jobs[j].state = "waiting"}
        /\ armed' = {j \in Installed : TimerAfterReload(j)}
    BY DEF Reload
  <1>2. g.op = "coldplug" /\ stack' # <<>> /\ Head(stack') = g /\ Below' = <<>>
    BY <1>1 DEF Below
  <1>3. Frames(Below)' = {}
    BY <1>2 DEF Frames
  <1>4. UrgentFirst'
    BY Zenon, <1>2, <1>3 DEF UrgentFirst
  <1>5. Installed' = Installed
    BY <1>1 DEF Installed
  <1>6. ASSUME NEW j \in Installed PROVE JobOK(j)'
    <2>0. JobOK(j)
      BY <1>6 DEF BInv
    <2>1. ~Noticed(jobs[j].unit) /\ ~RanFor(j)
      BY <1>0 DEF Noticed, RanFor
    <2>2. jobs[j].state = "running" => ~Arrived(j)'
      BY Zenon, <1>1, <2>0, <2>1 DEF JobOK, Arrived
    <2>3. jobs[j].state = "waiting" => j \in runq'
      BY <1>1, <1>6
    <2>4. jobs[j].unit \in JobTimeout \/ (jobs[j].unit \in RunningTimeout /\ jobs[j].began)
            => j \in armed'
      BY <1>1, <1>6 DEF TimerAfterReload
    <2> QED
      BY Zenon, <1>1, <2>2, <2>3, <2>4 DEF JobOK
  <1> QED
    BY Zenon, <1>4, <1>5, <1>6 DEF BInv

LEMMA NextB ==
    ASSUME Watched = {}, Inv, BInv, [Next]_vars
    PROVE  BInv'
  <1>1. CASE UNCHANGED vars
    BY <1>1, SameB DEF vars, uvars, jvars
  <1>2. CASE DispatchRunQueue
    <2>1. [op |-> "dispatch"] \in Calm
      BY Zenon, CalmFrames
    <2> QED
      BY Zenon, <1>2, <2>1, PushIdleB DEF DispatchRunQueue
  <1>3. ASSUME NEW tr \in Transactions, NEW mode \in Modes, Request(tr, mode)
        PROVE  BInv'
    <2>1. Below = <<>> /\ HeadFor({})
      BY Zenon, <1>3, Idles DEF Request
    <2>2. manager_add_job(tr.type, tr.anchor, mode, <<>> \o Below)
      BY Zenon, <1>3, <2>1, NothingPushed DEF Request
    <2> QED
      BY Zenon, <2>1, <2>2, NothingPushed, AddJobB
  <1>4. ASSUME NEW j \in Job, CancelJob(j) PROVE BInv'
    <2>1. j \in Installed /\ Idle /\ job_finish_and_invalidate(j, "canceled", TRUE, <<>>)
          /\ "canceled" \in Result /\ TRUE \in BOOLEAN
      BY Zenon, <1>4 DEF CancelJob, Installed, Result
    <2> QED
      BY Zenon, <2>1, EndB
  <1>5. ASSUME NEW j \in Job, JobTimesOut(j) PROVE BInv'
    <2>1. j \in Installed /\ Idle /\ job_finish_and_invalidate(j, "timeout", TRUE, <<>>)
          /\ "timeout" \in Result /\ TRUE \in BOOLEAN
      BY Zenon, <1>5 DEF JobTimesOut, Result, Inv, JobInv, QueuesInstalled
    <2> QED
      BY Zenon, <2>1, EndB
  <1>6. ASSUME NEW j \in Job, CollectJob(j) PROVE BInv'
    <2>1. j \in Installed /\ Idle /\ "collected" \in Result /\ FALSE \in BOOLEAN
      BY <1>6 DEF CollectJob, Result, Inv, JobInv, QueuesInstalled
    <2>2. CASE job_finish_and_invalidate(j, "collected", FALSE, <<>>)
      BY Zenon, <2>1, <2>2, EndB
    <2>3. CASE UNCHANGED <<uvars, jobs, slot, runq, armed, nrun, doomed, stack>>
      BY <2>3, SameB DEF uvars
    <2> QED
      BY Zenon, <1>6, <2>2, <2>3 DEF CollectJob
  <1>7. CASE ClearJobs
    <2>1. [op |-> "clear"] \in Calm
      BY Zenon, CalmFrames
    <2> QED
      BY Zenon, <1>7, <2>1, PushIdleB DEF ClearJobs
  <1> QED
    BY Zenon, <1>1, <1>2, <1>3, <1>4, <1>5, <1>6, <1>7, HandlerB, UnitEventB, ReloadB DEF Next

LEMMA InitB ==
    ASSUME Init
    PROVE  BInv
  <1>1. stack = <<>> /\ Below = <<>> /\ Installed = {}
    BY DEF Init, Below, Installed
  <1>2. Frames(Below) = {}
    BY <1>1 DEF Frames
  <1> QED
    BY Zenon, <1>1, <1>2 DEF BInv, UrgentFirst

LEMMA IdleFacts ==
    ASSUME Inv, BInv, Idle, NEW j \in Installed
    PROVE  /\ jobs[j].state = "running" => ~Arrived(j)
           /\ jobs[j].state = "waiting" /\ j \notin runq => Blocked(j) \/ Busy(j)
           /\ jobs[j].unit \in JobTimeout \/ (jobs[j].unit \in RunningTimeout /\ jobs[j].began)
                => j \in armed
  <1>0. JobInv /\ stack = <<>> /\ Frames(stack) = {}
    BY Zenon, Idles
  <1>1. JobOK(j)
    BY DEF BInv
  <1>2. ~Noticed(jobs[j].unit) /\ ~RanFor(j) /\ ~RequeueFor(jobs[j].unit)
    BY <1>0 DEF Noticed, RanFor, RequeueFor
  <1>3. Blocked(j) <=> \E v \in Unit : Blocks(j, v)
    BY Zenon, <1>0, BlocksIs
  <1> QED
    BY Zenon, <1>1, <1>2, <1>3 DEF JobOK

\* A handler that has called something goes on with that call.
LEMMA OnlyTop ==
    ASSUME Next, NEW op, Top(op)
    PROVE  HandlerStep /\ ~Idle
  BY Zenon DEF Next, Top, Idle, DispatchRunQueue, Request, CancelJob, JobTimesOut, CollectJob,
     ClearJobs, UnitEvent, PathStarts, PathFires, PathStops, Reload

LEMMA OnlyDispatch ==
    ASSUME Next, Top("dispatch")
    PROVE  DispatchStep
  <1>1. HandlerStep /\ Head(stack).op = "dispatch"
    BY Zenon, OnlyTop DEF Top
  <1> QED
    BY Zenon, <1>1 DEF HandlerStep, FailStep, RequeueStep, AddsStep, FlushStep, InstallStep, PlaceStep,
       NotifyStep, BindsStep, TriggerStep, PathStep, RanStep, ClearStep, ColdplugStep, Top

\* What it means that a job that is not exempted is runnable.
LEMMA RunnableMeans ==
    ASSUME JobInv, NEW j \in Installed, job_is_runnable(j), ~jobs[j].ignore_order,
           NEW v \in Unit, slot[v] # None, ~jobs[slot[v]].ignore_order
    PROVE  /\ v \in After(jobs[j].unit) => jobs[j].type \in {"stop", "restart"}
           /\ v \in Before(jobs[j].unit) => jobs[slot[v]].type \notin {"stop", "restart"}
  <1>1. jobs[j].type \in MergingType /\ jobs[slot[v]].type \in MergingType
    BY Zenon, InstalledFacts, SlotInstalled
  <1>2. /\ v \in After(jobs[j].unit) => job_compare(jobs[j], jobs[slot[v]], "after") <= 0
        /\ v \in Before(jobs[j].unit) => job_compare(jobs[j], jobs[slot[v]], "before") <= 0
    BY Zenon DEF job_is_runnable
  <1> QED
    BY <1>1, <1>2 DEF job_compare, MergingType
=============================================================================
