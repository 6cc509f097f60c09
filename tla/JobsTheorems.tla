---------------------------- MODULE JobsTheorems ----------------------------
(***************************************************************************)
(* Theorems about jobs: merging is independent of the order of the         *)
(* requests, and what the job engine keeps to for any units, dependencies, *)
(* transactions and requests, as long as no path unit triggers a unit.     *)
(***************************************************************************)
EXTENDS JobsApplying, JobMerge, FiniteSetTheorems

USE Untyped

-----------------------------------------------------------------------------
(* Events, and the invariant.                                              *)

LEMMA IdleE ==
    ASSUME Inv, EInv, Idle
    PROVE  /\ PlainTop /\ stack = <<>> /\ Below = <<>> /\ doomed = {}
           /\ <<>> \in Seq(Plain) /\ <<>> \o Below = <<>>
  <1>1. PlainTop /\ stack = <<>> /\ Below = <<>>
    BY Zenon, Idles DEF PlainTop
  <1>2. doomed = {}
    BY Zenon, <1>1, PlainTops
  <1>3. <<>> \in Seq(Plain) /\ <<>> \o Below = <<>>
    BY Zenon, <1>1, NoFrames
  <1> QED
    BY Zenon, <1>1, <1>2, <1>3

LEMMA FinishIdleE ==
    ASSUME Inv, EInv, Idle, NEW j \in Installed, NEW result \in Result,
           NEW recursive \in BOOLEAN, job_finish_and_invalidate(j, result, recursive, <<>>)
    PROVE  EInv'
  <1>1. job_finish_and_invalidate(j, result, recursive, <<>> \o Below)
    BY Zenon, IdleE
  <1> QED
    BY Zenon, <1>1, IdleE, EndE

LEMMA PushIdleE ==
    ASSUME Inv, EInv, Idle, NEW f \in Plain, stack' = <<f>>, jobs' = jobs, doomed' = doomed
    PROVE  EInv'
  <1>1. Below = <<>> /\ PlainTop
    BY Zenon, IdleE
  <1>2. stack' = <<f>> \o Below
    BY <1>1
  <1> QED
    BY Zenon, <1>1, <1>2, OnePlain, PushE

LEMMA SameE ==
    ASSUME EInv, stack' = stack, jobs' = jobs, slot' = slot, doomed' = doomed
    PROVE  EInv'
  <1>1. \A g : StillFine(g) => StillFine(g)'
    BY Zenon DEF StillFine
  <1>2. Shape'
    BY Zenon, <1>1 DEF EInv, Shape, Applying
  <1>3. Falling'
    BY Zenon DEF EInv, Falling, Covered, Installed
  <1> QED
    BY Zenon, <1>2, <1>3 DEF EInv

LEMMA HandlerE ==
    ASSUME Watched = {}, Inv, EInv, HandlerStep
    PROVE  EInv'
  BY Zenon, FailE, RequeueE, AddsE, FlushE, InstallE, PlaceStepE, NotifyE, BindsE, TriggerE,
     PathE, RanE, DispatchE, ClearE, ColdplugE DEF HandlerStep

LEMMA NextE ==
    ASSUME Watched = {}, Inv, EInv, [Next]_vars
    PROVE  EInv'
  <1>1. CASE UNCHANGED vars
    BY <1>1, SameE DEF vars, jvars
  <1>2. CASE DispatchRunQueue
    <2>1. [op |-> "dispatch"] \in Plain
      BY Zenon, PlainFrames
    <2> QED
      BY Zenon, <1>2, <2>1, PushIdleE DEF DispatchRunQueue, jvars
  <1>3. ASSUME NEW tr \in Transactions, NEW mode \in Modes, Request(tr, mode)
        PROVE  EInv'
    <2>1. Idle
      BY Zenon, <1>3 DEF Request
    <2>2. PlainTop /\ stack = <<>> /\ <<>> \in Seq(Plain) /\ <<>> \o Below = <<>>
      BY Zenon, <2>1, IdleE
    <2>3. manager_add_job(tr.type, tr.anchor, mode, <<>> \o Below)
      BY Zenon, <1>3, <2>2 DEF Request
    <2> QED
      BY Zenon, <2>2, <2>3, AddJobE
  <1>4. ASSUME NEW j \in Job, CancelJob(j) PROVE EInv'
    <2>1. j \in Installed /\ Idle /\ job_finish_and_invalidate(j, "canceled", TRUE, <<>>)
          /\ "canceled" \in Result /\ TRUE \in BOOLEAN
      BY Zenon, <1>4 DEF CancelJob, Installed, Result
    <2> QED
      BY Zenon, <2>1, FinishIdleE
  <1>5. ASSUME NEW j \in Job, JobTimesOut(j) PROVE EInv'
    <2>1. j \in Installed /\ Idle /\ job_finish_and_invalidate(j, "timeout", TRUE, <<>>)
          /\ "timeout" \in Result /\ TRUE \in BOOLEAN
      BY Zenon, <1>5 DEF JobTimesOut, Result, Inv, JobInv, QueuesInstalled
    <2> QED
      BY Zenon, <2>1, FinishIdleE
  <1>6. ASSUME NEW j \in Job, CollectJob(j) PROVE EInv'
    <2>1. j \in Installed /\ Idle /\ "collected" \in Result /\ FALSE \in BOOLEAN
      BY <1>6 DEF CollectJob, Result, Inv, JobInv, QueuesInstalled
    <2>2. CASE job_finish_and_invalidate(j, "collected", FALSE, <<>>)
      BY Zenon, <2>1, <2>2, FinishIdleE
    <2>3. CASE UNCHANGED <<uvars, jobs, slot, runq, armed, nrun, doomed, stack>>
      BY <2>3, SameE
    <2> QED
      BY Zenon, <1>6, <2>2, <2>3 DEF CollectJob
  <1>7. CASE ClearJobs
    <2>1. [op |-> "clear"] \in Plain
      BY Zenon, PlainFrames
    <2> QED
      BY Zenon, <1>7, <2>1, PushIdleE DEF ClearJobs, jvars
  <1>8. ASSUME NEW u \in Unit, NEW ns \in ActiveState, NEW flags \in {{}, NotifyFlag},
               UnitEvent(u, ns, flags)
        PROVE  EInv'
    <2>1. PICK f : f = Notify(u, ustate[u], ns, flags)
      BY Zenon
    <2>2. flags \in SUBSET NotifyFlag /\ ustate[u] \in ActiveState
      BY DEF Inv, JobInv, TypeOK
    <2>3. f \in Plain
      BY Zenon, <2>1, <2>2, PlainFrames
    <2>4. Idle /\ stack' = <<f>> /\ jobs' = jobs /\ doomed' = doomed
      BY Zenon, <1>8, <2>1 DEF UnitEvent, jvars
    <2> QED
      BY Zenon, <2>3, <2>4, PushIdleE
  <1>9. CASE Reload
    <2>1. PICK f : f = [op |-> "coldplug", units |-> {u \in Watched : path[u] # "dead"}]
      BY Zenon
    <2>2. {u \in Watched : path[u] # "dead"} \in SUBSET Unit
      BY UnitSetsAssumption
    <2>3. f \in Plain
      BY Zenon, <2>1, <2>2, PlainFrames
    <2>4. Idle /\ stack' = <<f>> /\ jobs' = jobs /\ doomed' = doomed
      BY Zenon, <1>9, <2>1 DEF Reload
    <2> QED
      BY Zenon, <2>3, <2>4, PushIdleE
  <1>10. CASE HandlerStep
    BY Zenon, <1>10, HandlerE
  <1>11. ~\E u \in Watched : PathStarts(u) \/ PathFires(u) \/ PathStops(u)
    OBVIOUS
  <1> QED
    BY Zenon, <1>1, <1>2, <1>3, <1>4, <1>5, <1>6, <1>7, <1>8, <1>9, <1>10, <1>11 DEF Next

-----------------------------------------------------------------------------
(* The theorems.                                                           *)

LEMMA FiniteSetFactsHold == FiniteSetFacts
  <1>1. \A S : IsFiniteSet(S) => Cardinality(S) \in Nat
    BY FS_CardinalityType
  <1>2. Cardinality({}) = 0
    BY FS_EmptySet
  <1>3. \A S, x : IsFiniteSet(S) /\ x \notin S => Cardinality(S \cup {x}) = Cardinality(S) + 1
    BY FS_AddElement
  <1>4. \A S, x : IsFiniteSet(S) /\ x \in S => /\ Cardinality(S \ {x}) = Cardinality(S) - 1
                                             /\ Cardinality(S \ {x}) \in Nat
    BY FS_RemoveElement, FS_CardinalityType
  <1>5. \A S : \A T \in SUBSET S : IsFiniteSet(S) => IsFiniteSet(T)
    BY FS_Subset
  <1> QED
    BY Zenon, <1>1, <1>2, <1>3, <1>4, <1>5 DEF FiniteSetFacts

\* Without path units, whatever the units, their dependencies, the transactions
\* and the requests are: job_install(), job_finish_and_invalidate(), the run
\* queue and daemon-reload keep the job table and the units' job slots in
\* agreement, no queue or timer refers to a job that is gone, and
\* n_running_jobs is the number of running jobs.
THEOREM JobTableCorrect ==
    ASSUME Watched = {}
    PROVE  Spec => []JobTableConsistent
  <1>1. Inv /\ [Next]_vars => Inv'
    BY NextInv
  <1>2. Inv => JobTableConsistent
    BY DEF Inv, JobInv, JobTableConsistent
  <1>3. Init => Inv
    BY Zenon, FiniteSetFactsHold, InitInv
  <1> QED
    BY <1>1, <1>2, <1>3, PTL DEF Spec

\* In the same setting the state of the engine keeps its types: no handler
\* reads the record of a job that is gone, and n_running_jobs never drops
\* below zero (the assertion of job_set_state()).
THEOREM JobTypesCorrect ==
    ASSUME Watched = {}
    PROVE  Spec => []TypeOK
  <1>1. Inv /\ [Next]_vars => Inv'
    BY NextInv
  <1>2. Inv => TypeOK
    BY DEF Inv, JobInv
  <1>3. Init => Inv
    BY Zenon, FiniteSetFactsHold, InitInv
  <1> QED
    BY <1>1, <1>2, <1>3, PTL DEF Spec

LEMMA Wakeups ==
    ASSUME Watched = {}
    PROVE  Spec => [](Inv /\ BInv)
  <1>1. Inv /\ BInv /\ [Next]_vars => (Inv /\ BInv)'
    BY Zenon, NextInv, NextB
  <1>2. Init => Inv /\ BInv
    BY Zenon, FiniteSetFactsHold, InitInv, InitB
  <1> QED
    BY <1>1, <1>2, PTL DEF Spec

\* No wakeup is lost, for any number of units and jobs and any ordering between
\* them: between events a waiting job is queued, is held back by the job of a
\* unit it is ordered against, or its unit is busy (job_finish_and_invalidate()
\* and unit_notify() queue it again when that changes).
THEOREM NoWakeupLost ==
    ASSUME Watched = {}
    PROVE  Spec => []NoLostWakeup
  <1>1. Inv /\ BInv => NoLostWakeup
    BY Zenon, IdleFacts DEF NoLostWakeup
  <1> QED
    BY <1>1, Wakeups, PTL

\* Between events no running job waits for a state its unit is already in: what
\* job_run_and_invalidate() leaves running is settled by unit_process_job() or
\* by the return value of the unit method before the handler returns.
THEOREM RunningJobsPending ==
    ASSUME Watched = {}
    PROVE  Spec => []RunningJobPending
  <1>1. ASSUME Inv, BInv PROVE RunningJobPending
    <2>1. SUFFICES ASSUME Idle, NEW j \in RunningJobs
                   PROVE  LET s == ustate[jobs[j].unit] IN
                          CASE jobs[j].type \in {"start", "verify-active"} -> ~ActiveOrReloading(s)
                            [] jobs[j].type \in {"stop", "restart"} -> ~InactiveOrFailed(s)
                            [] jobs[j].type = "reload" -> s # "active"
      BY Zenon DEF RunningJobPending
    <2>2. j \in Installed /\ ~Arrived(j)
      BY Zenon, <1>1, <2>1, IdleFacts DEF RunningJobs
    <2>3. jobs[j].type \in MergingType
      BY Zenon, <1>1, <2>1, <2>2, Idles, InstalledFacts
    <2> QED
      BY Zenon, <2>2, <2>3 DEF Arrived, MergingType
  <1> QED
    BY <1>1, Wakeups, PTL

\* Between events every job that has a timeout has its timer, whatever merges,
\* retries and reloads it went through (job_start_timer(), job_coldplug()).
THEOREM TimersArmed ==
    ASSUME Watched = {}
    PROVE  Spec => []TimerArmed
  <1>1. Inv /\ BInv => TimerArmed
    BY Zenon, IdleFacts DEF TimerArmed
  <1> QED
    BY <1>1, Wakeups, PTL

\* systemd.unit(5), Before=/After=, for every set of units and every ordering: a
\* job that starts its unit does so when no job of a unit it is ordered after is
\* left, and a job changes the state of its unit when no unit ordered after it
\* is still to be stopped (job_is_runnable(), job_compare()).
THEOREM OrderAlwaysRespected ==
    ASSUME Watched = {}
    PROVE  Spec => OrderRespected
  <1> DEFINE Others(S) == {v \in S : slot[v] # None /\ ~jobs[slot[v]].ignore_order}
             A(u) == /\ jobs[slot[u]].type = "start" => Others(After(u)) = {}
                     /\ \A v \in Others(Before(u)) :
                          jobs[slot[v]].type \notin {"stop", "restart"}
             D == Top("dispatch") => \A u \in Unit :
                    ustate'[u] # ustate[u] /\ ~jobs[slot[u]].ignore_order => A(u)
  <1>1. ASSUME Inv, [Next]_vars PROVE [D]_vars
    <2>1. SUFFICES ASSUME Next, Top("dispatch"), NEW u \in Unit, ustate'[u] # ustate[u],
                          ~jobs[slot[u]].ignore_order
                   PROVE  A(u)
      BY Zenon, <1>1
    <2> HIDE DEF A
    <2>2. JobInv /\ TypeOK /\ runq \subseteq Installed
      BY Zenon, <1>1 DEF Inv, JobInv, QueuesInstalled
    <2>3. PICK j \in runq : RunJob(j, stack)
      BY Zenon, <2>1, OnlyDispatch DEF DispatchStep, uvars
    <2>4. j \in Installed
      BY <2>2, <2>3
    <2>5. /\ job_is_runnable(j)
          /\ \E ns : ustate' = IF ns = None THEN ustate
                               ELSE [ustate EXCEPT ![jobs[j].unit] = ns]
      BY Zenon, <2>1, <2>3 DEF RunJob
    <2>6. jobs[j].unit = u
      BY <2>1, <2>2, <2>5 DEF TypeOK
    <2>7. slot[u] = j
      BY Zenon, <2>2, <2>4, <2>6, InstalledFacts
    <2>8. After(u) \subseteq Unit /\ Before(u) \subseteq Unit
      BY Zenon, NeighbourUnits
    <2>9. ASSUME NEW v \in Others(After(u))
          PROVE  jobs[j].type \in {"stop", "restart"}
      <3>1. v \in Unit /\ v \in After(u) /\ slot[v] # None /\ ~jobs[slot[v]].ignore_order
        BY <2>8, <2>9
      <3> QED
        BY Zenon, <2>1, <2>2, <2>4, <2>5, <2>6, <2>7, <3>1, RunnableMeans
    <2>10. ASSUME NEW v \in Others(Before(u))
           PROVE  jobs[slot[v]].type \notin {"stop", "restart"}
      <3>1. v \in Unit /\ v \in Before(u) /\ slot[v] # None /\ ~jobs[slot[v]].ignore_order
        BY <2>8, <2>10
      <3> QED
        BY Zenon, <2>1, <2>2, <2>4, <2>5, <2>6, <2>7, <3>1, RunnableMeans
    <2>11. jobs[j].type = "start" => Others(After(u)) = {}
      BY <2>9
    <2> QED
      BY Zenon, <2>7, <2>10, <2>11 DEF A
  <1>2. Spec => []Inv
    BY Wakeups, PTL
  <1>3. [][D]_vars => OrderRespected
    BY Zenon DEF OrderRespected
  <1> HIDE DEF D
  <1> QED
    BY <1>1, <1>2, <1>3, PTL DEF Spec

LEMMA Applications ==
    ASSUME Watched = {}
    PROVE  Spec => [](Inv /\ EInv)
  <1>1. Init => Inv /\ EInv
    <2>1. ASSUME Init PROVE EInv
      <3>1. stack \in Seq(Plain) /\ doomed = {}
        BY Zenon, <2>1, PlainStacks DEF Init
      <3> QED
        BY <3>1 DEF EInv, Shape, Falling
    <2> QED
      BY Zenon, <2>1, FiniteSetFactsHold, InitInv
  <1>2. (Inv /\ EInv) /\ [Next]_vars => (Inv /\ EInv)'
    BY NextInv, NextE
  <1> QED
    BY <1>1, <1>2, PTL DEF Spec

\* When a start job fails, the start jobs of everything that requires it, has
\* it as requisite or is bound to it are gone when the manager returns to its
\* event loop, for any graph of dependencies: the recursion of job_finish_and_
\* invalidate() and job_fail_dependencies() reaches them all, whatever the
\* OnFailure= jobs, retroactive starts and flushes in between do.
THEOREM RequirementsPropagate ==
    ASSUME Watched = {}
    PROVE  Spec => []RequirementPropagated
  <1>1. Inv /\ EInv => RequirementPropagated
    BY Zenon, IdleE DEF RequirementPropagated
  <1> QED
    BY <1>1, Applications, PTL

\* Nothing but a cancellation and the second half of an installation is above
\* the jobs that are left to install.
LEMMA UnderApplication ==
    ASSUME Inv, Shape, ApplyUnderway
    PROVE  stack # <<>> /\ Head(stack).op \in {"install", "place", "flush", "trigger", "requeue"}
  <1>1. stack \notin Seq(Plain)
    <2>1. ASSUME stack \in Seq(Plain), NEW i \in DOMAIN stack PROVE stack[i] \in Plain
      BY <2>1
    <2> QED
      BY Zenon, <2>1 DEF ApplyUnderway, Plain
  <1>2. ASSUME NEW g \in InstallFrame, NEW b \in Seq(Plain), NEW a \in Seq(Over(g)),
               Applying(stack, a, g, b)
        PROVE  stack # <<>> /\ Head(stack).op \in {"install", "place", "flush", "trigger", "requeue"}
    <2>1. stack # <<>> /\ (Head(stack) = g \/ Head(stack) \in Over(g))
      BY Zenon, <1>2, ApplyingTop
    <2> QED
      BY Zenon, <2>1 DEF InstallFrame, Over
  <1> QED
    BY Zenon, <1>1, <1>2 DEF Shape

\* Without path units, for any graph of dependencies and any transactions: from
\* the check of transaction_is_destructive() to the last job transaction_apply()
\* installs, an irreversible job goes only in the loop of the modes isolate and
\* flush; neither an installation that replaces or merges jobs nor what follows
\* a cancellation takes one away.
THEOREM IrreversibleJobsStay ==
    ASSUME Watched = {}
    PROVE  Spec => IrreversibleKept
  <1> DEFINE K == ApplyUnderway /\ ~Top("flush") =>
                    \A j \in Installed : jobs[j].irreversible => jobs'[j] # None
  <1>1. ASSUME Inv, EInv, [Next]_vars PROVE [K]_vars
    <2>1. SUFFICES ASSUME Next, ApplyUnderway, ~Top("flush"), NEW j \in Installed,
                          jobs[j].irreversible
                   PROVE  jobs'[j] # None
      BY Zenon, <1>1
    <2>2. /\ JobInv /\ TypeOK /\ j \in Job /\ jobs[j] # None
      BY <1>1, InstalledFacts DEF Inv, JobInv
    <2>3. ASSUME NEW u, NEW t, NEW f, NEW rest, PlaceJob(u, t, f, rest)
          PROVE  jobs'[j] # None
      <3>1. PICK i \in Job : \E r : jobs[i] = None /\ jobs' = [jobs EXCEPT ![i] = r]
        BY Zenon, <2>3 DEF PlaceJob, FreeId
      <3> QED
        BY <2>2, <3>1 DEF TypeOK
    <2>4. CASE Top("place")
      <3>1. HandlerStep /\ Head(stack).op = "place"
        BY Zenon, <2>1, <2>4, OnlyTop DEF Top
      <3>2. PlaceStep
        BY Zenon, <3>1 DEF HandlerStep, FailStep, RequeueStep, AddsStep, FlushStep, InstallStep,
           DispatchStep, NotifyStep, BindsStep, TriggerStep, PathStep, RanStep, ClearStep,
           ColdplugStep, Top
      <3> QED
        BY Zenon, <2>3, <3>2 DEF PlaceStep
    <2>5. CASE Top("install")
      <3>1. HandlerStep /\ Head(stack).op = "install"
        BY Zenon, <2>1, <2>5, OnlyTop DEF Top
      <3>2. InstallStep
        BY Zenon, <3>1 DEF HandlerStep, FailStep, RequeueStep, AddsStep, FlushStep, PlaceStep,
           DispatchStep, NotifyStep, BindsStep, TriggerStep, PathStep, RanStep, ClearStep,
           ColdplugStep, Top
      <3>3. PICK g \in InstallFrame : Head(stack) = g /\ StillFine(g)
        BY Zenon, <1>1, <2>5, InstallTop DEF EInv
      <3>4. CASE UNCHANGED <<uvars, jvars>>
        BY <2>2, <3>4 DEF jvars
      <3>5. ASSUME NEW p \in g.left, NEW rest, job_install(p[1], p[2], g, rest)
            PROVE  jobs'[j] # None
        <4>1. p[1] \in Unit /\ p[2] \in MergingType
          <5>1. g.left \subseteq Unit \X MergingType
            BY Zenon DEF InstallFrame, Frame
          <5> QED
            BY <5>1
        <4>2. CASE slot[p[1]] = None
          BY Zenon, <2>3, <3>5, <4>2 DEF job_install
        <4>3. CASE slot[p[1]] # None /\ job_type_is_conflicting(jobs[slot[p[1]]].type, p[2])
          <5>1. PICK i \in Installed : i = slot[p[1]]
            BY Zenon, <2>2, <4>1, <4>3, SlotInstalled
          <5>2. \E r : job_finish_and_invalidate(i, "canceled", FALSE, r)
            BY Zenon, <3>5, <4>3, <5>1 DEF job_install
          <5>3. jobs' = [jobs EXCEPT ![i] = None]
            BY Zenon, <1>1, <5>2, CancelIs
          <5>4. i # j
            BY Zenon, <2>1, <3>3, <4>3, <5>1 DEF StillFine
          <5> QED
            BY <2>2, <5>3, <5>4 DEF TypeOK
        <4>4. CASE slot[p[1]] # None /\ ~job_type_is_conflicting(jobs[slot[p[1]]].type, p[2])
          <5>1. MergeIntoInstalled(slot[p[1]], p[2], g, rest)
            BY Zenon, <3>5, <4>4 DEF job_install
          <5>2. slot[p[1]] \in Installed
            BY Zenon, <2>2, <4>1, <4>4, SlotInstalled
          <5>3. slot[p[1]] \in runq'
            BY Zenon, <5>1 DEF MergeIntoInstalled
          <5>4. runq' \subseteq Installed'
            BY <1>1, NextInv DEF Inv, JobInv, QueuesInstalled
          <5>5. jobs'[slot[p[1]]] # None
            BY <5>3, <5>4 DEF Installed
          <5>6. j # slot[p[1]] => jobs'[j] = jobs[j]
            BY <2>2, <5>1, <5>2 DEF MergeIntoInstalled, TypeOK
          <5> QED
            BY Zenon, <2>2, <5>5, <5>6
        <4> QED
          BY Zenon, <4>2, <4>3, <4>4
      <3> QED
        BY Zenon, <3>2, <3>3, <3>4, <3>5 DEF InstallStep
    <2>6. CASE Top("trigger") \/ Top("requeue")
      <3>1. HandlerStep /\ Head(stack).op \in {"trigger", "requeue"}
        BY Zenon, <2>1, <2>6, OnlyTop DEF Top
      <3>2. TriggerStep \/ RequeueStep
        BY Zenon, <3>1 DEF HandlerStep, FailStep, AddsStep, FlushStep, InstallStep, PlaceStep,
           DispatchStep, NotifyStep, BindsStep, PathStep, RanStep, ClearStep, ColdplugStep, Top
      <3>3. CASE RequeueStep
        BY Zenon, <2>2, <3>3 DEF RequeueStep
      <3>4. CASE TriggerStep
        <4>1. PathSet(Head(stack).unit, path[Head(stack).unit], Tail(stack))
          BY <3>4 DEF TriggerStep
        <4>2. jobs' = jobs
          BY Zenon, <4>1 DEF PathSet, jvars
        <4> QED
          BY Zenon, <2>2, <4>2
      <3> QED
        BY Zenon, <3>2, <3>3, <3>4
    <2>7. stack # <<>> /\ Head(stack).op \in {"install", "place", "flush", "trigger", "requeue"}
      BY Zenon, <1>1, <2>1, UnderApplication DEF EInv
    <2> QED
      BY Zenon, <2>1, <2>4, <2>5, <2>6, <2>7 DEF Top
  <1>2. [][K]_vars => IrreversibleKept
    BY Zenon DEF IrreversibleKept
  <1> HIDE DEF K
  <1> QED
    BY <1>1, <1>2, Applications, PTL DEF Spec

-----------------------------------------------------------------------------
(* Merging, for every sequence of merges of any length.                    *)

\* The strengthening that makes OrderIrrelevant inductive: the merged types
\* are never empty and a stop stands alone among them.
MergeInv == MergeTypeOK /\ merged # {} /\ StopNeverAbsorbed /\ OrderIrrelevant /\ RefusalExplained

\* Merging two mergeable types and collapsing gives a type the table accepts
\* again ("to get rid of the JOB_RELOAD_OR_START").
LEMMA MergeableTyped ==
    ASSUME NEW a \in MergingType, NEW b \in MergingType, NEW s \in ActiveState,
           job_type_is_mergeable(a, b)
    PROVE  job_type_merge_and_collapse(a, b, s) \in MergingType
BY DEF MergingType, ActiveState, job_type_is_mergeable, NoMerge,
       job_type_merge_and_collapse, job_type_collapse, job_type_lookup_merge,
       ActiveOrReloading

\* Two types can be merged exactly when they are equal or neither is a stop.
LEMMA MergeableIff ==
    ASSUME NEW a \in MergingType, NEW b \in MergingType
    PROVE  job_type_is_mergeable(a, b) <=> a = b \/ (a # "stop" /\ b # "stop")
BY DEF MergingType, job_type_is_mergeable, NoMerge, job_type_lookup_merge

\* The type of the merged job is a function of the set of merged types, a stop
\* is never absorbed and every refusal is explained, whatever the order and the
\* number of the merges.
THEOREM MergeCorrect == MergeSpec => [](OrderIrrelevant /\ StopNeverAbsorbed /\ RefusalExplained)
<1>1. MergeInit => MergeInv
  BY DEF MergeInit, MergeInv, MergeTypeOK, MergingType, OrderIrrelevant, StopNeverAbsorbed,
         RefusalExplained, MergeOf
<1>2. MergeInv /\ [MergeNext]_mergeVars => MergeInv'
  <2> SUFFICES ASSUME MergeInv, [MergeNext]_mergeVars PROVE MergeInv'
    OBVIOUS
  <2>1. CASE UNCHANGED mergeVars
    BY <2>1 DEF MergeInv, mergeVars, MergeTypeOK, OrderIrrelevant, StopNeverAbsorbed, RefusalExplained
  <2>2. ASSUME NEW t \in MergingType, Merge(t) PROVE MergeInv'
    <3>1. MergeTypeOK' /\ merged' # {}
      BY <2>2, MergeableTyped DEF MergeInv, Merge, MergeTypeOK
    <3>2. type = "stop" <=> merged = {"stop"}
      BY DEF MergeInv, MergeTypeOK, MergingType, OrderIrrelevant, StopNeverAbsorbed, MergeOf
    <3>3. type = t \/ (type # "stop" /\ t # "stop")
      BY <2>2, MergeableIff DEF Merge, MergeInv, MergeTypeOK
    <3>4. StopNeverAbsorbed'
      BY <2>2, <3>2, <3>3 DEF MergeInv, StopNeverAbsorbed, Merge
    <3>5. OrderIrrelevant'
      <4>0. /\ type = MergeOf(merged, state)
            /\ merged \subseteq MergingType /\ merged # {} /\ type \in MergingType
            /\ "stop" \in merged => merged = {"stop"}
            /\ type = t \/ (type # "stop" /\ t # "stop")
            /\ type = "stop" <=> merged = {"stop"}
            /\ merged' = merged \cup {t} /\ state' = state
            /\ type' = job_type_collapse(job_type_lookup_merge(type, t), state)
        BY <2>2, <3>2, <3>3
        DEF MergeInv, MergeTypeOK, Merge, OrderIrrelevant, StopNeverAbsorbed,
            job_type_merge_and_collapse
      <4> SUFFICES type' = MergeOf(merged', state')
        BY DEF OrderIrrelevant
      <4>1. CASE t = "stop"
        BY ZenonT(60), <4>0, <4>1 DEF MergeOf, MergingType, job_type_collapse, job_type_lookup_merge
      <4>2. CASE t = "restart"
        BY ZenonT(60), <4>0, <4>2 DEF MergeOf, MergingType, job_type_collapse, job_type_lookup_merge
      <4>3. CASE t = "start"
        BY ZenonT(60), <4>0, <4>3 DEF MergeOf, MergingType, job_type_collapse, job_type_lookup_merge
      <4>4. CASE t = "reload"
        BY ZenonT(60), <4>0, <4>4 DEF MergeOf, MergingType, job_type_collapse, job_type_lookup_merge
      <4>5. CASE t = "verify-active"
        BY ZenonT(60), <4>0, <4>5 DEF MergeOf, MergingType, job_type_collapse, job_type_lookup_merge
      <4> QED
        BY <4>1, <4>2, <4>3, <4>4, <4>5 DEF MergingType
    <3>6. RefusalExplained'
      BY <2>2 DEF MergeInv, RefusalExplained, Merge
    <3> QED
      BY <3>1, <3>4, <3>5, <3>6 DEF MergeInv
  <2>3. ASSUME NEW t \in MergingType, Refuse(t) PROVE MergeInv'
    <3>1. type # t /\ (type = "stop" \/ t = "stop")
      BY <2>3, MergeableIff DEF Refuse, MergeInv, MergeTypeOK
    <3>2. \E m \in merged : ~job_type_is_mergeable(m, t)
      <4>1. CASE type = "stop"
        <5>1. "stop" \in merged
          BY <4>1 DEF MergeInv, MergeTypeOK, MergingType, OrderIrrelevant, StopNeverAbsorbed, MergeOf
        <5> QED
          BY <3>1, <4>1, <5>1, MergeableIff DEF MergeInv, MergeTypeOK, MergingType
      <4>2. CASE t = "stop"
        <5>1. PICK m \in merged : TRUE
          BY DEF MergeInv
        <5>2. "stop" \notin merged
          BY <3>1, <4>2 DEF MergeInv, OrderIrrelevant, StopNeverAbsorbed, MergeOf
        <5> QED
          BY <4>2, <5>1, <5>2, MergeableIff DEF MergeInv, MergeTypeOK
      <4> QED
        BY <3>1, <4>1, <4>2
    <3> QED
      BY <2>3, <3>2
      DEF MergeInv, MergeTypeOK, Refuse, OrderIrrelevant, StopNeverAbsorbed, RefusalExplained
  <2> QED
    BY <2>1, <2>2, <2>3 DEF MergeNext
<1>3. MergeInv => OrderIrrelevant /\ StopNeverAbsorbed /\ RefusalExplained
  BY DEF MergeInv
<1> QED
  BY <1>1, <1>2, <1>3, PTL DEF MergeSpec

\* A request to stop never disappears in a merged job, whatever is merged in
\* whatever order (the -1 entries of job_merging_table).
THEOREM StopKept == MergeSpec => []StopNeverAbsorbed
  BY MergeCorrect, PTL

\* What a merged job refuses, a job it was merged from refuses: merging first
\* never closes a way that was open before (the comment of job_merging_table).
THEOREM RefusalSound == MergeSpec => []RefusalExplained
  BY MergeCorrect, PTL
=============================================================================
