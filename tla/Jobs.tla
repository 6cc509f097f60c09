-------------------------------- MODULE Jobs --------------------------------
(***************************************************************************)
(* The job engine of the service manager: installed jobs, the run queue,   *)
(* running and finishing jobs, the reaction of a job to a state change of  *)
(* its unit, job timeouts, job garbage collection and daemon-reload        *)
(* (src/core/job.c, the job half of unit.c, transaction_apply() and the    *)
(* queues of manager.c).                                                   *)
(*                                                                         *)
(* The manager is one thread.  A handler that calls other handlers (a job  *)
(* that finishes fails the jobs that depend on it, starts OnFailure=       *)
(* units, wakes path units up, ...) is modelled with the stack of the      *)
(* calls still to be made: while it is not empty only its top is taken,    *)
(* so a handler is never interleaved with an event, and the order of its   *)
(* effects is the order of the code.                                       *)
(*                                                                         *)
(* Which jobs a request turns into is decided by the transaction code      *)
(* (module Transaction); here a transaction is one of a given set.  How a  *)
(* unit reacts to start, stop and reload is up to its type; here it is any *)
(* reaction the unit vtable allows.                                        *)
(***************************************************************************)
EXTENDS JobTypes, Sequences, FiniteSets

CONSTANTS
    Unit,           \* the loaded units
    Job,            \* job identifiers; an identifier is reused once it is free
    None,           \* no job
    Dep,            \* Dep[d][u]: the units listed in u->dependencies[d]
    Device,         \* units without start and stop methods, with gc_jobs set
    Reloadable,     \* units for which unit_can_reload() holds
    Watched,        \* units triggered by a path unit
    JobTimeout,     \* units with JobTimeoutSec=
    RunningTimeout, \* units with JobRunningTimeoutSec=
    IgnoreOnIsolate,\* units with IgnoreOnIsolate=
    Transactions,   \* [anchor, type, jobs]: what a request can be turned into
    Modes,          \* the job modes clients use
    EnvStep,        \* <<s, t>>: a unit may go from s to t by itself
    MaxRequests     \* bound on the client requests of a behaviour

DepType == {"after", "required_by", "requisite_of", "bound_by", "wanted_by",
            "conflicted_by", "on_failure"}

ASSUME DepAssumption == Dep \in [DepType -> [Unit -> SUBSET Unit]]
ASSUME JobAssumption == None \notin Job /\ IsFiniteSet(Job)
ASSUME UnitSetsAssumption ==
    {Device, Reloadable, Watched, JobTimeout, RunningTimeout, IgnoreOnIsolate}
        \subseteq SUBSET Unit
ASSUME TransactionAssumption ==
    Transactions \subseteq [anchor : Unit, type : MergingType,
                            jobs : SUBSET (Unit \X MergingType)]
\* As the transaction code leaves them: one job per unit (merging), and a start
\* or a stop pulls in no reload and no restart.
ASSUME SingleAssumption ==
    \A tr \in Transactions : \A p, q \in tr.jobs : p[1] = q[1] => p = q
ASSUME PulledAssumption ==
    \A tr \in Transactions : tr.type \in {"start", "stop"} =>
        \A p \in tr.jobs : p[2] \in {"start", "stop", "verify-active"}
ASSUME EnvAssumption == EnvStep \subseteq ActiveState \X ActiveState
ASSUME BoundAssumption == MaxRequests \in Nat

VARIABLES
    ustate,  \* unit_active_state() of every unit
    jobs,    \* Manager.jobs: the record of every installed job, None if free
    slot,    \* Unit.job
    runq,    \* Manager.run_queue, a set: its priorities are not modelled
    gcq,     \* Manager.gc_job_queue
    armed,   \* jobs with a timer_event_source
    nrun,    \* Manager.n_running_jobs
    path,    \* the state of the path unit that triggers a watched unit
    stack,   \* the calls the current handler still has to make
    nreq,    \* client requests so far
    doomed   \* history: start jobs that must fall with the job they require

uvars == <<ustate, path>>
jvars == <<jobs, slot, runq, gcq, armed, nrun, doomed>>
vars == <<uvars, jvars, stack, nreq>>

-----------------------------------------------------------------------------
(* Dependencies.                                                           *)

\* The inverse every dependency is stored with (Before= of After=, ...).
InverseDep(d, u) == {v \in Unit : u \in Dep[d][v]}

After(u) == Dep["after"][u]
Before(u) == InverseDep("after", u)

\* A faulty variant: only one direction is looked at.
NeighboursAfter(u) == After(u)

Neighbours(u) == After(u) \cup Before(u)

-----------------------------------------------------------------------------
(* Types.                                                                  *)

JobRec == [unit : Unit, type : MergingType, state : {"waiting", "running"},
           irreversible : BOOLEAN, ignore_order : BOOLEAN, began : BOOLEAN]

Result == {"done", "canceled", "timeout", "failed", "dependency", "skipped",
           "invalid", "assert", "collected"}

Errno == {"OK", "EALREADY", "EAGAIN", "ECOMM", "EBADR", "ENOEXEC", "EPROTO",
          "ENOLINK", "ECANCELED"}

Mode == {"fail", "replace", "replace-irreversibly", "flush", "ignore-dependencies"}

NotifyFlag == {"reload-failure", "skip-condition", "will-auto-restart"}

Req == [type : {"start", "stop"}, unit : Unit, mode : Mode]

ASSUME NoneAssumption == None \notin JobRec /\ None \notin ActiveState

\* The calls a handler can still have to make.
Frame ==
    [op : {"fail", "flush", "coldplug"}, units : SUBSET Unit]
    \cup [op : {"adds"}, reqs : SUBSET Req]
    \cup [op : {"install"}, left : SUBSET (Unit \X MergingType),
          irreversible : BOOLEAN, ignore_order : BOOLEAN]
    \cup [op : {"place"}, unit : Unit, type : MergingType,
          irreversible : BOOLEAN, ignore_order : BOOLEAN]
    \cup [op : {"requeue", "trigger", "binds", "path"}, unit : Unit]
    \cup [op : {"notify"}, unit : Unit, os : ActiveState, ns : ActiveState,
          flags : SUBSET NotifyFlag]
    \cup [op : {"ran"}, job : Job, r : Errno]
    \cup [op : {"dispatch", "clear"}]

TypeOK ==
    /\ ustate \in [Unit -> ActiveState]
    /\ jobs \in [Job -> JobRec \cup {None}]
    /\ slot \in [Unit -> Job \cup {None}]
    /\ runq \in SUBSET Job
    /\ gcq \in SUBSET Job
    /\ armed \in SUBSET Job
    /\ nrun \in Nat
    /\ path \in [Unit -> {"dead", "waiting", "running"}]
    /\ stack \in Seq(Frame)
    /\ nreq \in 0..MaxRequests
    /\ doomed \in SUBSET Job

Idle == stack = <<>>
Top(op) == stack # <<>> /\ Head(stack).op = op
Installed == {j \in Job : jobs[j] # None}

Init ==
    /\ ustate = [u \in Unit |-> "inactive"]
    /\ jobs = [j \in Job |-> None]
    /\ slot = [u \in Unit |-> None]
    /\ runq = {} /\ gcq = {} /\ armed = {}
    /\ nrun = 0
    /\ path \in [Unit -> {"dead"}]
    /\ stack = <<>>
    /\ nreq = 0
    /\ doomed = {}

-----------------------------------------------------------------------------
(* Ordering and garbage collection of jobs.                                *)

\* A faulty variant: the stop of a unit does not wait for what depends on it.
RunnableAfterOnly(j) ==
    \A v \in After(jobs[j].unit) : slot[v] # None =>
        job_compare(jobs[j], jobs[slot[v]], "after") <= 0

\* No job of a unit this one is ordered against has to run first.
job_is_runnable(j) ==
    LET u == jobs[j].unit IN
    \/ jobs[j].ignore_order
    \/ /\ \A v \in After(u) : slot[v] # None =>
             job_compare(jobs[j], jobs[slot[v]], "after") <= 0
       /\ \A v \in Before(u) : slot[v] # None =>
             job_compare(jobs[j], jobs[slot[v]], "before") <= 0

\* A device job nothing waits for, in the jobs js and slots sl.  (The bus
\* clients that track a job are not modelled: nobody tracks it.)
job_may_gc(js, sl, j) ==
    LET u == js[j].unit IN
    /\ u \in Device
    /\ \A v \in Before(u) : sl[v] # None => job_compare(js[j], js[sl[v]], "before") >= 0
    /\ \A v \in After(u) : sl[v] # None => job_compare(js[j], js[sl[v]], "after") >= 0

\* The jobs of J that job_add_to_gc_queue() would queue.
Collectable(js, sl, J) == {j \in J : job_may_gc(js, sl, j)}

-----------------------------------------------------------------------------
(* The calls a handler makes.                                              *)

FailDependencies(S) == [op |-> "fail", units |-> S]
CancelJobs(S) == [op |-> "flush", units |-> S]
AddJobs(R) == [op |-> "adds", reqs |-> R]
Requeue(u) == [op |-> "requeue", unit |-> u]
TriggerNotify(u) == [op |-> "trigger", unit |-> u]
PathRunning(u) == [op |-> "path", unit |-> u]
CheckBindsTo(u) == [op |-> "binds", unit |-> u]
Notify(u, os, ns, fl) == [op |-> "notify", unit |-> u, os |-> os, ns |-> ns, flags |-> fl]
Ran(j, e) == [op |-> "ran", job |-> j, r |-> e]

\* unit_start_on_failure(): every OnFailure= unit is started.
OnFailure(u) == AddJobs({[type |-> "start", unit |-> v, mode |-> "replace"] :
                            v \in Dep["on_failure"][u]})

\* A faulty variant: BindsTo= is forgotten.
DependentsButBound(u, t, result) ==
    IF result # "done" /\ t \in {"start", "verify-active"}
    THEN <<FailDependencies(Dep["required_by"][u] \cup Dep["requisite_of"][u])>>
    ELSE <<>>

\* The dependents whose start jobs fall with a job of type t that ended in
\* result, in the order job_finish_and_invalidate() takes them.
DependentsToFail(u, t, result) ==
    CASE result # "done" /\ t \in {"start", "verify-active"} ->
            <<FailDependencies(Dep["required_by"][u]),
              FailDependencies(Dep["requisite_of"][u]),
              FailDependencies(Dep["bound_by"][u])>>
      [] result # "done" /\ t = "stop" ->
            <<FailDependencies(Dep["conflicted_by"][u])>>
      [] result = "done" /\ t \in {"start", "reload"} /\ ~ActiveOrReloading(ustate[u]) ->
            <<FailDependencies(Dep["requisite_of"][u])>>
      [] OTHER -> <<>>

\* What is left to do once the job is gone.
AfterFinish(u, t, result, recursive) ==
    (IF recursive THEN DependentsToFail(u, t, result) ELSE <<>>)
    \o (IF result \in {"timeout", "dependency"} THEN <<OnFailure(u)>> ELSE <<>>)
    \o <<TriggerNotify(u), Requeue(u)>>

\* The start jobs that fall with a job, as documented: what requires, has as
\* requisite or is bound to a unit does not start when the unit's start job
\* fails, and what has it as requisite not when it did not come up either.
MustFail(u, t, result) ==
    LET S == CASE result # "done" /\ t \in {"start", "verify-active"} ->
                    Dep["required_by"][u] \cup Dep["requisite_of"][u] \cup Dep["bound_by"][u]
               [] result = "done" /\ t = "start" /\ ~ActiveOrReloading(ustate[u]) ->
                    Dep["requisite_of"][u]
               [] OTHER -> {}
    IN {slot[v] : v \in {w \in S : /\ slot[w] \notin {None, slot[u]}
                                   /\ jobs[slot[w]].type \in {"start", "verify-active"}}}

\* Faulty variants: leaving any state, or none, is counted.
UncountAlways(j) == nrun - 1
UncountNever(j) == nrun

\* job_set_state(j, JOB_WAITING) and Manager.n_running_jobs.
Uncount(j) == IF jobs[j].state = "running" THEN nrun - 1 ELSE nrun

\* A restart whose stop half is done becomes a start that waits.
PatchRestart(j, rest) ==
    /\ jobs' = [jobs EXCEPT ![j].type = "start", ![j].state = "waiting"]
    /\ nrun' = Uncount(j)
    /\ runq' = runq \cup {j}
    /\ gcq' = gcq \cup Collectable(jobs', slot, {j})
    /\ stack' = <<Requeue(jobs[j].unit)>> \o rest
    /\ UNCHANGED <<slot, armed, doomed>>

job_unlink(j) ==
    /\ runq' = runq \ {j}
    /\ gcq' = gcq \ {j}
    /\ armed' = armed \ {j}

\* job_uninstall() and job_free(), then what depends on the job.
UninstallJob(j, result, recursive, rest) ==
    LET u == jobs[j].unit IN
    /\ jobs' = [jobs EXCEPT ![j] = None]
    /\ slot' = [slot EXCEPT ![u] = None]
    /\ nrun' = Uncount(j)
    /\ job_unlink(j)
    /\ doomed' = (doomed \ {j})
                 \cup (IF recursive THEN MustFail(u, jobs[j].type, result) ELSE {})
    /\ stack' = AfterFinish(u, jobs[j].type, result, recursive) \o rest

job_finish_and_invalidate(j, result, recursive, rest) ==
    /\ IF result = "done" /\ jobs[j].type = "restart"
       THEN PatchRestart(j, rest)
       ELSE UninstallJob(j, result, recursive, rest)
    /\ UNCHANGED uvars

\* job_fail_dependencies(): one dependent after the other, in any order.
FailStep ==
    LET f == Head(stack) IN
    /\ Top("fail")
    /\ UNCHANGED nreq
    /\ \/ /\ f.units = {}
          /\ stack' = Tail(stack)
          /\ UNCHANGED <<uvars, jvars>>
       \/ \E v \in f.units :
            LET rest == <<FailDependencies(f.units \ {v})>> \o Tail(stack) IN
            IF slot[v] # None /\ jobs[slot[v]].type \in {"start", "verify-active"}
            THEN job_finish_and_invalidate(slot[v], "dependency", TRUE, rest)
            ELSE /\ stack' = rest
                 /\ UNCHANGED <<uvars, jvars>>

\* The jobs of the units ordered against this one may be runnable now.
RequeueStep ==
    LET J == {slot[v] : v \in Neighbours(Head(stack).unit)} \ {None} IN
    /\ Top("requeue")
    /\ runq' = runq \cup J
    /\ gcq' = gcq \cup Collectable(jobs, slot, J)
    /\ stack' = Tail(stack)
    /\ UNCHANGED <<uvars, jobs, slot, armed, nrun, doomed, nreq>>

-----------------------------------------------------------------------------
(* Applying a transaction.                                                 *)

\* A faulty variant: only the mode is looked at.
DestructiveModeOnly(J, mode) ==
    \E p \in J : /\ slot[p[1]] # None
                 /\ mode = "fail"
                 /\ job_type_is_conflicting(jobs[slot[p[1]]].type, p[2])

\* transaction_is_destructive(): an installed job would be cancelled that
\* must not be.
Destructive(J, mode) ==
    \E p \in J : /\ slot[p[1]] # None
                 /\ mode = "fail" \/ jobs[slot[p[1]]].irreversible
                 /\ job_type_is_conflicting(jobs[slot[p[1]]].type, p[2])

\* The frames of transaction_apply().
ApplyFrames(J, mode) ==
    (IF mode = "flush"
     THEN <<CancelJobs(Unit \ (IgnoreOnIsolate \cup {p[1] : p \in J}))>>
     ELSE <<>>)
    \o <<[op |-> "install", left |-> J, irreversible |-> mode = "replace-irreversibly",
          ignore_order |-> mode = "ignore-dependencies"]>>

\* manager_add_job(): the request is refused, or it is turned into a
\* transaction that is then applied.
manager_add_job(type, u, mode, rest) ==
    /\ \/ stack' = rest
       \/ \E tr \in Transactions :
            /\ tr.anchor = u /\ tr.type = type
            /\ ~Destructive(tr.jobs, mode)
            /\ stack' = ApplyFrames(tr.jobs, mode) \o rest
    /\ UNCHANGED <<uvars, jvars>>

\* The jobs enqueued by a handler, one after the other, in any order.
AddsStep ==
    LET f == Head(stack) IN
    /\ Top("adds")
    /\ UNCHANGED nreq
    /\ \/ /\ f.reqs = {}
          /\ stack' = Tail(stack)
          /\ UNCHANGED <<uvars, jvars>>
       \/ \E q \in f.reqs :
            manager_add_job(q.type, q.unit, q.mode,
                            <<AddJobs(f.reqs \ {q})>> \o Tail(stack))

\* The jobs outside the transaction are cancelled first, in one pass over the
\* table of jobs.  A job installed meanwhile lands anywhere in the table: the
\* pass meets it or not.
FlushStep ==
    LET S == Head(stack).units IN
    /\ Top("flush")
    /\ UNCHANGED nreq
    /\ \/ /\ S = {}
          /\ stack' = Tail(stack)
          /\ UNCHANGED <<uvars, jvars>>
       \/ \E u \in S :
            \/ /\ slot[u] # None
               /\ \E left \in {S, S \ {u}} :
                    job_finish_and_invalidate(slot[u], "canceled", FALSE,
                                              <<CancelJobs(left)>> \o Tail(stack))
            \/ /\ slot[u] = None
               /\ stack' = <<CancelJobs(S \ {u})>> \o Tail(stack)
               /\ UNCHANGED <<uvars, jvars>>

\* Running, and doing t as well needs another run.
RunsAgain(j, t) ==
    /\ jobs[j].state = "running"
    /\ ~(job_type_allows_late_merge(t) /\ job_type_is_superset(jobs[j].type, t))

\* job_merge_into_installed(), and back to waiting unless a late merge is safe.
MergedJob(j, t, f) ==
    [jobs[j] EXCEPT !.type = job_type_merge_and_collapse(@, t, ustate[jobs[j].unit]),
                    !.state = IF RunsAgain(j, t) THEN "waiting" ELSE @,
                    !.irreversible = @ \/ f.irreversible,
                    !.ignore_order = @ \/ f.ignore_order]

MergeIntoInstalled(j, t, f, rest) ==
    /\ jobs' = [jobs EXCEPT ![j] = MergedJob(j, t, f)]
    /\ nrun' = IF RunsAgain(j, t) THEN nrun - 1 ELSE nrun
    /\ runq' = runq \cup {j}
    /\ armed' = IF jobs[j].unit \in JobTimeout THEN armed \cup {j} ELSE armed
    /\ stack' = rest
    /\ UNCHANGED <<uvars, slot, gcq, doomed>>

\* A job identifier nothing refers to any more.
FreeId(j) == jobs[j] = None /\ \A i \in DOMAIN stack : stack[i].op = "ran" => stack[i].job # j

\* The rest of job_install(), and of the loop body of transaction_apply().
PlaceJob(u, t, f, rest) ==
    \E j \in Job :
       /\ FreeId(j)
       /\ jobs' = [jobs EXCEPT ![j] =
            [unit |-> u, type |-> t, state |-> "waiting", irreversible |-> f.irreversible,
             ignore_order |-> f.ignore_order, began |-> FALSE]]
       /\ slot' = [slot EXCEPT ![u] = j]
       /\ runq' = runq \cup {j}
       /\ gcq' = gcq \cup Collectable(jobs', slot', {j})
       /\ armed' = IF u \in JobTimeout THEN armed \cup {j} ELSE armed
       /\ stack' = rest
       /\ UNCHANGED <<uvars, nrun, doomed>>

\* A faulty variant: the slot is taken without a look at its job.
InstallOver(u, t, f, rest) == PlaceJob(u, t, f, rest)

\* job_install(): into a free slot, over a conflicting job, or merged.
job_install(u, t, f, rest) ==
    IF slot[u] = None THEN PlaceJob(u, t, f, rest)
    ELSE IF job_type_is_conflicting(jobs[slot[u]].type, t)
         THEN job_finish_and_invalidate(slot[u], "canceled", FALSE,
                <<[op |-> "place", unit |-> u, type |-> t, irreversible |-> f.irreversible,
                   ignore_order |-> f.ignore_order]>> \o rest)
         ELSE MergeIntoInstalled(slot[u], t, f, rest)

InstallStep ==
    LET f == Head(stack) IN
    /\ Top("install")
    /\ UNCHANGED nreq
    /\ \/ /\ f.left = {}
          /\ stack' = Tail(stack)
          /\ UNCHANGED <<uvars, jvars>>
       \/ \E p \in f.left :
            job_install(p[1], p[2], f, <<[f EXCEPT !.left = @ \ {p}]>> \o Tail(stack))

PlaceStep ==
    LET f == Head(stack) IN
    /\ Top("place")
    /\ PlaceJob(f.unit, f.type, f, Tail(stack))
    /\ UNCHANGED nreq

-----------------------------------------------------------------------------
(* A unit changes state.                                                   *)

\* unit_process_job(): how the job of a unit ends when the unit enters ns, or
\* "none" if it goes on.
JobOutcome(j, ns, flags) ==
    LET running == jobs[j].state = "running"
        ended == InactiveOrFailed(ns)
    IN
    CASE jobs[j].type \in {"start", "verify-active"} ->
            IF ActiveOrReloading(ns) THEN "done"
            ELSE IF ~running \/ ~ended THEN "none"
            ELSE IF ns = "failed" THEN "failed"
            ELSE IF "skip-condition" \in flags THEN "skipped" ELSE "done"
      [] jobs[j].type = "reload" ->
            IF ~running THEN "none"
            ELSE IF ns = "active"
                 THEN IF "reload-failure" \in flags THEN "failed" ELSE "done"
            ELSE IF ~ended THEN "none"
            ELSE IF ns = "failed" THEN "failed" ELSE "done"
      [] jobs[j].type \in {"stop", "restart"} ->
            IF ended THEN "done"
            ELSE IF running /\ ns # "deactivating" THEN "failed" ELSE "none"

\* The state change contradicts what the running job was to achieve.
Unexpected(j, ns) ==
    /\ jobs[j].state = "running"
    /\ CASE jobs[j].type \in {"start", "verify-active"} ->
              ~ActiveOrReloading(ns) /\ ns # "activating"
         [] jobs[j].type = "reload" -> ns \notin {"active", "activating", "reloading"}
         [] jobs[j].type \in {"stop", "restart"} ->
              ~InactiveOrFailed(ns) /\ ns # "deactivating"

Start(S, mode) == {[type |-> "start", unit |-> v, mode |-> mode] : v \in S}
Stop(S, mode) == {[type |-> "stop", unit |-> v, mode |-> mode] : v \in S}

\* The units of S whose state is one of P.
InState(S, P) == {v \in S : ustate[v] \in P}

RetroactivelyStart(u) ==
    LET down == InState(Unit \ After(u), {"inactive", "failed", "deactivating", "maintenance"})
        up == InState(Unit, {"active", "reloading", "activating", "maintenance"})
    IN Start((InverseDep("required_by", u) \cup InverseDep("bound_by", u)) \cap down, "replace")
       \cup Start(InverseDep("wanted_by", u) \cap down, "fail")
       \cup Stop((InverseDep("conflicted_by", u) \cup Dep["conflicted_by"][u]) \cap up, "replace")

RetroactivelyStop(u) ==
    Stop(InState(Dep["bound_by"][u], {"active", "reloading", "activating", "maintenance"}),
         "replace")

\* The calls unit_notify() makes after it has dealt with the unit's job.
AfterNotify(u, os, ns, flags, unexpected) ==
    <<AddJobs(IF unexpected /\ InactiveOrFailed(os) /\ ActiveOrActivating(ns)
              THEN RetroactivelyStart(u)
              ELSE IF unexpected /\ ActiveOrActivating(os) /\ InactiveOrDeactivating(ns)
              THEN RetroactivelyStop(u) ELSE {})>>
    \o (IF ns # os /\ ns = "failed" /\ "will-auto-restart" \notin flags
        THEN <<OnFailure(u)>> ELSE <<>>)
    \o <<TriggerNotify(u), CheckBindsTo(u)>>

\* unit_notify(), called after the unit has changed its state.
NotifyStep ==
    LET f == Head(stack)
        j == slot[f.unit]
        After1(unexpected) == AfterNotify(f.unit, f.os, f.ns, f.flags, unexpected)
    IN
    /\ Top("notify")
    /\ UNCHANGED nreq
    /\ IF j = None
       THEN /\ stack' = After1(TRUE) \o Tail(stack)
            /\ UNCHANGED <<uvars, jvars>>
       ELSE IF JobOutcome(j, f.ns, f.flags) # "none"
       THEN job_finish_and_invalidate(j, JobOutcome(j, f.ns, f.flags), TRUE,
                                      After1(Unexpected(j, f.ns)) \o Tail(stack))
       ELSE /\ runq' = IF jobs[j].state = "waiting" THEN runq \cup {j} ELSE runq
            /\ stack' = After1(Unexpected(j, f.ns)) \o Tail(stack)
            /\ UNCHANGED <<uvars, jobs, slot, gcq, armed, nrun, doomed>>

\* unit_check_binds_to(): stop a unit bound to one that is gone.  The rate
\* limit that may suppress the stop is the refusal of manager_add_job().
BindsStep ==
    LET u == Head(stack).unit IN
    /\ Top("binds")
    /\ UNCHANGED nreq
    /\ IF /\ slot[u] = None /\ ustate[u] = "active"
          /\ \E v \in InverseDep("bound_by", u) : slot[v] = None /\ InactiveOrFailed(ustate[v])
       THEN manager_add_job("stop", u, "fail", Tail(stack))
       ELSE /\ stack' = Tail(stack)
            /\ UNCHANGED <<uvars, jvars>>

PathSet(u, p, rest) ==
    /\ path' = [path EXCEPT ![u] = p]
    /\ stack' = rest
    /\ UNCHANGED <<ustate, jvars>>

\* path_enter_running(): the triggered unit is started, unless that is refused
\* or the path unit is about to be stopped itself.  The new state is entered
\* once the job is installed.
PathRun(u, rest) ==
    \/ PathSet(u, "dead", rest)
    \/ \E tr \in Transactions :
         /\ tr.anchor = u /\ tr.type = "start"
         /\ ~Destructive(tr.jobs, "replace")
         /\ stack' = ApplyFrames(tr.jobs, "replace") \o <<PathRunning(u)>> \o rest
         /\ UNCHANGED <<uvars, jvars>>
    \/ PathSet(u, path[u], rest)

\* path_enter_waiting(): whether the path condition holds is up to the world.
PathCheck(u, down, rest) ==
    \/ ~down /\ PathSet(u, "running", rest)
    \/ down /\ (PathRun(u, rest) \/ PathSet(u, "waiting", rest))

PathWait(u, rest) == PathCheck(u, InactiveOrFailed(ustate[u]), rest)

PathStep ==
    /\ Top("path")
    /\ UNCHANGED nreq
    /\ PathSet(Head(stack).unit, "running", Tail(stack))

\* unit_trigger_notify() and path_trigger_notify(); the triggered unit may
\* have hit its start limit.
TriggerStep ==
    LET u == Head(stack).unit
        rest == Tail(stack)
    IN
    /\ Top("trigger")
    /\ UNCHANGED nreq
    /\ \/ u \in Watched /\ path[u] # "dead" /\ PathSet(u, "dead", rest)
       \/ /\ u \in Watched /\ path[u] # "dead" /\ slot[u] = None
          /\ (path[u] = "running") = InactiveOrFailed(ustate[u])
          /\ PathWait(u, rest)
       \/ /\ \/ u \notin Watched \/ path[u] = "dead" \/ slot[u] # None
             \/ (path[u] = "running") # InactiveOrFailed(ustate[u])
          /\ PathSet(u, path[u], rest)

-----------------------------------------------------------------------------
(* Running a job.                                                          *)

\* What a call of a unit method can return, and the state the unit enters
\* (and notifies) before it returns, None if it stays where it is.
Returns(e) == [r |-> e, ns |-> None]
Enters(e, s) == [r |-> e, ns |-> s]

\* unit_verify_deps(): the units it is bound to and ordered after are up.
unit_verify_deps(u) ==
    \A v \in InverseDep("bound_by", u) \cap After(u) : ActiveOrReloading(ustate[v])

\* unit_start(); -EPROTO also stands for the other reasons to refuse a unit.
unit_start(u) ==
    LET s == ustate[u] IN
    CASE ActiveOrReloading(s) -> {Returns("EALREADY")}
      [] s = "maintenance" -> {Returns("EAGAIN")}
      [] OTHER ->
           (IF s # "activating" THEN {Returns("ECOMM"), Returns("EPROTO")} ELSE {})
           \cup (IF ~unit_verify_deps(u) THEN {Returns("ENOLINK")}
                 ELSE IF u \in Device THEN {Returns("EBADR")}
                 ELSE IF s = "deactivating" THEN {Returns("EAGAIN")}
                 ELSE IF s = "activating" THEN {Returns("OK"), Returns("EAGAIN")}
                 ELSE {Enters("OK", "activating"), Enters("OK", "active"),
                       Enters("ECANCELED", "failed"), Returns("ECANCELED")})

unit_stop(u) ==
    LET s == ustate[u] IN
    CASE InactiveOrFailed(s) -> {Returns("EALREADY")}
      [] OTHER -> IF u \in Device THEN {Returns("EBADR")}
                  ELSE IF s = "deactivating" THEN {Returns("OK")}
                  ELSE {Enters("OK", "deactivating"), Enters("OK", "inactive"),
                        Enters("OK", "failed")}

unit_reload(u) ==
    CASE u \notin Reloadable -> {Returns("EBADR")}
      [] u \in Reloadable /\ ustate[u] = "reloading" -> {Returns("EAGAIN")}
      [] u \in Reloadable /\ ustate[u] \notin {"active", "reloading"} -> {Returns("ENOEXEC")}
      [] OTHER -> {Enters("OK", "reloading"), Enters("OK", "active")}

\* The switch of job_run_and_invalidate().
Perform(t, u) ==
    CASE t = "verify-active" ->
           {Returns(IF ActiveOrReloading(ustate[u]) THEN "EALREADY"
                    ELSE IF ustate[u] = "activating" THEN "EAGAIN" ELSE "EBADR")}
      [] t = "start" -> unit_start(u)
      [] t \in {"stop", "restart"} -> unit_stop(u)
      [] t = "reload" -> unit_reload(u)

\* The result a negative return value finishes the job with.
ResultOf(e) ==
    CASE e \in {"EALREADY", "ECOMM"} -> "done"
      [] e = "EBADR" -> "skipped"
      [] e = "ENOEXEC" -> "invalid"
      [] e = "EPROTO" -> "assert"
      [] e = "ENOLINK" -> "dependency"
      [] OTHER -> "failed"

\* A faulty variant: a unit that is up already is waited for.
WaitsAlready(t, e) == e \in {"OK", "EALREADY"}

\* "If the unit type does not support starting/stopping, then simply wait."
Waits(t, e) == e = "OK" \/ (e = "EBADR" /\ t \in {"start", "stop", "restart"})

\* A faulty variant: a job that cannot run yet stays in the queue.
DequeueRunnable(j) == IF job_is_runnable(j) THEN runq \ {j} ELSE runq

Dequeue(j) == runq \ {j}

\* job_run_and_invalidate() up to the return of the unit method.
RunJob(j, rest) ==
    LET u == jobs[j].unit IN
    /\ runq' = Dequeue(j)
    /\ UNCHANGED <<slot, gcq, path, doomed>>
    /\ IF jobs[j].state # "waiting" \/ ~job_is_runnable(j)
       THEN /\ stack' = rest
            /\ UNCHANGED <<ustate, jobs, armed, nrun>>
       ELSE \E o \in Perform(jobs[j].type, u), flags \in {{}, NotifyFlag} :
              /\ jobs' = [jobs EXCEPT ![j].state = "running", ![j].began = TRUE]
              /\ nrun' = nrun + 1
              /\ armed' = IF u \in RunningTimeout THEN armed \cup {j} ELSE armed
              /\ ustate' = IF o.ns = None THEN ustate ELSE [ustate EXCEPT ![u] = o.ns]
              /\ stack' = (IF o.ns = None THEN <<>>
                           ELSE <<Notify(u, ustate[u], o.ns, flags)>>)
                          \o (IF Waits(jobs[j].type, o.r) THEN <<>> ELSE <<Ran(j, o.r)>>)
                          \o rest

\* The rest of job_run_and_invalidate(), if the job has not gone away.
RanStep ==
    LET f == Head(stack)
        j == f.job
        rest == Tail(stack)
    IN
    /\ Top("ran")
    /\ UNCHANGED nreq
    /\ IF jobs[j] = None
       THEN /\ stack' = rest
            /\ UNCHANGED <<uvars, jvars>>
       ELSE IF f.r = "EAGAIN"
       THEN /\ jobs' = [jobs EXCEPT ![j].state = "waiting"]
            /\ nrun' = Uncount(j)
            /\ stack' = rest
            /\ UNCHANGED <<uvars, slot, runq, gcq, armed, doomed>>
       ELSE job_finish_and_invalidate(j, ResultOf(f.r), TRUE, rest)

\* manager_dispatch_run_queue() runs until the queue is empty.
DispatchStep ==
    /\ Top("dispatch")
    /\ UNCHANGED nreq
    /\ \/ /\ runq = {}
          /\ stack' = Tail(stack)
          /\ UNCHANGED <<uvars, jvars>>
       \/ \E j \in runq : RunJob(j, stack)

DispatchRunQueue ==
    /\ Idle /\ runq # {}
    /\ stack' = <<[op |-> "dispatch"]>>
    /\ UNCHANGED <<uvars, jvars, nreq>>

-----------------------------------------------------------------------------
(* Events.                                                                 *)

\* A client asks for a job.
Request(tr, mode) ==
    /\ Idle /\ nreq < MaxRequests
    /\ nreq' = nreq + 1
    /\ manager_add_job(tr.type, tr.anchor, mode, <<>>)

\* A client cancels a job.
CancelJob(j) ==
    /\ Idle /\ nreq < MaxRequests /\ jobs[j] # None
    /\ nreq' = nreq + 1
    /\ job_finish_and_invalidate(j, "canceled", TRUE, <<>>)

\* manager_clear_jobs() cancels one job after the other until none is left.
ClearJobs ==
    /\ Idle /\ nreq < MaxRequests
    /\ nreq' = nreq + 1
    /\ stack' = <<[op |-> "clear"]>>
    /\ UNCHANGED <<uvars, jvars>>

ClearStep ==
    /\ Top("clear")
    /\ UNCHANGED nreq
    /\ \/ /\ Installed = {}
          /\ stack' = Tail(stack)
          /\ UNCHANGED <<uvars, jvars>>
       \/ \E j \in Installed : job_finish_and_invalidate(j, "canceled", FALSE, stack)

\* job_dispatch_timer().
JobTimesOut(j) ==
    /\ Idle /\ j \in armed
    /\ job_finish_and_invalidate(j, "timeout", TRUE, <<>>)
    /\ UNCHANGED nreq

\* One turn of manager_dispatch_gc_job_queue().
CollectJob(j) ==
    /\ Idle /\ j \in gcq
    /\ UNCHANGED nreq
    /\ IF job_may_gc(jobs, slot, j)
       THEN job_finish_and_invalidate(j, "collected", FALSE, <<>>)
       ELSE /\ gcq' = gcq \ {j}
            /\ UNCHANGED <<uvars, jobs, slot, runq, armed, nrun, doomed, stack>>

\* A unit changes state by itself.
UnitEvent(u, ns, flags) ==
    /\ Idle
    /\ <<ustate[u], ns>> \in EnvStep
    /\ ustate' = [ustate EXCEPT ![u] = ns]
    /\ stack' = <<Notify(u, ustate[u], ns, flags)>>
    /\ UNCHANGED <<jvars, path, nreq>>

\* The path unit of u is started, its condition becomes true, it is stopped.
PathStarts(u) == Idle /\ path[u] = "dead" /\ PathWait(u, <<>>) /\ UNCHANGED nreq
PathFires(u) ==
    /\ Idle /\ path[u] = "waiting"
    /\ PathRun(u, <<>>) \/ PathWait(u, <<>>)
    /\ UNCHANGED nreq
PathStops(u) == Idle /\ path[u] # "dead" /\ PathSet(u, "dead", <<>>) /\ UNCHANGED nreq

\* A faulty variant: only JobTimeoutSec= survives a reload.
TimerAfterReloadWaiting(j) == jobs[j].unit \in JobTimeout

\* A job is rebuilt from its serialization, its timer by job_coldplug().
TimerAfterReload(j) ==
    \/ jobs[j].unit \in JobTimeout
    \/ jobs[j].began /\ jobs[j].unit \in RunningTimeout

\* manager_reload(): jobs are serialized, dropped, deserialized, coldplugged.
Reload ==
    /\ Idle /\ nreq < MaxRequests
    /\ nreq' = nreq + 1
    /\ runq' = {j \in Installed : jobs[j].state = "waiting"}
    /\ gcq' = Collectable(jobs, slot, Installed)
    /\ armed' = {j \in Installed : TimerAfterReload(j)}
    /\ nrun' = Cardinality({j \in Installed : jobs[j].state = "running"})
    /\ path' = [u \in Unit |-> "dead"]
    /\ stack' = <<[op |-> "coldplug", units |-> {u \in Watched : path[u] # "dead"}]>>
    /\ UNCHANGED <<ustate, jobs, slot, doomed>>

\* path_coldplug() of every path unit that was up.  The triggered unit reads as
\* inactive if its own turn has not come yet.
ColdplugStep ==
    LET f == Head(stack) IN
    /\ Top("coldplug")
    /\ UNCHANGED nreq
    /\ \/ /\ f.units = {}
          /\ stack' = Tail(stack)
          /\ UNCHANGED <<uvars, jvars>>
       \/ \E u \in f.units, down \in BOOLEAN :
            /\ InactiveOrFailed(ustate[u]) => down
            /\ PathCheck(u, down, <<[op |-> "coldplug", units |-> f.units \ {u}]>> \o Tail(stack))

-----------------------------------------------------------------------------

\* The handler that is running goes on.
HandlerStep ==
    \/ FailStep \/ RequeueStep \/ AddsStep \/ FlushStep \/ InstallStep \/ PlaceStep
    \/ NotifyStep \/ BindsStep \/ TriggerStep \/ PathStep \/ RanStep 
    \/ DispatchStep \/ ClearStep \/ ColdplugStep

Next ==
    \/ HandlerStep
    \/ DispatchRunQueue
    \/ \E tr \in Transactions, mode \in Modes : Request(tr, mode)
    \/ \E j \in Job : CancelJob(j) \/ JobTimesOut(j) \/ CollectJob(j)
    \/ ClearJobs
    \/ \E u \in Unit, ns \in ActiveState, flags \in {{}, NotifyFlag} : UnitEvent(u, ns, flags)
    \/ \E u \in Watched : PathStarts(u) \/ PathFires(u) \/ PathStops(u)
    \/ Reload

Spec == Init /\ [][Next]_vars

(***************************************************************************)
(* Fairness.  The event loop runs the handler it has begun to its end and  *)
(* dispatches the run queue whenever it is not empty; a unit does not stay *)
(* in a transitional state (its own timeouts see to that).                 *)
(***************************************************************************)
Settles(u) == /\ ustate[u] \in {"activating", "deactivating", "reloading", "maintenance"}
              /\ \E ns \in {"active", "inactive", "failed"}, fl \in {{}, NotifyFlag} :
                    UnitEvent(u, ns, fl)

FairSpec ==
    /\ Spec
    /\ WF_vars(HandlerStep)
    /\ WF_vars(DispatchRunQueue)
    /\ \A u \in Unit : SF_vars(Settles(u))

-----------------------------------------------------------------------------
(* Properties.                                                             *)

RunningJobs == {j \in Installed : jobs[j].state = "running"}

\* A unit's job slot and the table of installed jobs agree: every installed
\* job is the one job of its unit (the assertion *pj == j of job_uninstall(),
\* across every cancellation nested in job_install()).
SlotConsistent ==
    /\ \A j \in Installed : slot[jobs[j].unit] = j
    /\ \A u \in Unit : slot[u] # None => jobs[slot[u]] # None /\ jobs[slot[u]].unit = u

\* n_running_jobs counts the installed jobs that run, through merges into a
\* running job, EAGAIN, restarts that become starts, and daemon-reload.
RunningCount == nrun = Cardinality(RunningJobs)

\* Nothing refers to a job that is gone: the run queue, the gc queue and the
\* timers only hold installed jobs.
QueuesInstalled == runq \cup gcq \cup armed \subseteq Installed

\* The three together: the table, the slots, the queues, the timers and the
\* counter describe one set of jobs, after any nesting of job_install(),
\* job_finish_and_invalidate(), unit_notify() and daemon-reload.
JobTableConsistent == SlotConsistent /\ RunningCount /\ QueuesInstalled

\* What keeps a waiting job out of the run queue: the job of a unit it is
\* ordered against (or one that was exempted from ordering meanwhile), or its
\* own unit, which was busy.
Blocked(j) ==
    LET u == jobs[j].unit
        After1(v, dep) == /\ slot[v] # None
                          /\ \/ job_compare(jobs[j], jobs[slot[v]], dep) > 0
                             \/ jobs[slot[v]].ignore_order
    IN \/ \E v \in After(u) : After1(v, "after")
       \/ \E v \in Before(u) : After1(v, "before")

Busy(j) ==
    ustate[jobs[j].unit] \in
        CASE jobs[j].type = "start" -> {"deactivating", "maintenance", "activating"}
          [] jobs[j].type = "reload" -> {"reloading"}
          [] jobs[j].type = "verify-active" -> {"activating"}
          [] OTHER -> {}

\* No lost wakeup: between events, a job that waits is in the run queue, or is
\* blocked by another job whose end queues it again, or its unit is busy and
\* the next state change queues it again (job_finish_and_invalidate(),
\* unit_process_job()).
NoLostWakeup ==
    Idle => \A j \in Installed \ runq :
               jobs[j].state = "waiting" => Blocked(j) \/ Busy(j)

\* Between events no running job waits for a state its unit has reached: such
\* a job would never finish (unit_process_job() sees every state change, and
\* -EALREADY covers the states reached before).
RunningJobPending ==
    Idle => \A j \in RunningJobs :
              LET s == ustate[jobs[j].unit] IN
              CASE jobs[j].type \in {"start", "verify-active"} -> ~ActiveOrReloading(s)
                [] jobs[j].type \in {"stop", "restart"} -> ~InactiveOrFailed(s)
                [] jobs[j].type = "reload" -> s # "active"

\* A job of a unit with JobTimeoutSec=, or one that has begun to run of a unit
\* with JobRunningTimeoutSec=, has its timer, also after it was merged into,
\* put back to waiting, or carried over a daemon-reload (job_coldplug()).
TimerArmed ==
    Idle => \A j \in Installed :
              \/ jobs[j].unit \in JobTimeout
              \/ jobs[j].unit \in RunningTimeout /\ jobs[j].began
              => j \in armed

\* When a start job fails, the start jobs of the units that require it, have
\* it as requisite or are bound to it are gone before the next event, however
\* the cascade of failures, OnFailure= jobs and cancellations goes.
RequirementPropagated == Idle => doomed = {}

\* Until transaction_apply() has installed its last job, whatever the jobs it
\* cancels set off meanwhile, an irreversible job goes only in the loop in which
\* the modes isolate and flush cancel the jobs outside the transaction, which
\* makes no exception for irreversible ones: what transaction_is_destructive()
\* saw before the first job was cancelled holds to the last one.
ApplyUnderway == \E i \in DOMAIN stack : stack[i].op \in {"install", "place"}
IrreversibleKept ==
    [][ApplyUnderway /\ ~Top("flush") =>
         \A j \in Installed : jobs[j].irreversible => jobs'[j] # None]_vars

\* systemd.unit(5), Before=/After=: a unit that a job starts or stops does so
\* when no job of a unit it is ordered after is left (start), and when no stop
\* or restart is left of a unit ordered after it (both).
OrderRespected ==
    [][Top("dispatch") =>
         \A u \in Unit :
           LET Others(S) == {v \in S : slot[v] # None /\ ~jobs[slot[v]].ignore_order}
               ordered == ~jobs[slot[u]].ignore_order
           IN ustate'[u] # ustate[u] /\ ordered =>
                /\ jobs[slot[u]].type = "start" => Others(After(u)) = {}
                /\ \A v \in Others(Before(u)) : jobs[slot[v]].type \notin {"stop", "restart"}]_vars

\* Every job finishes, given units that settle and an acyclic ordering.
JobsFinish == \A j \in Job : (jobs[j] # None) ~> (jobs[j] = None)

\* The handlers return: no cascade of jobs that finish and are enqueued goes
\* on for ever.
HandlersReturn == []<>Idle
=============================================================================
