---------------------------- MODULE Transaction ----------------------------
(***************************************************************************)
(* How the service manager turns a request into a set of jobs: building    *)
(* the transaction from the dependencies, dropping what is not needed,     *)
(* breaking ordering cycles, resolving contradictions, merging, and        *)
(* applying the result to the installed jobs (src/core/transaction.c and   *)
(* manager_add_job() in manager.c).                                        *)
(*                                                                         *)
(* A job of a transaction is a pair <<unit, type>>: there is never a       *)
(* second job of the same type for a unit.  The order in which the hash    *)
(* tables are walked is not determined, so every loop over one takes its   *)
(* elements in any order.  What a cancelled job sets off is in module Jobs.*)
(***************************************************************************)
EXTENDS JobTypes, Sequences, FiniteSets

CONSTANTS
    Unit,            \* the loaded units
    None,            \* no job
    Deps,            \* the dependency graphs: sets of <<dependency, unit, other>>
    Masked,          \* units that bus_unit_validate_load_state() refuses
    Perpetual,       \* units that can not be stopped
    Reloadable,      \* units that have something to do on reload
    CanReload,       \* units of a type that decides by itself (can_reload())
    IgnoreOnIsolate, \* units with IgnoreOnIsolate=
    UnitStates,      \* the states units are in between requests
    Requests,        \* <<type, unit, mode>>: what clients ask for
    Propagations,    \* <<unit, mode>>: the calls of manager_propagate_reload()
    MaxRequests      \* bound on the requests of a behaviour

DepType == {"following", "requires", "binds_to", "wants", "requisite", "conflicts",
            "part_of", "propagates_reload_to", "triggers", "after"}

Mode == {"fail", "replace", "replace-irreversibly", "isolate", "flush",
         "ignore-dependencies", "ignore-requirements", "triggering"}

ASSUME UnitAssumption == IsFiniteSet(Unit)
ASSUME DepsAssumption ==
    \A D \in Deps : D \subseteq {e \in DepType \X Unit \X Unit : e[2] # e[3]}
ASSUME UnitSetsAssumption ==
    {Masked, Perpetual, Reloadable, CanReload, IgnoreOnIsolate} \subseteq SUBSET Unit
ASSUME UnitStatesAssumption == UnitStates \subseteq ActiveState
ASSUME RequestsAssumption ==
    /\ Requests \subseteq JobType \X Unit \X Mode
    /\ \A q \in Requests : /\ q[3] = "isolate" => q[1] = "start"
                           /\ q[3] = "triggering" => q[1] = "stop"
    /\ Propagations \subseteq Unit \X {"fail", "replace"}
    /\ \A q \in Propagations : q[2] = "fail" => "reloading" \in UnitStates
ASSUME BoundAssumption == MaxRequests \in Nat

VARIABLES
    dep,       \* Unit.dependencies, fixed
    ustate,    \* unit_active_state() of every unit
    installed, \* Unit.job, None if there is none
    phase,     \* where manager_add_job() is
    mode,      \* the job mode of the request
    anchor,    \* Transaction.anchor_job
    tr,        \* the jobs of the transaction and the links between them
    calls,     \* the nested calls of transaction_add_job_and_dependencies()
    visit,     \* the units the loop that stops others has still to look at
    walk,      \* the path of transaction_verify_order_one()
    seen,      \* units found loop-free (generation set, marker NULL)
    nreq       \* requests so far

vars == <<dep, ustate, installed, phase, mode, anchor, tr, calls, visit, walk, seen, nreq>>

-----------------------------------------------------------------------------
(* Types.                                                                  *)

TJob == Unit \X TransactionType
Link == [subject : TJob, object : TJob, matters : BOOLEAN, conflicts : BOOLEAN]

\* jobs[u] is the list of the jobs of u, the head first.
Tr == [jobs : [Unit -> Seq(TransactionType)], links : SUBSET Link, matter : SUBSET TJob]

EmptyTr == [jobs |-> [u \in Unit |-> <<>>], links |-> {}, matter |-> {}]

InstalledJob == [type : MergingType, irreversible : BOOLEAN, ignore_order : BOOLEAN]

ASSUME NoneAssumption == None \notin InstalledJob

Phase == {"idle", "build", "stop others", "mark", "minimize", "redundant", "gc before order",
          "order", "gc before merge", "merge", "redundant again", "activate"}

Call == [job : TJob, at : Nat, left : SUBSET Unit]
WalkStep == [unit : Unit, dir : {"before", "after"}, left : SUBSET Unit]

TypeOK ==
    /\ dep \subseteq DepType \X Unit \X Unit
    /\ ustate \in [Unit -> UnitStates]
    /\ installed \in [Unit -> InstalledJob \cup {None}]
    /\ phase \in Phase
    /\ mode \in Mode
    /\ anchor \in TJob \cup {None}
    /\ tr \in Tr
    /\ calls \in Seq(Call)
    /\ visit \in SUBSET Unit
    /\ walk \in Seq(WalkStep)
    /\ seen \in SUBSET Unit
    /\ nreq \in 0..MaxRequests

Init ==
    /\ dep \in Deps
    /\ ustate \in [Unit -> UnitStates]
    /\ installed = [u \in Unit |-> None]
    /\ phase = "idle"
    /\ mode = "replace"
    /\ anchor = None
    /\ tr = EmptyTr
    /\ calls = <<>> /\ visit = {} /\ walk = <<>> /\ seen = {}
    /\ nreq = 0

-----------------------------------------------------------------------------
(* Dependencies and graphs.                                                *)

\* The units u names in d, and the inverse d is stored with (RequiredBy= ...).
DepsOf(d, u) == {v \in Unit : <<d, u, v>> \in dep}
InverseDep(d, u) == {v \in Unit : <<d, v, u>> \in dep}

unit_can_reload(u) ==
    u \in Reloadable \/ (u \notin CanReload /\ DepsOf("propagates_reload_to", u) # {})

unit_job_is_applicable(u, t) ==
    CASE t \in {"verify-active", "start", "nop"} -> TRUE
      [] t \in {"stop", "restart"} -> u \notin Perpetual
      [] t = "reload" -> unit_can_reload(u)

\* What can be reached from S along the pairs of R, S included.
Reach(R, S) ==
    LET f[n \in 0..Cardinality(R)] ==
            IF n = 0 THEN S
            ELSE UNION {{x} \cup {e[2] : e \in {y \in R : y[1] = x}} : x \in f[n - 1]}
    IN f[Cardinality(R)]

-----------------------------------------------------------------------------
(* Transactions.                                                           *)

InList(s) == {s[i] : i \in DOMAIN s}
JobsOf(t) == {j \in TJob : j[2] \in InList(t.jobs[j[1]])}
HasJob(t, u) == t.jobs[u] # <<>>

\* The elements of s that are in K, in order.
Selected(s, K) ==
    LET f[i \in 0..Len(s)] ==
            IF i = 0 THEN <<>>
            ELSE f[i - 1] \o (IF s[i] \in K THEN <<s[i]>> ELSE <<>>)
    IN f[Len(s)]

\* A faulty variant: a deleted job stays in the hash table.
UnlinkedOnly(t, S) ==
    [t EXCEPT !.links = {l \in @ : l.subject \notin S /\ l.object \notin S}]

Without(t, S) ==
    [jobs |-> [u \in Unit |-> Selected(t.jobs[u], {x \in TransactionType : <<u, x>> \notin S})],
     links |-> {l \in t.links : l.subject \notin S /\ l.object \notin S},
     matter |-> t.matter \ S]

\* A faulty variant: what depends on a deleted job stays.
DeleteAlone(t, S) == Without(t, S)

\* transaction_delete_job() with delete_dependencies: the jobs of S go, and
\* with a job goes what has a link to it that matters.
DeleteWithDependents(t, S) ==
    Without(t, Reach({<<l.object, l.subject>> : l \in {x \in t.links : x.matters}}, S))

\* A faulty variant: the sweep does not go on.
MarkedDirectly(t) ==
    [t EXCEPT !.matter =
        {anchor} \cup {l.object : l \in {x \in t.links : x.matters /\ x.subject = anchor}}]

\* transaction_find_jobs_that_matter_to_anchor().
Marked(t) ==
    [t EXCEPT !.matter =
        Reach({<<l.subject, l.object>> : l \in {x \in t.links : x.matters}}, {anchor})]

\* A faulty variant: the job of the request may be dropped as well.
MinimizedAll(t) ==
    DeleteWithDependents(t,
        {j \in JobsOf(t) :
            \/ j[2] = "stop" /\ ActiveOrActivating(ustate[j[1]])
            \/ /\ installed[j[1]] # None
               /\ job_type_is_conflicting(j[2], installed[j[1]].type)})

\* A faulty variant: only installed jobs are spared, not running services.
MinimizedJobs(t) ==
    DeleteWithDependents(t,
        {j \in JobsOf(t) : /\ j \notin t.matter
                           /\ installed[j[1]] # None
                           /\ job_type_is_conflicting(j[2], installed[j[1]].type)})

\* transaction_minimize_impact(): no running service is stopped, and no
\* installed job reversed, for something that does not matter.
Minimized(t) ==
    DeleteWithDependents(t,
        {j \in JobsOf(t) :
            /\ j \notin t.matter
            /\ \/ j[2] = "stop" /\ ActiveOrActivating(ustate[j[1]])
               \/ /\ installed[j[1]] # None
                  /\ job_type_is_conflicting(j[2], installed[j[1]].type)})

\* A faulty variant: the installed job is not looked at.
RedundantByState(t) ==
    Without(t, {j \in JobsOf(t) : \A x \in InList(t.jobs[j[1]]) :
                   <<j[1], x>> # anchor /\ job_type_is_redundant(x, ustate[j[1]])})

\* transaction_drop_redundant(): the units all of whose jobs change nothing.
WithoutRedundant(t) ==
    LET Keep(j) == \/ j = anchor
                   \/ ~job_type_is_redundant(j[2], ustate[j[1]])
                   \/ /\ installed[j[1]] # None
                      /\ job_type_is_conflicting(j[2], installed[j[1]].type)
    IN Without(t, {j \in JobsOf(t) : \A x \in InList(t.jobs[j[1]]) : ~Keep(<<j[1], x>>)})

\* transaction_collect_garbage() looks at the head of every list.
Garbage(t) ==
    {j \in JobsOf(t) : /\ j = <<j[1], Head(t.jobs[j[1]])>>
                       /\ j # anchor
                       /\ \A l \in t.links : l.object # j}

-----------------------------------------------------------------------------
(* Building: transaction_add_job_and_dependencies().                       *)

Group(S, t, m, c, strict) ==
    IF S = {} THEN <<>>
    ELSE <<[units |-> S, type |-> t, matters |-> m, conflicts |-> c, strict |-> strict]>>

\* What a job pulls in, in order; a failure to add a job of a strict group
\* fails the call.  A job that is no operation stands for the anchor of
\* manager_propagate_reload().
Groups(j) ==
    LET u == j[1]
        t == j[2]
        ptype == IF t = "restart" THEN "try-restart" ELSE "stop"
        Propagate(d) == Group(InverseDep(d, u), ptype, TRUE, FALSE, TRUE)
    IN Group(IF t = "nop" THEN {} ELSE DepsOf("following", u), t, FALSE, FALSE, FALSE)
       \o (IF t \in {"start", "restart"}
           THEN Group(DepsOf("requires", u), "start", TRUE, FALSE, TRUE)
                \o Group(DepsOf("binds_to", u), "start", TRUE, FALSE, TRUE)
                \o Group(DepsOf("wants", u), "start", FALSE, FALSE, FALSE)
                \o Group(DepsOf("requisite", u), "verify-active", TRUE, FALSE, TRUE)
                \o Group(DepsOf("conflicts", u), "stop", TRUE, TRUE, TRUE)
                \o Group(InverseDep("conflicts", u), "stop", FALSE, FALSE, FALSE)
           ELSE <<>>)
       \o (IF t \in {"stop", "restart"}
           THEN Propagate("requires") \o Propagate("requisite") \o Propagate("binds_to")
                \o Propagate("part_of")
           ELSE <<>>)
       \o (IF t \in {"reload", "nop"}
           THEN Group(DepsOf("propagates_reload_to", u), "try-reload", FALSE, FALSE, FALSE)
           ELSE <<>>)

\* The call for job j goes on with its i-th group, or returns.
GoOn(j, i) ==
    IF i > Len(Groups(j)) THEN <<>>
    ELSE <<[job |-> j, at |-> i, left |-> Groups(j)[i].units]>>

\* What transaction_add_job_and_dependencies() refuses, and how.
AddError(t, u) ==
    CASE t # "stop" /\ u \in Masked -> "refused"
      [] ~unit_job_is_applicable(u, t) -> "EBADR"
      [] OTHER -> "none"

\* transaction_add_one_job() and job_dependency_new().
WithJob(t, j, by, m, c) ==
    [t EXCEPT !.jobs[j[1]] = IF j[2] \in InList(@) THEN @ ELSE <<j[2]>> \o @,
              !.links = @ \cup {[subject |-> by, object |-> j, matters |-> m, conflicts |-> c]}]

\* A call fails: so do its callers, up to one that ignores the failure.
Unwound(cs) ==
    LET Lenient(i) == ~Groups(cs[i].job)[cs[i].at].strict
        S == {i \in 2..Len(cs) : Lenient(i)}
    IN IF S = {} THEN <<>>
       ELSE SubSeq(cs, CHOOSE i \in S : \A k \in S : i <= k, Len(cs))

\* One dependency of the innermost call.
AddDependency(v) ==
    LET f == Head(calls)
        g == Groups(f.job)[f.at]
        t == job_type_collapse(g.type, ustate[v])
        rest == <<[f EXCEPT !.left = @ \ {v}]>> \o Tail(calls)
        isnew == t \notin InList(tr.jobs[v])
    IN
    /\ v \in f.left
    /\ UNCHANGED <<dep, ustate, installed, mode, visit, walk, seen, nreq>>
    /\ \/ /\ t = "nop" \/ AddError(t, v) = "EBADR" \/ (AddError(t, v) # "none" /\ ~g.strict)
          /\ calls' = rest
          /\ UNCHANGED <<phase, anchor, tr>>
       \/ /\ t # "nop" /\ AddError(t, v) = "refused" /\ g.strict
          /\ calls' = Unwound(calls)
          /\ IF calls' = <<>> /\ phase = "build"
             THEN phase' = "idle" /\ anchor' = None /\ tr' = EmptyTr
             ELSE UNCHANGED <<phase, anchor, tr>>
       \/ /\ t # "nop" /\ AddError(t, v) = "none"
          /\ tr' = WithJob(tr, <<v, t>>, f.job, g.matters, g.conflicts)
          /\ calls' = (IF isnew THEN GoOn(<<v, t>>, 1) ELSE <<>>) \o rest
          /\ UNCHANGED <<phase, anchor>>

\* The innermost call goes on with the next group, or returns.
NextGroup ==
    LET f == Head(calls) IN
    /\ f.left = {}
    /\ calls' = GoOn(f.job, f.at + 1) \o Tail(calls)
    /\ UNCHANGED <<dep, ustate, installed, phase, mode, anchor, tr, visit, walk, seen, nreq>>

Build ==
    /\ phase \in {"build", "stop others"}
    /\ calls # <<>>
    /\ NextGroup \/ \E v \in Unit : AddDependency(v)

\* transaction_add_isolate_jobs() and transaction_add_triggering_jobs() come
\* after the dependencies of the anchor.
Built ==
    /\ phase = "build" /\ calls = <<>>
    /\ phase' = IF mode \in {"isolate", "triggering"} THEN "stop others" ELSE "mark"
    /\ visit' = CASE mode = "isolate" -> Unit \ IgnoreOnIsolate
                  [] mode = "triggering" -> InverseDep("triggers", anchor[1])
                  [] OTHER -> {}
    /\ UNCHANGED <<dep, ustate, installed, mode, anchor, tr, calls, walk, seen, nreq>>

StopOther(u) ==
    /\ phase = "stop others" /\ calls = <<>> /\ u \in visit
    /\ visit' = visit \ {u}
    /\ IF \/ InactiveOrFailed(ustate[u]) /\ installed[u] = None
          \/ HasJob(tr, u)
          \/ AddError("stop", u) # "none"
       THEN UNCHANGED <<tr, calls>>
       ELSE /\ tr' = WithJob(tr, <<u, "stop">>, anchor, TRUE, FALSE)
            /\ calls' = GoOn(<<u, "stop">>, 1)
    /\ UNCHANGED <<dep, ustate, installed, phase, mode, anchor, walk, seen, nreq>>

OthersStopped ==
    /\ phase = "stop others" /\ calls = <<>> /\ visit = {}
    /\ phase' = "mark"
    /\ UNCHANGED <<dep, ustate, installed, mode, anchor, tr, calls, visit, walk, seen, nreq>>

-----------------------------------------------------------------------------
(* Activating: transaction_activate().                                     *)

\* The first three steps.
Mark ==
    /\ phase = "mark"
    /\ tr' = Marked(tr)
    /\ phase' = IF mode = "fail" THEN "minimize" ELSE "redundant"
    /\ UNCHANGED <<dep, ustate, installed, mode, anchor, calls, visit, walk, seen, nreq>>

Minimize ==
    /\ phase = "minimize"
    /\ tr' = Minimized(tr)
    /\ phase' = "redundant"
    /\ UNCHANGED <<dep, ustate, installed, mode, anchor, calls, visit, walk, seen, nreq>>

\* The third and the eighth step.
DropRedundant ==
    /\ phase \in {"redundant", "redundant again"}
    /\ tr' = WithoutRedundant(tr)
    /\ phase' = IF phase = "redundant" THEN "gc before order" ELSE "activate"
    /\ UNCHANGED <<dep, ustate, installed, mode, anchor, calls, visit, walk, seen, nreq>>

\* transaction_collect_garbage(), one job at a time.
CollectGarbage ==
    /\ phase \in {"gc before order", "gc before merge"}
    /\ IF mode # "isolate" /\ Garbage(tr) # {}
       THEN /\ \E j \in Garbage(tr) : tr' = DeleteWithDependents(tr, {j})
            /\ UNCHANGED phase
       ELSE /\ phase' = IF phase = "gc before order" THEN "order" ELSE "merge"
            /\ UNCHANGED tr
    /\ UNCHANGED <<dep, ustate, installed, mode, anchor, calls, visit, walk, seen, nreq>>

\* The job of u the order check looks at: the head of its list in the
\* transaction, or else the installed one.
JobAt(u) ==
    IF HasJob(tr, u)
    THEN [type |-> Head(tr.jobs[u]), ignore_order |-> mode = "ignore-dependencies"]
    ELSE [type |-> installed[u].type, ignore_order |-> installed[u].ignore_order]

\* A faulty variant: installed jobs are left out of the order check.
FollowersInside(u, dir) ==
    {v \in IF dir = "before" THEN InverseDep("after", u) ELSE DepsOf("after", u) :
        HasJob(tr, v) /\ job_compare(JobAt(u), JobAt(v), dir) < 0}

\* The units whose job runs after that of u, in direction dir.
Followers(u, dir) ==
    {v \in IF dir = "before" THEN InverseDep("after", u) ELSE DepsOf("after", u) :
        /\ HasJob(tr, v) \/ installed[v] # None
        /\ job_compare(JobAt(u), JobAt(v), dir) < 0}

Enter(u) == <<[unit |-> u, dir |-> "before", left |-> Followers(u, "before")]>>

\* A job on a cycle that may be dropped.
Breakable(u) ==
    HasJob(tr, u) /\ \A x \in InList(tr.jobs[u]) : <<u, x>> \notin tr.matter

Abort ==
    /\ phase' = "idle" /\ anchor' = None /\ tr' = EmptyTr

\* transaction_verify_order() takes the next unit.
WalkFrom(u) ==
    /\ walk = <<>> /\ HasJob(tr, u) /\ u \notin seen
    /\ walk' = Enter(u)
    /\ UNCHANGED <<phase, anchor, tr, seen>>

\* transaction_verify_order_one() goes on to v: known to be loop-free, new, or
\* on the path, which is a cycle that is broken at the first job that may be
\* dropped, going backwards.
WalkTo(v) ==
    LET w == Head(walk)
        rest == <<[w EXCEPT !.left = @ \ {v}]>> \o Tail(walk)
        at == {i \in DOMAIN walk : walk[i].unit = v}
    IN
    /\ v \in w.left
    /\ IF v \in seen
       THEN walk' = rest /\ UNCHANGED <<phase, anchor, tr, seen>>
       ELSE IF at = {}
       THEN walk' = Enter(v) \o rest /\ UNCHANGED <<phase, anchor, tr, seen>>
       ELSE LET n == CHOOSE i \in at : TRUE
                B == {i \in 1..n : Breakable(walk[i].unit)}
            IN
            /\ walk' = <<>> /\ seen' = {}
            /\ IF B = {}
               THEN Abort
               ELSE LET d == walk[CHOOSE i \in B : \A k \in B : i <= k].unit IN
                    /\ tr' = DeleteWithDependents(tr, {j \in JobsOf(tr) : j[1] = d})
                    /\ phase' = "gc before order"
                    /\ UNCHANGED anchor

\* Nothing is left in this direction.
WalkOn ==
    LET w == Head(walk) IN
    /\ w.left = {}
    /\ IF w.dir = "before"
       THEN /\ walk' = <<[w EXCEPT !.dir = "after", !.left = Followers(w.unit, "after")]>>
                       \o Tail(walk)
            /\ UNCHANGED seen
       ELSE /\ walk' = Tail(walk)
            /\ seen' = seen \cup {w.unit}
    /\ UNCHANGED <<phase, anchor, tr>>

Ordered ==
    /\ walk = <<>> /\ \A u \in Unit : HasJob(tr, u) => u \in seen
    /\ phase' = "merge" /\ seen' = {}
    /\ UNCHANGED <<anchor, tr, walk>>

VerifyOrder ==
    /\ phase = "order"
    /\ \/ Ordered
       \/ \E u \in Unit : WalkFrom(u)
       \/ walk # <<>> /\ (WalkOn \/ \E v \in Unit : WalkTo(v))
    /\ UNCHANGED <<dep, ustate, installed, mode, calls, visit, nreq>>

-----------------------------------------------------------------------------
(* Merging and applying.                                                   *)

\* The type all jobs of a list merge into for a unit in state s.
MergedType(list, s) ==
    LET f[i \in 1..Len(list)] ==
            IF i = 1 THEN list[1]
            ELSE LET t == f[i - 1] IN
                 IF t = NoMerge THEN NoMerge ELSE job_type_merge_and_collapse(t, list[i], s)
    IN f[Len(list)]

Unmergeable(u) == Len(tr.jobs[u]) > 1 /\ MergedType(tr.jobs[u], ustate[u]) = NoMerge

\* The assertions of job_type_lookup_merge() for all it is called with; the
\* manager goes down where they fail.
MergeAsserts == \A u \in Unit : Len(tr.jobs[u]) > 1 => "nop" \notin InList(tr.jobs[u])

\* job_is_conflicted_by().
ConflictedBy(j) == \E l \in tr.links : l.object = j /\ l.conflicts

\* Which of two contradicting jobs delete_one_unmergeable_job() drops.
Dropped(j, k) ==
    CASE j \notin tr.matter /\ k \notin tr.matter ->
            IF j[2] = "stop" THEN (IF ConflictedBy(j) THEN k ELSE j)
            ELSE IF k[2] = "stop" THEN (IF ConflictedBy(k) THEN j ELSE k)
            ELSE j
      [] j \notin tr.matter /\ k \in tr.matter -> j
      [] j \in tr.matter /\ k \notin tr.matter -> k
      [] OTHER -> None

\* The first two jobs of u that contradict each other.
FirstPair(u) ==
    LET s == tr.jobs[u]
        P == {p \in (DOMAIN s) \X (DOMAIN s) :
                p[1] < p[2] /\ ~job_type_is_mergeable(s[p[1]], s[p[2]])}
    IN CHOOSE p \in P : \A q \in P : p[1] < q[1] \/ (p[1] = q[1] /\ p[2] <= q[2])

\* transaction_merge_jobs() meets a contradiction.
DropUnmergeable(u) ==
    LET p == FirstPair(u)
        d == Dropped(<<u, tr.jobs[u][p[1]]>>, <<u, tr.jobs[u][p[2]]>>)
    IN
    /\ phase = "merge" /\ MergeAsserts /\ Unmergeable(u)
    /\ IF d = None THEN Abort
       ELSE /\ tr' = DeleteWithDependents(tr, {d})
            /\ phase' = "gc before merge"
            /\ UNCHANGED anchor
    /\ UNCHANGED <<dep, ustate, installed, mode, calls, visit, walk, seen, nreq>>

\* transaction_merge_and_delete_job() for every unit with several jobs.
MergeJobs ==
    LET T == [u \in Unit |-> IF HasJob(tr, u) THEN MergedType(tr.jobs[u], ustate[u]) ELSE None]
        R(j) == <<j[1], T[j[1]]>>
    IN
    /\ phase = "merge" /\ MergeAsserts /\ \A u \in Unit : ~Unmergeable(u)
    /\ tr' = [jobs |-> [u \in Unit |-> IF HasJob(tr, u) THEN <<T[u]>> ELSE <<>>],
              links |-> {[l EXCEPT !.subject = R(@), !.object = R(@)] : l \in tr.links},
              matter |-> {R(j) : j \in tr.matter}]
    /\ anchor' = R(anchor)
    /\ phase' = "redundant again"
    /\ UNCHANGED <<dep, ustate, installed, mode, calls, visit, walk, seen, nreq>>

\* A faulty variant: irreversible jobs are like any other.
DestructiveInFail ==
    \E u \in Unit : /\ HasJob(tr, u) /\ installed[u] # None
                    /\ mode = "fail"
                    /\ job_type_is_conflicting(installed[u].type, Head(tr.jobs[u]))

\* transaction_is_destructive().
Destructive ==
    \E u \in Unit : /\ HasJob(tr, u) /\ installed[u] # None
                    /\ mode = "fail" \/ installed[u].irreversible
                    /\ job_type_is_conflicting(installed[u].type, Head(tr.jobs[u]))

\* A faulty variant: an installed job wins over a new one.
KeptByApply(u) ==
    IF installed[u] # None \/ ~HasJob(tr, u) THEN installed[u]
    ELSE [type |-> Head(tr.jobs[u]), irreversible |-> mode = "replace-irreversibly",
          ignore_order |-> mode = "ignore-dependencies"]

\* The job of u once transaction_apply() is through: job_install() of each job,
\* after the jobs outside the transaction are cancelled in some modes.
AfterApply(u) ==
    LET old == installed[u]
        type == Head(tr.jobs[u])
        ir == mode = "replace-irreversibly"
        io == mode = "ignore-dependencies"
    IN
    IF ~HasJob(tr, u)
    THEN IF mode \in {"isolate", "flush"} /\ u \notin IgnoreOnIsolate THEN None ELSE old
    ELSE IF type = "nop" THEN old
    ELSE IF old = None \/ job_type_is_conflicting(old.type, type)
    THEN [type |-> type, irreversible |-> ir, ignore_order |-> io]
    ELSE [type |-> job_type_merge_and_collapse(old.type, type, ustate[u]),
          irreversible |-> old.irreversible \/ ir, ignore_order |-> old.ignore_order \/ io]

\* The last two steps.
Activate ==
    /\ phase = "activate"
    /\ installed' = IF Destructive THEN installed ELSE [u \in Unit |-> AfterApply(u)]
    /\ Abort
    /\ UNCHANGED <<dep, ustate, mode, calls, visit, walk, seen, nreq>>

-----------------------------------------------------------------------------
(* Requests.                                                               *)

\* manager_add_job().
AddJob(type, u, m) ==
    LET t == job_type_collapse(type, ustate[u]) IN
    /\ phase = "idle" /\ nreq < MaxRequests
    /\ nreq' = nreq + 1
    /\ mode' = m
    /\ IF AddError(t, u) # "none"
       THEN UNCHANGED <<phase, anchor, tr, calls>>
       ELSE /\ phase' = "build"
            /\ anchor' = <<u, t>>
            /\ tr' = [EmptyTr EXCEPT !.jobs[u] = <<t>>]
            /\ calls' = IF m \in {"ignore-dependencies", "ignore-requirements"} \/ t = "nop"
                        THEN <<>> ELSE GoOn(<<u, t>>, 1)
    /\ UNCHANGED <<dep, ustate, installed, visit, walk, seen>>

\* manager_propagate_reload(), for a service that says it reloads (mode fail,
\* its state is changed first) or a device that changed (mode replace).
PropagateReload(u, m) ==
    /\ phase = "idle" /\ nreq < MaxRequests
    /\ nreq' = nreq + 1
    /\ ustate[u] = "active"
    /\ ustate' = IF m = "fail" THEN [ustate EXCEPT ![u] = "reloading"] ELSE ustate
    /\ mode' = m
    /\ IF AddError("nop", u) # "none"
       THEN UNCHANGED <<phase, anchor, tr, calls>>
       ELSE /\ phase' = "build"
            /\ anchor' = <<u, "nop">>
            /\ tr' = [EmptyTr EXCEPT !.jobs[u] = <<"nop">>]
            /\ calls' = GoOn(<<u, "nop">>, 1)
    /\ UNCHANGED <<dep, installed, visit, walk, seen>>

\* Meanwhile: an installed job ends, its unit in any state.
JobEnds(u, s) ==
    /\ phase = "idle" /\ nreq < MaxRequests /\ installed[u] # None
    /\ installed' = [installed EXCEPT ![u] = None]
    /\ ustate' = [ustate EXCEPT ![u] = s]
    /\ UNCHANGED <<dep, phase, mode, anchor, tr, calls, visit, walk, seen, nreq>>

\* What manager_add_job() does between its call and its return.
Step ==
    \/ Build \/ Built
    \/ \E u \in Unit : StopOther(u)
    \/ OthersStopped \/ Mark \/ Minimize \/ DropRedundant \/ CollectGarbage \/ VerifyOrder
    \/ \E u \in Unit : DropUnmergeable(u)
    \/ MergeJobs \/ Activate

Next ==
    \/ Step
    \/ \E q \in Requests : AddJob(q[1], q[2], q[3])
    \/ \E q \in Propagations : PropagateReload(q[1], q[2])
    \/ \E u \in Unit, s \in UnitStates : JobEnds(u, s)

Spec == Init /\ [][Next]_vars

\* manager_add_job() is a function call: it runs to its end.
FairSpec == Spec /\ WF_vars(Step)

-----------------------------------------------------------------------------
(* Safety.                                                                 *)

\* The job that was asked for is never deleted from its own transaction, by
\* whatever minimizing, breaking of cycles, resolving of contradictions or
\* garbage collection does.  (transaction_activate() dereferences anchor_job.)
AnchorKept == phase # "idle" => anchor \in JobsOf(tr)

\* What a job that matters to the anchor depends on by a link that matters is
\* itself marked, as long as the marks are looked at: transaction_delete_job()
\* follows these links backwards and relies on the marks computed once, in the
\* first step.
MarksClosed ==
    phase \notin {"idle", "build", "stop others", "mark", "redundant again", "activate"} =>
        \A l \in tr.links : l.matters /\ l.subject \in tr.matter => l.object \in tr.matter

\* A reload and a start of a unit never meet in one transaction (job.h,
\* JOB_RELOAD_OR_START), so merging never yields a type that can not enter one.
ReloadApart ==
    \A u \in Unit : {"reload", "start"} \cap InList(tr.jobs[u]) # {"reload", "start"}

\* The jobs that wait: <<u, v>> if the job of v waits for that of u
\* (job_is_runnable()).
WaitGraph ==
    {e \in Unit \X Unit :
        /\ installed[e[1]] # None /\ installed[e[2]] # None
        /\ \/ e[1] \in DepsOf("after", e[2])
              /\ job_compare(installed[e[2]], installed[e[1]], "after") > 0
           \/ e[1] \in InverseDep("after", e[2])
              /\ job_compare(installed[e[2]], installed[e[1]], "before") > 0}

\* As long as only starts and stops are asked for, the installed jobs never
\* wait for each other in a circle, whatever cycles the units' ordering has
\* and whatever starts and stops were installed before: a cycle is broken or
\* the transaction refused (transaction_verify_order()).  A restart that is
\* merged after the order was verified can close one.
OrderAcyclic == \A e \in WaitGraph : e[1] \notin Reach(WaitGraph, {e[2]})

-----------------------------------------------------------------------------
(* What an applied transaction does.                                       *)

Applied == phase = "activate" /\ ~Destructive
WithDependencies == mode \notin {"ignore-dependencies", "ignore-requirements"}

New(u, T) == HasJob(tr, u) /\ Head(tr.jobs[u]) \in T

\* A unit that is up or comes up (is down) and that no job takes down (up).
StaysUp(u, job) == ActiveOrActivating(ustate[u]) /\ (job # None => job.type # "stop")
StaysDown(u, job) == InactiveOrFailed(ustate[u]) /\ (job = None \/ job.type = "stop")

\* With the start of a unit comes the start of all it requires, unless it is
\* up, or on its way, and stays so; this holds transitively because it holds
\* for each job.
RequirementsStep ==
    Applied /\ WithDependencies =>
        \A u \in Unit : New(u, {"start", "restart"}) =>
            \A v \in {w \in Unit : {<<"requires", u, w>>, <<"binds_to", u, w>>} \cap dep # {}} :
                \/ installed'[v] # None /\ installed'[v].type \in {"start", "restart"}
                \/ StaysUp(v, installed'[v])
RequirementsHonoured == [][RequirementsStep]_vars

\* With the start of a unit comes the stop of all it conflicts with, unless it
\* is down and nothing queued will start it.
ConflictsStep ==
    Applied /\ WithDependencies =>
        \A u \in Unit : New(u, {"start", "restart"}) =>
            \A v \in {w \in Unit \ Perpetual : <<"conflicts", u, w>> \in dep} :
                \/ installed'[v] # None /\ installed'[v].type = "stop"
                \/ StaysDown(v, installed'[v])
ConflictsHonoured == [][ConflictsStep]_vars

\* With the stop of a unit comes the stop of all that requires it or is part
\* of it, unless it is down and nothing queued will start it.
StopsStep ==
    Applied /\ WithDependencies =>
        \A u \in Unit : New(u, {"stop"}) =>
            \A d \in {"requires", "requisite", "binds_to", "part_of"} :
                \A v \in {w \in Unit \ Perpetual : <<d, w, u>> \in dep} :
                    \/ installed'[v] # None /\ installed'[v].type = "stop"
                    \/ StaysDown(v, installed'[v])
StopsPropagated == [][StopsStep]_vars

\* The request itself is granted: afterwards the unit has a job that includes
\* the one asked for, unless the unit is already where the job leads.
AnchorStep ==
    Applied /\ anchor[2] \in {"start", "stop", "restart", "verify-active"} =>
        LET j == installed'[anchor[1]] IN
        j # None /\ (\/ job_type_is_superset(j.type, anchor[2])
                     \/ job_type_is_redundant(anchor[2], ustate[anchor[1]]))
AnchorHonoured == [][AnchorStep]_vars

\* The jobs a job can not do without, as its unit's dependencies say.
Needs(j) ==
    UNION {{<<v, job_type_collapse(g.type, ustate[v])>> : v \in g.units} :
              g \in {h \in InList(Groups(j)) : h.matters}}

NeedsGraph == {e \in TJob \X TJob : e[2] \in Needs(e[1])}

\* In mode fail a running unit is stopped only if the request can not do
\* without (transaction_minimize_impact()), however the jobs were merged.
NeedlessStep ==
    Applied /\ mode = "fail" =>
        \A u \in Unit : New(u, {"stop"}) /\ ActiveOrActivating(ustate[u]) =>
            <<u, "stop">> \in Reach(NeedsGraph, {anchor})
NoNeedlessStop == [][NeedlessStep]_vars

\* An irreversible job is never replaced by one that contradicts it, nor does
\* it lose its mark (transaction_is_destructive(), job_merge_into_installed()).
IrreversibleStep ==
    phase = "activate" /\ mode \notin {"isolate", "flush"} =>
        \A u \in Unit : installed[u] # None /\ installed[u].irreversible =>
            /\ installed'[u] # None /\ installed'[u].irreversible
            /\ ~job_type_is_conflicting(installed'[u].type, installed[u].type)
IrreversibleKept == [][IrreversibleStep]_vars

-----------------------------------------------------------------------------
(* Liveness.                                                               *)

\* Every request is answered: no loop of transaction_activate() goes on for
\* ever, however the walks and deletions interleave.
TransactionEnds == (phase # "idle") ~> (phase = "idle")
=============================================================================
