------------------------------ MODULE JobTypes ------------------------------
(***************************************************************************)
(* The algebra of job types of the service manager: merging, collapsing,   *)
(* redundancy, conflict, inclusion and the order in which two jobs run     *)
(* (src/core/job.c, src/core/job.h).  Every other module about jobs and    *)
(* transactions is built on these operators.                               *)
(***************************************************************************)
EXTENDS Integers

\* The five types job_type_lookup_merge() accepts.
MergingType == {"start", "verify-active", "stop", "reload", "restart"}

\* The types a job of a transaction can have.
TransactionType == MergingType \cup {"nop"}

\* The types a caller may ask for.
JobType == TransactionType \cup {"try-restart", "try-reload", "reload-or-start"}

\* UnitActiveState.
ActiveState == {"active", "reloading", "inactive", "failed", "activating",
                "deactivating", "maintenance"}

ActiveOrReloading(s) == s \in {"active", "reloading"}
InactiveOrFailed(s) == s \in {"inactive", "failed"}
ActiveOrActivating(s) == s \in {"active", "activating", "reloading"}
InactiveOrDeactivating(s) == s \in {"inactive", "failed", "deactivating"}

\* The entries of job_merging_table that are -1.
NoMerge == "no-merge"

-----------------------------------------------------------------------------
(* Deliberate mistakes used to test the properties.                        *)

\* An entry of the table typed wrongly: a reload swallows a restart.
LookupMergeReloadWins(a, b) ==
    IF {a, b} = {"restart", "reload"} THEN "reload"
    ELSE IF a = b THEN a
    ELSE IF "stop" \in {a, b} THEN NoMerge
    ELSE IF "restart" \in {a, b} THEN "restart"
    ELSE IF {a, b} = {"start", "reload"} THEN "reload-or-start"
    ELSE IF "reload" \in {a, b} THEN "reload"
    ELSE "start"

\* A missing -1: a stop may be merged into a restart.
LookupMergeStopRestart(a, b) ==
    IF a = b THEN a
    ELSE IF "restart" \in {a, b} THEN "restart"
    ELSE IF "stop" \in {a, b} THEN NoMerge
    ELSE IF {a, b} = {"start", "reload"} THEN "reload-or-start"
    ELSE IF "reload" \in {a, b} THEN "reload"
    ELSE "start"

\* A misaligned row: a restart that meets a verify-active becomes a stop.
LookupMergeMisaligned(a, b) ==
    IF a = b THEN a
    ELSE IF "stop" \in {a, b} THEN NoMerge
    ELSE IF "restart" \in {a, b} THEN
            IF "verify-active" \in {a, b} THEN "stop" ELSE "restart"
    ELSE IF {a, b} = {"start", "reload"} THEN "reload-or-start"
    ELSE IF "reload" \in {a, b} THEN "reload"
    ELSE "start"

\* The row of another type: a reload that was optional starts the unit.
CollapseTryReloadStarts(t, s) ==
    CASE t = "try-restart" -> IF ActiveOrReloading(s) THEN "restart" ELSE "nop"
      [] t \in {"try-reload", "reload-or-start"} ->
            IF ActiveOrReloading(s) THEN "reload" ELSE "start"
      [] OTHER -> t
-----------------------------------------------------------------------------

\* job_merging_table, symmetric, the diagonal included.
job_type_lookup_merge(a, b) ==
    CASE a = b -> a
      [] a # b /\ "stop" \in {a, b} -> NoMerge
      [] a # b /\ "stop" \notin {a, b} /\ "restart" \in {a, b} -> "restart"
      [] {a, b} = {"start", "reload"} -> "reload-or-start"
      [] {a, b} = {"verify-active", "reload"} -> "reload"
      [] {a, b} = {"start", "verify-active"} -> "start"

\* The assertions at the head of job_type_lookup_merge().
MergeDefined(a, b) == a \in MergingType /\ b \in MergingType

job_type_is_mergeable(a, b) == job_type_lookup_merge(a, b) # NoMerge

job_type_is_conflicting(a, b) ==
    a # "nop" /\ b # "nop" /\ ~job_type_is_mergeable(a, b)

job_type_is_superset(a, b) ==
    \/ b = "nop"
    \/ a # "nop" /\ b # "nop" /\ a = job_type_lookup_merge(a, b)

\* A job of this type changes nothing for a unit in state s.
job_type_is_redundant(t, s) ==
    \/ t \in {"start", "verify-active"} /\ ActiveOrReloading(s)
    \/ t = "stop" /\ InactiveOrFailed(s)
    \/ t = "reload" /\ s = "reloading"
    \/ t = "restart" /\ s = "activating"
    \/ t = "nop"

\* The state-dependent types are resolved by looking at the unit.
job_type_collapse(t, s) ==
    CASE t = "try-restart" -> IF ActiveOrReloading(s) THEN "restart" ELSE "nop"
      [] t = "try-reload" -> IF ActiveOrReloading(s) THEN "reload" ELSE "nop"
      [] t = "reload-or-start" -> IF ActiveOrReloading(s) THEN "reload" ELSE "start"
      [] OTHER -> t

job_type_merge_and_collapse(a, b, s) ==
    job_type_collapse(job_type_lookup_merge(a, b), s)

\* A running job takes the place of a later request only when doing the
\* request again would have no effect, which is never so for a reload.
job_type_allows_late_merge(t) == t # "reload"

\* Which of two jobs goes first, given that a's unit is ordered dep ("before"
\* or "after") b's: negative if a does, positive if b does, 0 if either is
\* exempt from ordering.  A stop goes before the start or stop of what it is
\* ordered before; a restart is a stop until it is patched.
job_compare(a, b, dep) ==
    CASE "nop" \in {a.type, b.type} \/ a.ignore_order \/ b.ignore_order -> 0
      [] OTHER ->
           IF dep = "before"
           THEN IF b.type \in {"stop", "restart"} THEN 1 ELSE -1
           ELSE IF a.type \in {"stop", "restart"} THEN -1 ELSE 1
=============================================================================
