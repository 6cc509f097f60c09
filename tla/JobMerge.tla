------------------------------ MODULE JobMerge ------------------------------
(***************************************************************************)
(* Merging requests into the one job of a unit.  transaction_merge_jobs()  *)
(* merges the jobs a transaction holds for a unit in list order, and       *)
(* job_install() merges a new job into the installed one; which request    *)
(* comes first depends on hash table order and on timing.  The module      *)
(* folds requests in any order and compares the outcome with a definition  *)
(* that looks only at which types were asked for.                          *)
(***************************************************************************)
EXTENDS JobTypes

VARIABLES
    state,    \* the active state of the unit while the requests are merged
    type,     \* the type of the merged job
    merged,   \* the types merged so far
    refused   \* the types that could not be merged

mergeVars == <<state, type, merged, refused>>

MergeTypeOK ==
    /\ state \in ActiveState
    /\ type \in MergingType
    /\ merged \in SUBSET MergingType
    /\ refused \in SUBSET MergingType

MergeInit ==
    /\ state \in ActiveState
    /\ type \in MergingType
    /\ merged = {type}
    /\ refused = {}

\* job_type_merge_and_collapse() succeeds and overwrites the type.
Merge(t) ==
    /\ job_type_is_mergeable(type, t)
    /\ type' = job_type_merge_and_collapse(type, t, state)
    /\ merged' = merged \cup {t}
    /\ UNCHANGED <<state, refused>>

\* It returns -EEXIST and leaves the type alone.
Refuse(t) ==
    /\ ~job_type_is_mergeable(type, t)
    /\ refused' = refused \cup {t}
    /\ UNCHANGED <<state, type, merged>>

MergeNext == \E t \in MergingType : Merge(t) \/ Refuse(t)

MergeSpec == MergeInit /\ [][MergeNext]_mergeVars

-----------------------------------------------------------------------------

\* What the merged job must be, given only the set of types asked for.
MergeOf(S, s) ==
    CASE S = {"stop"} -> "stop"
      [] "restart" \in S -> "restart"
      [] "restart" \notin S /\ {"start", "reload"} \subseteq S ->
            IF ActiveOrReloading(s) THEN "reload" ELSE "start"
      [] "restart" \notin S /\ "reload" \in S /\ "start" \notin S -> "reload"
      [] S \cap {"restart", "reload"} = {} /\ "start" \in S -> "start"
      [] S = {"verify-active"} -> "verify-active"

\* The merged job depends on which types were merged and not on the order of
\* the merges: the comment above job_merging_table calls merging commutative
\* and, once collapsed, associative.
OrderIrrelevant == type = MergeOf(merged, state)

\* A stop is never merged with anything else, so a job that was asked to stop
\* a unit cannot turn into one that starts it (the -1 entries of the table).
StopNeverAbsorbed == "stop" \in merged => merged = {"stop"}

\* What a merged job refuses, one of the jobs it was merged from refuses too:
\* "if A merged with B cannot be merged with C, then either A or B cannot be
\* merged with C either" (the comment above job_merging_table).
RefusalExplained ==
    \A t \in refused : \E m \in merged : ~job_type_is_mergeable(m, t)
=============================================================================
