--------------------------- MODULE DurableJournal ---------------------------
(***************************************************************************)
(* What a journal file promises to whoever finds it after a power failure  *)
(* (the checks of journal_file_verify_header()): a file that is marked     *)
(* online may lack entries and is not written again once it does, one that *)
(* is marked offline or archived is complete, and an archived file never   *)
(* changes again.                                                          *)
(***************************************************************************)
CONSTANT File

VARIABLES
    mark,       \* the state in the header on disk
    pending,    \* entries were written that are not on disk
    lost        \* entries were lost

vars == <<mark, pending, lost>>

Init ==
    /\ mark = [f \in File |-> "offline"]
    /\ pending = [f \in File |-> FALSE]
    /\ lost = [f \in File |-> FALSE]

\* The file is about to be written to.
GoOnline(f) ==
    /\ mark[f] = "offline"
    /\ mark' = [mark EXCEPT ![f] = "online"]
    /\ UNCHANGED <<pending, lost>>

Write(f) ==
    /\ mark[f] = "online" /\ ~lost[f]
    /\ pending' = [pending EXCEPT ![f] = TRUE]
    /\ UNCHANGED <<mark, lost>>

Persist(f) ==
    /\ pending' = [pending EXCEPT ![f] = FALSE]
    /\ UNCHANGED <<mark, lost>>

\* Only a complete file is marked as such.
Clean(f) ==
    /\ mark[f] # "archived" /\ ~pending[f] /\ ~lost[f]
    /\ \E m \in {"offline", "archived"} : mark' = [mark EXCEPT ![f] = m]
    /\ UNCHANGED <<pending, lost>>

PowerFailure ==
    /\ lost' = [f \in File |-> lost[f] \/ pending[f]]
    /\ pending' = [f \in File |-> FALSE]
    /\ UNCHANGED mark

Next ==
    \/ \E f \in File : GoOnline(f) \/ Write(f) \/ Persist(f) \/ Clean(f)
    \/ PowerFailure

Spec == Init /\ [][Next]_vars
=============================================================================
