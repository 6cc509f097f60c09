----------------------------- MODULE MCJournal -----------------------------
(***************************************************************************)
(* Journal files that differ in nothing but their names.                   *)
(***************************************************************************)
EXTENDS JournalOffline, TLC

Symmetry == Permutations(File)
=============================================================================
