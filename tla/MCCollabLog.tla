----------------------------- MODULE MCCollabLog -----------------------------
(***************************************************************************)
(* Small instance of CollabLog: two write sessions, so that an append and a *)
(* compaction (or two compactions) overlap, and a log of two pages.        *)
(***************************************************************************)
EXTENDS CollabLog, TLC

Symmetry == Permutations(Procs) \cup Permutations(Readers)
=============================================================================
