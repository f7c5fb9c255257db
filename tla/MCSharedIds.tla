---------------------------- MODULE MCSharedIds -----------------------------
(***************************************************************************)
(* SharedIds for TLC.  The calls are interchangeable.                      *)
(***************************************************************************)
EXTENDS SharedIds, TLC

Symmetry == Permutations(Calls)
=============================================================================
