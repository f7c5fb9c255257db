----------------------------- MODULE MCRollout -----------------------------
(***************************************************************************)
(* Rollout for TLC.  No symmetry: one run checks a temporal property.      *)
(***************************************************************************)
EXTENDS Rollout
=============================================================================
