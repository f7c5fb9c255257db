--------------------------- MODULE MCLoginSystem ----------------------------
(***************************************************************************)
(* LoginSystem for TLC.  No symmetry: the runs check temporal properties.  *)
(***************************************************************************)
EXTENDS LoginSystem
=============================================================================
