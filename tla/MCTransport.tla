---------------------------- MODULE MCTransport -----------------------------
(***************************************************************************)
(* Transport for TLC.  No symmetry: the runs check temporal properties.    *)
(***************************************************************************)
EXTENDS Transport
=============================================================================
