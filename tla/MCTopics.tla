------------------------------ MODULE MCTopics ------------------------------
(***************************************************************************)
(* Topics for TLC: a domain that is the word "request" itself, one that    *)
(* ends in it, and one that does not.                                      *)
(***************************************************************************)
EXTENDS Topics

MCDomains == {"users", "request", "userrequest"}
MCEndsInRequest == {"request", "userrequest"}
MCIds == {"id1", "id2"}
=============================================================================
