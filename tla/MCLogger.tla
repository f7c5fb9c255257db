----------------------------- MODULE MCLogger ------------------------------
(***************************************************************************)
(* Logger for TLC: INFO and ERROR, so that a level can be set that keeps   *)
(* calls out of the log.  Goroutines are interchangeable.                  *)
(***************************************************************************)
EXTENDS Logger, TLC

MCLevels == {0, 3}

Input(level, messages, values) ==
  [level : {level}, message : messages, value : values]

\* Everything at INFO, and an ERROR with nothing, a Message or a bad Value.
AloneInputs ==
  Input(0, {"none", "good", "bad"}, {"none", "good", "bad"})
  \cup Input(3, {"none", "good"}, {"none"}) \cup Input(3, {"none"}, {"bad"})

\* A bad Message does to others what a bad Value does.
SharedInputs == Input(0, {"none", "good"}, {"none", "good", "bad"})

Symmetry == Permutations(Goroutines)
=============================================================================
