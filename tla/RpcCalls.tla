------------------------------ MODULE RpcCalls ------------------------------
(***************************************************************************)
(* What lib/transport promises the caller of PublishWithResponse (the      *)
(* "MQTT v5 Request-Response Pattern" of ITransport, types.go:28-31): one  *)
(* call ends at most once, with one outcome that never changes; the        *)
(* outcome is an answer only if the responder answered that very call, a   *)
(* timeout only if the caller's context was over.  Transport.tla           *)
(* implements it.                                                          *)
(***************************************************************************)

CONSTANT Calls         \* the calls, named by their correlation ids

VARIABLES
  status,              \* "idle", "open" or "closed", for each call
  served,              \* the calls the responder has answered
  late,                \* the calls whose context is over
  outcome              \* what the caller was given, once its call is closed

vars == <<status, served, late, outcome>>

Outcomes == {"answer", "timeout", "error"}

TypeOK ==
  /\ status \in [Calls -> {"idle", "open", "closed"}]
  /\ served \subseteq Calls
  /\ late \subseteq Calls
  /\ outcome \in [Calls -> Outcomes \cup {"none"}]

Init ==
  /\ status = [c \in Calls |-> "idle"]
  /\ served = {}
  /\ late = {}
  /\ outcome = [c \in Calls |-> "none"]

-----------------------------------------------------------------------------

Open(c) ==
  /\ status[c] = "idle"
  /\ status' = [status EXCEPT ![c] = "open"]
  /\ UNCHANGED <<served, late, outcome>>

\* The responder knows nothing of deadlines: it may answer a call that is over.
Serve(c) ==
  /\ status[c] # "idle"
  /\ served' = served \cup {c}
  /\ UNCHANGED <<status, late, outcome>>

Expire(c) ==
  /\ status[c] # "idle"
  /\ late' = late \cup {c}
  /\ UNCHANGED <<status, served, outcome>>

Close(c, o) ==
  /\ status[c] = "open"
  /\ o = "answer" => c \in served
  /\ o = "timeout" => c \in late
  /\ status' = [status EXCEPT ![c] = "closed"]
  /\ outcome' = [outcome EXCEPT ![c] = o]
  /\ UNCHANGED <<served, late>>

Next ==
  \E c \in Calls :
    \/ Open(c)
    \/ Serve(c)
    \/ Expire(c)
    \/ \E o \in Outcomes : Close(c, o)

Spec == Init /\ [][Next]_vars
=============================================================================
