----------------------------- MODULE SharedIds ------------------------------
(***************************************************************************)
(* lib/transport/transport.go again, for callers that pass a               *)
(* PublishRequest of their own to PublishWithResponse, where Transport has *)
(* callers that pass none.  Such a struct bears the caller's correlation   *)
(* id, or a blank one, or has no Properties: then the call writes a fresh  *)
(* id into the caller's struct (transport.go:204-212), where the next call *)
(* with that struct finds it.  The struct is read three times: for nil     *)
(* Properties (204), for the key of the channel (214), and for the id of   *)
(* the request (408).                                                      *)
(*                                                                         *)
(* Of publish only its effect is kept, and an answer is given and handled  *)
(* in one step; contexts may end at any time.  Transport has the rest.     *)
(***************************************************************************)
EXTENDS Integers, FiniteSets

CONSTANTS
  Calls,
  Structs,             \* the PublishRequests that callers share
  Blank,               \* the empty correlation id
  None,                \* nothing: no struct, no id, no channel, no answer
  MaxAnswers           \* bound: how often a request is answered

ASSUME DistinctAssumption ==
  /\ Calls \cap Structs = {}
  /\ Blank \notin Calls \cup Structs
  /\ None \notin Calls \cup Structs \cup {Blank, "error"}
  /\ "error" \notin Calls
ASSUME MaxAnswersAssumption == MaxAnswers \in Nat

\* A fresh UUID is named by the call it was made for, a caller's own id by its
\* struct.
Ids == Calls \cup Structs \cup {Blank}

VARIABLES
  correlationData,     \* of each struct; None while it has no Properties
  struct,              \* the struct each call was given
  pc,                  \* where in PublishWithResponse each call is
  corID,               \* the key under which its channel is registered
  responseID,          \* the id its request goes out with
  requestResponseChan, \* for each id, the call whose channel is registered
  pendingRequests,     \* the ids whose answer is expected
  waitCh,              \* each call's channel: the call whose answer it holds
  closed,              \* the channels that are closed
  got,                 \* what each call returned: whose answer, or "error"
  requested,           \* the calls whose request the broker has
  answers,             \* how often each of them was answered
  router,              \* "running", "blocked" (with the lock) or "panicked"
  careful              \* history: nobody has reused a struct carelessly

tableVars == <<requestResponseChan, pendingRequests>>
channelVars == <<waitCh, closed>>
brokerVars == <<requested, answers>>
idVars == <<correlationData, struct, corID, responseID>>
vars == <<correlationData, struct, pc, corID, responseID, requestResponseChan,
          pendingRequests, waitCh, closed, got, requested, answers, router,
          careful>>

Steps == {"idle", "fill", "key", "register", "id", "pending", "publish",
          "wait", "cleanup", "returned"}

TypeOK ==
  /\ correlationData \in [Structs -> Ids \cup {None}]
  /\ struct \in [Calls -> Structs \cup {None}]
  /\ pc \in [Calls -> Steps]
  /\ corID \in [Calls -> Ids \cup {None}]
  /\ responseID \in [Calls -> Calls \cup Structs \cup {None}]
  /\ requestResponseChan \in [Ids -> Calls \cup {None}]
  /\ pendingRequests \subseteq Calls \cup Structs
  /\ waitCh \in [Calls -> Calls \cup {None}]
  /\ closed \subseteq Calls
  /\ got \in [Calls -> Calls \cup {"error", None}]
  /\ requested \subseteq Calls
  /\ answers \in [Calls -> 0..MaxAnswers]
  /\ router \in {"running", "blocked", "panicked"}
  /\ careful \in BOOLEAN

Init ==
  /\ correlationData \in {f \in [Structs -> Structs \cup {Blank, None}] :
                            \A s \in Structs : f[s] \in {s, Blank, None}}
  /\ struct = [c \in Calls |-> None]
  /\ pc = [c \in Calls |-> "idle"]
  /\ corID = [c \in Calls |-> None]
  /\ responseID = [c \in Calls |-> None]
  /\ requestResponseChan = [i \in Ids |-> None]
  /\ pendingRequests = {}
  /\ waitCh = [c \in Calls |-> None]
  /\ closed = {}
  /\ got = [c \in Calls |-> None]
  /\ requested = {}
  /\ answers = [c \in Calls |-> 0]
  /\ router = "running"
  /\ careful = TRUE

-----------------------------------------------------------------------------
(* PublishWithResponse and publish, one call c.                            *)

Alive == router # "panicked"
LockFree == router = "running"

Goto(c, step) == pc' = [pc EXCEPT ![c] = step]

\* What a call finds in its struct; without one, its own fresh id.
IdFound(c) == IF struct[c] = None THEN c ELSE correlationData[struct[c]]

\* Reuse is careful when every earlier call with the struct has returned the
\* answer to its own request, and the struct's id is not blank.
ReusedWithCare(s) ==
  /\ correlationData[s] # Blank
  /\ \A d \in Calls : struct[d] = s => pc[d] = "returned" /\ got[d] = d

\* The struct is looked at for Properties.
Call(c, s) ==
  /\ Alive
  /\ pc[c] = "idle"
  /\ struct' = [struct EXCEPT ![c] = s]
  /\ Goto(c, IF s # None /\ correlationData[s] = None THEN "fill" ELSE "key")
  /\ careful' = (careful /\ (s # None => ReusedWithCare(s)))
  /\ UNCHANGED <<correlationData, corID, responseID, tableVars, channelVars,
                 got, brokerVars, router>>

FillProperties(c) ==
  /\ Alive
  /\ pc[c] = "fill"
  /\ correlationData' = [correlationData EXCEPT ![struct[c]] = c]
  /\ Goto(c, "key")
  /\ UNCHANGED <<struct, corID, responseID, tableVars, channelVars, got,
                 brokerVars, router, careful>>

ReadKey(c) ==
  /\ Alive
  /\ pc[c] = "key"
  /\ corID' = [corID EXCEPT ![c] = IdFound(c)]
  /\ Goto(c, "register")
  /\ UNCHANGED <<correlationData, struct, responseID, tableVars, channelVars,
                 got, brokerVars, router, careful>>

\* The channel replaces one that is registered under the same key.
Register(c) ==
  /\ LockFree
  /\ pc[c] = "register"
  /\ requestResponseChan' = [requestResponseChan EXCEPT ![corID[c]] = c]
  /\ Goto(c, "id")
  /\ UNCHANGED <<idVars, pendingRequests, channelVars, got, brokerVars,
                 router, careful>>

\* Mutant of IdToSend: a blank id goes out as a struct's own does.
KeyToSend(c) == corID[c]

\* publish makes an id of its own when it finds a blank one.
IdToSend(c) == IF IdFound(c) = Blank THEN c ELSE IdFound(c)

ReadId(c) ==
  /\ Alive
  /\ pc[c] = "id"
  /\ responseID' = [responseID EXCEPT ![c] = IdToSend(c)]
  /\ Goto(c, "pending")
  /\ UNCHANGED <<correlationData, struct, corID, tableVars, channelVars, got,
                 brokerVars, router, careful>>

MarkPending(c) ==
  /\ LockFree
  /\ pc[c] = "pending"
  /\ pendingRequests' = pendingRequests \cup {responseID[c]}
  /\ Goto(c, "publish")
  /\ UNCHANGED <<idVars, requestResponseChan, channelVars, got, brokerVars,
                 router, careful>>

\* The broker has the request, and publish returns without an error.
SendRequest(c) ==
  /\ Alive
  /\ pc[c] = "publish"
  /\ requested' = requested \cup {c}
  /\ Goto(c, "wait")
  /\ UNCHANGED <<idVars, tableVars, channelVars, got, answers, router, careful>>

\* publish returns an error, though the broker may have the request; or the
\* context ends.
GiveUp(c) ==
  /\ Alive
  /\ \/ /\ pc[c] = "publish"
        /\ \/ requested' = requested \cup {c}
           \/ UNCHANGED requested
     \/ pc[c] = "wait" /\ UNCHANGED requested
  /\ got' = [got EXCEPT ![c] = "error"]
  /\ Goto(c, "cleanup")
  /\ UNCHANGED <<idVars, tableVars, channelVars, answers, router, careful>>

Receive(c) ==
  /\ Alive
  /\ pc[c] = "wait"
  /\ waitCh[c] # None
  /\ got' = [got EXCEPT ![c] = waitCh[c]]
  /\ waitCh' = [waitCh EXCEPT ![c] = None]
  /\ Goto(c, "cleanup")
  /\ UNCHANGED <<idVars, tableVars, closed, brokerVars, router, careful>>

\* Mutant of Cleanup: without wg.Wait() it may come after the return.
CleanupUnawaited(c) ==
  /\ LockFree
  /\ \/ pc[c] = "cleanup" /\ UNCHANGED requestResponseChan
     \/ pc[c] = "returned" /\ requestResponseChan' = [requestResponseChan EXCEPT ![corID[c]] = None]
  /\ Goto(c, "returned")
  /\ UNCHANGED <<idVars, pendingRequests, channelVars, got, brokerVars,
                 router, careful>>

\* Whatever is registered under the call's key goes, another's channel too.
Cleanup(c) ==
  /\ LockFree
  /\ pc[c] = "cleanup"
  /\ requestResponseChan' = [requestResponseChan EXCEPT ![corID[c]] = None]
  /\ Goto(c, "returned")
  /\ UNCHANGED <<idVars, pendingRequests, channelVars, got, brokerVars,
                 router, careful>>

-----------------------------------------------------------------------------
(* An answer to the request of call c comes in: handleIncomingPublish.     *)

\* Mutants of Deliver: any waiting call is given the answer; the id stays
\* pending.
DeliverToAnyone(c, d) ==
  /\ \E e \in Calls \ closed :
       /\ waitCh' = [waitCh EXCEPT ![e] = c]
       /\ closed' = closed \cup {e}
  /\ pendingRequests' = pendingRequests \ {responseID[c]}
  /\ UNCHANGED router

DeliverAgain(c, d) ==
  /\ waitCh' = [waitCh EXCEPT ![d] = c]
  /\ closed' = closed \cup {d}
  /\ UNCHANGED <<pendingRequests, router>>

\* Send to the channel registered under the answer's id, close it, forget id.
Deliver(c, d) ==
  /\ waitCh' = [waitCh EXCEPT ![d] = c]
  /\ closed' = closed \cup {d}
  /\ pendingRequests' = pendingRequests \ {responseID[c]}
  /\ UNCHANGED router

\* A nil channel blocks with the lock held, a closed one panics.
Stop(state) ==
  /\ router' = state
  /\ UNCHANGED <<channelVars, pendingRequests>>

Expected(c) == responseID[c] \in pendingRequests

HandleIncomingPublish(c) ==
  /\ LockFree
  /\ c \in requested
  /\ answers[c] < MaxAnswers
  /\ answers' = [answers EXCEPT ![c] = @ + 1]
  /\ LET d == requestResponseChan[responseID[c]]
     IN \/ Expected(c) /\ d # None /\ d \notin closed /\ Deliver(c, d)
        \/ Expected(c) /\ d # None /\ d \in closed /\ Stop("panicked")
        \/ Expected(c) /\ d = None /\ Stop("blocked")
        \/ ~Expected(c) /\ Stop("running")
  /\ careful' = (careful /\ (struct[c] # None => answers[c] = 0))
  /\ UNCHANGED <<idVars, pc, requestResponseChan, got, requested>>

Next ==
  \E c \in Calls :
    \/ \E s \in Structs \cup {None} : Call(c, s)
    \/ FillProperties(c) \/ ReadKey(c) \/ Register(c) \/ ReadId(c)
    \/ MarkPending(c) \/ SendRequest(c) \/ GiveUp(c) \/ Receive(c) \/ Cleanup(c)
    \/ HandleIncomingPublish(c)

Spec == Init /\ [][Next]_vars

-----------------------------------------------------------------------------
(* What must hold.                                                         *)

\* Call d uses id i, as its key or in its request.
Uses(d, i) == corID[d] = i \/ responseID[d] = i

\* Two calls use id i, one of them for its request.
Shared(i) == \E c, d \in Calls : c # d /\ responseID[c] = i /\ Uses(d, i)

\* Nobody but c uses the id that c's request went out with, and c's channel is
\* registered under it.
OwnId(c) ==
  /\ corID[c] = responseID[c]
  /\ \A d \in Calls \ {c} : ~Uses(d, responseID[c])

\* What a call gets was the answer to a request with the id of its channel.  So
\* only a call that shares an id can get another's answer: one that does not gets
\* its own or an error, however the others mix up theirs (transport.go:214-241
\* and 459-472).
AnswerBearsKey ==
  \A c \in Calls : got[c] \in Calls => responseID[got[c]] = corID[c]

\* The receiving goroutine panics on a closed channel only after two calls
\* have used one id (transport.go:465).
PanicTakesTwo ==
  router = "panicked" => \E i \in Ids : Shared(i)

\* The receiving goroutine blocks only on the answer to a call that returned an
\* error, or that registered its channel under another key than it sent, or
\* that shares its id (transport.go:214, 408-410, 465).
BlockedForAReason ==
  router = "blocked" =>
    \E c \in Calls :
      /\ answers[c] > 0
      /\ responseID[c] \in pendingRequests
      /\ \/ pc[c] \in {"cleanup", "returned"} /\ got[c] = "error"
         \/ ~OwnId(c)

\* A struct with a blank id never brings its caller an answer: the channel is
\* under the empty key, the request bears a fresh id, and the first answer
\* finds no channel and stops the router (transport.go:214 against 410).
BlankIdStopsRouter ==
  \A c \in Calls : corID[c] = Blank =>
    /\ got[c] \in {"error", None}
    /\ answers[c] > 0 => router # "running"

\* A struct may be used for one call after another, as long as each ends with
\* its own answer before the next begins and no request is answered twice:
\* then no call gets another's answer, and only a call that gave up can stop
\* the router (transport.go:204-218 and 221-224).
CarefulReuseIsHarmless ==
  careful =>
    /\ \A c \in Calls : got[c] \in {c, "error", None}
    /\ router # "panicked"
    /\ router = "blocked" =>
         \E c \in Calls : got[c] = "error" /\ answers[c] > 0

-----------------------------------------------------------------------------
(* The inductive invariant.                                                *)

\* The calls that have a channel registered, unless another took its place.
Registered == {"id", "pending", "publish", "wait", "cleanup"}

\* What a call has read, sent and returned follows from how far it is.
IdsFollowCalls ==
  \A c \in Calls :
    /\ pc[c] = "idle" => struct[c] = None
    /\ corID[c] = None <=> pc[c] \in {"idle", "fill", "key"}
    /\ responseID[c] = None <=> pc[c] \in {"idle", "fill", "key", "register", "id"}
    /\ got[c] = None <=> pc[c] \notin {"cleanup", "returned"}
    /\ c \in requested => pc[c] \in {"wait", "cleanup", "returned"}
    /\ answers[c] > 0 => c \in requested

\* Id i comes from struct s, or is a fresh one for a call with that struct.
ComesFrom(i, s) == i = s \/ (i \in Calls /\ struct[i] = s)

\* Ids go from structs to calls and never from one struct to another; a blank
\* struct stays blank, and no call has a better key from it.
IdsComeFromStructs ==
  /\ \A s \in Structs : correlationData[s] \notin {Blank, None} =>
       ComesFrom(correlationData[s], s)
  /\ \A c \in Calls :
       /\ struct[c] = None => {corID[c], responseID[c]} \subseteq {None, c}
       /\ struct[c] # None =>
            /\ corID[c] \notin {Blank, None} => ComesFrom(corID[c], struct[c])
            /\ responseID[c] # None => ComesFrom(responseID[c], struct[c])
            /\ corID[c] # None =>
                 (corID[c] = Blank <=> correlationData[struct[c]] = Blank)
            /\ pc[c] # "fill" => correlationData[struct[c]] # None
       /\ pc[c] = "fill" =>
            struct[c] # None /\ correlationData[struct[c]] # Blank

\* A registered channel is under the key of a call under way; a call's channel
\* can only be missing where somebody else has the same key.
TableFollowsCalls ==
  /\ \A i \in Ids : LET d == requestResponseChan[i]
                    IN d # None => corID[d] = i /\ pc[d] \in Registered
  /\ \A c \in Calls : pc[c] \in Registered =>
       \/ requestResponseChan[corID[c]] = c
       \/ \E d \in Calls \ {c} : corID[d] = corID[c]

\* What a channel holds, or has held, was sent for the channel's key; then the
\* key is shared, or it has had its answer and is pending no more.
ChannelsFilledForKey ==
  \A c \in Calls :
    /\ \A e \in {waitCh[c], got[c]} \cap Calls :
         c \in closed /\ answers[e] > 0 /\ responseID[e] = corID[c]
    /\ c \in closed =>
         /\ corID[c] # None
         /\ \/ Shared(corID[c])
            \/ /\ responseID[c] = corID[c] /\ corID[c] \notin pendingRequests
               /\ c \in requested

\* The fresh id of a request with a blank struct is never answered for.
BlankIdsStayPending ==
  \A c \in Calls : corID[c] = Blank =>
    /\ responseID[c] \in {None, c}
    /\ pc[c] \in {"publish", "wait", "cleanup", "returned"} => c \in pendingRequests

HasOwnAnswer(c) == pc[c] = "returned" /\ got[c] = c

\* Careful callers of one struct follow each other, with one id for the
\* channel and the request, and find their channel registered.
FollowsOthers(c) ==
  /\ struct[c] # None =>
       /\ correlationData[struct[c]] # Blank
       /\ pc[c] = "fill" => correlationData[struct[c]] = None
       /\ {corID[c], responseID[c]} \subseteq {None, correlationData[struct[c]]}
       /\ \A d \in Calls \ {c} : struct[d] = struct[c] =>
            HasOwnAnswer(c) \/ HasOwnAnswer(d)
  /\ pc[c] \in Registered => requestResponseChan[corID[c]] = c
  /\ waitCh[c] \in {c, None}
  /\ c \in closed => answers[c] > 0

CarefulCallsAlternate == careful => \A c \in Calls : FollowsOthers(c)

IInv ==
  /\ TypeOK
  /\ IdsFollowCalls
  /\ IdsComeFromStructs
  /\ TableFollowsCalls
  /\ ChannelsFilledForKey
  /\ BlankIdsStayPending
  /\ CarefulCallsAlternate
  /\ PanicTakesTwo
  /\ BlockedForAReason
  /\ BlankIdStopsRouter
  /\ CarefulReuseIsHarmless
=============================================================================
