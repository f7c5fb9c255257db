---------------------------- MODULE LoginSystem ----------------------------
(***************************************************************************)
(* The log-in of the application: handleLogIn of the gateway               *)
(* (app-gateway/handlers/handlers.go) calls PublishWithResponse and turns  *)
(* what it returns into an HTTP response, and the users service            *)
(* (api/users/main.go) comes up, serves the requests the broker hands to   *)
(* it, and goes down.  Call c of Transport is the c-th log-in; its Answer  *)
(* is made here by the users service.                                      *)
(***************************************************************************)
EXTENDS Transport

VARIABLES
  sent,                \* how the browser's request ended: a status, "aborted"
                       \* (connection cut without a response), or "none" yet
  users,               \* how far the users service is in main()
  usersSubscribed,     \* whether the broker has its subscription
  usersInbox,          \* requests the broker has sent to it
  unserved             \* requests that reached it and got no answer

usersVars == <<users, usersSubscribed, usersInbox, unserved>>
loginVars == <<vars, sent, users, usersSubscribed, usersInbox, unserved>>

Endings == {"none", "200", "204", "500", "504", "aborted"}

LoginTypeOK ==
  /\ TypeOK
  /\ sent \in [Calls -> Endings]
  /\ users \in {"down", "subscribed", "serving"}
  /\ usersSubscribed \in BOOLEAN
  /\ usersInbox \subseteq Calls
  /\ unserved \subseteq Calls

LoginInit ==
  /\ Init
  /\ sent = [c \in Calls |-> "none"]
  /\ users = "down"
  /\ usersSubscribed = FALSE
  /\ usersInbox = {}
  /\ unserved = {}

-----------------------------------------------------------------------------
(* The gateway: handleLogIn.                                               *)

\* CheckTransportResponseForErrors: the status it writes, "none" for a good
\* response.  Error is tested before TimeOut.
CheckedStatus(r) ==
  CASE r.error \/ r = NoResponse -> "500"
    [] ~r.error /\ r.timeOut -> "504"
    [] OTHER -> "none"

\* Whether it returns an error.  "errorBytes, err := request.Marshal()"
\* assigns the err of the whole function: only if the marshalling fails (a
\* User-Agent that is not UTF-8 will do) is there one left.
CheckReturnsError(r, marshals) == CheckedStatus(r) # "none" /\ ~marshals

\* Mutant of EndingFor: the page is shown unchecked.
PageUnchecked(r, marshals, readable) ==
  IF CheckReturnsError(r, marshals) THEN CheckedStatus(r) ELSE "200"

\* An empty payload unmarshals to a message without Response, and reading
\* its Data panics.  net/http then cuts the connection and the status, which
\* is still buffered, is not sent.  A payload that is no list of users is
\* answered with 204.
EndingFor(r, marshals, readable) ==
  CASE CheckReturnsError(r, marshals) -> CheckedStatus(r)
    [] ~CheckReturnsError(r, marshals) /\ r.payload = NoPacket -> "aborted"
    [] OTHER -> IF readable THEN "200" ELSE "204"

\* The select of handleLogIn takes either case that is ready; the response
\* always is, because PublishWithResponse has returned.
Finish(c, ending) ==
  /\ pc[c] = "returned"
  /\ sent[c] = "none"
  /\ sent' = [sent EXCEPT ![c] = ending]
  /\ UNCHANGED <<vars, usersVars>>

\* Mutant of FinishLate: the context is not looked at.
FinishAnyTime(c) == Finish(c, "504")

FinishLate(c) == c \in ctxDone /\ Finish(c, "504")

FinishWithResponse(c) ==
  \E marshals, readable \in BOOLEAN :
    Finish(c, EndingFor(responseChan[c], marshals, readable))

\* The broker takes the request and passes it to the users service, if that
\* is subscribed.
SendLogIn(c) ==
  /\ SendRequest(c)
  /\ usersInbox' = IF usersSubscribed THEN usersInbox \cup {c} ELSE usersInbox
  /\ UNCHANGED <<sent, users, usersSubscribed, unserved>>

\* Every other step of the transport, which the rest does not notice.
Alone(step) == step /\ UNCHANGED <<sent, usersVars>>

GatewayPacket == Alone(\E p \in inbox : HandleIncomingPublish(p))

GatewayLosesBroker == Alone(Disconnect)

LogInBegins(c)  == sent[c] = "none" /\ Alone(Call(c))
LogInExpires(c) == Alone(Expire(c))

\* The request cannot be marshalled: the log-in ends before any call.
LogInFails(c) ==
  /\ pc[c] = "idle"
  /\ sent[c] = "none"
  /\ sent' = [sent EXCEPT ![c] = "500"]
  /\ UNCHANGED <<vars, usersVars>>

LogInStep(c) ==
  \/ SendLogIn(c)
  \/ Alone(QuietStep(c))
  \/ FinishLate(c)
  \/ FinishWithResponse(c)

-----------------------------------------------------------------------------
(* The users service.                                                      *)

\* NewAppDeps: Connect with a clean session, so that nothing is kept from an
\* earlier life, and SubscribeMultiple, which ignores the error of Subscribe.
UsersSubscribe ==
  /\ users = "down"
  /\ users' = "subscribed"
  /\ usersSubscribed' \in BOOLEAN
  /\ UNCHANGED <<vars, sent, usersInbox, unserved>>

\* RegisterHandler, after the subscription is there.
UsersRegisterHandler ==
  /\ users = "subscribed"
  /\ users' = "serving"
  /\ UNCHANGED <<vars, sent, usersSubscribed, usersInbox, unserved>>

\* Mutant of UsersServe: a served request is not acknowledged.
UsersServeAgain(c) ==
  /\ users = "serving"
  /\ c \in usersInbox
  /\ Answer(c)
  /\ UNCHANGED <<sent, usersVars>>

\* The handler answers on the response topic.
UsersServe(c) ==
  /\ users = "serving"
  /\ c \in usersInbox
  /\ usersInbox' = usersInbox \ {c}
  /\ Answer(c)
  /\ UNCHANGED <<sent, users, usersSubscribed, unserved>>

\* A request that comes before the handler is routed to nobody; once there is
\* one, its publish may fail, for one because SIGTERM has cancelled the context
\* it uses.  Neither is retried.
UsersDrop(c) ==
  /\ users \in {"subscribed", "serving"}
  /\ c \in usersInbox
  /\ usersInbox' = usersInbox \ {c}
  /\ unserved' = unserved \cup {c}
  /\ UNCHANGED <<vars, sent, users, usersSubscribed>>

\* The deferred Unsubscribe and Close, or a crash at any point: what has not
\* been handled is not delivered again to the next clean session.
UsersGone ==
  /\ users # "down"
  /\ users' = "down"
  /\ usersSubscribed' = FALSE
  /\ usersInbox' = {}
  /\ unserved' = unserved \cup usersInbox
  /\ UNCHANGED <<vars, sent>>

UsersStep ==
  \/ UsersSubscribe \/ UsersRegisterHandler \/ UsersGone
  \/ \E c \in usersInbox : UsersServe(c) \/ UsersDrop(c)

LoginNext ==
  \/ \E c \in Calls : \/ LogInBegins(c) \/ LogInFails(c)
                      \/ LogInStep(c) \/ LogInExpires(c)
  \/ GatewayPacket
  \/ GatewayLosesBroker
  \/ UsersStep

LoginSpec == LoginInit /\ [][LoginNext]_loginVars

\* The gateway's goroutines run, the log-in's context has a timeout
\* (handlers.go:117).  Nothing is assumed of the users service.
LoginFairness ==
  /\ \A c \in Calls : WF_loginVars(LogInStep(c)) /\ WF_loginVars(LogInExpires(c))
  /\ WF_loginVars(GatewayPacket)

LoginFairSpec == LoginSpec /\ LoginFairness

-----------------------------------------------------------------------------
(* What must hold.                                                         *)

\* The dashboard is shown only for a log-in whose own request the users
\* service served: never for one it dropped before its handler was
\* registered, failed to answer, or lost when it went down
\* (handlers.go:194-197 with api/users/main.go:50 and 101-116).
PageOnlyForServedLogIn ==
  \A c \in Calls : sent[c] = "200" =>
    /\ c \notin unserved
    /\ IsAnswerTo(c, responseChan[c].payload)

\* The browser's connection is cut without a status only for a call that came
\* back with an error, never when there was an answer to show
\* (transport.go:328-358 and handlers.go:167-185).
CutOffOnlyAfterError ==
  \A c \in Calls : sent[c] = "aborted" => responseChan[c].error

\* "Request timedout" is answered only when the context of the log-in is over
\* (handlers.go:160-166).
GatewayTimeoutOnlyAfterDeadline ==
  \A c \in Calls : sent[c] = "504" => c \in ctxDone

\* What the browser is told is true: a page, a cut connection and a timeout each
\* mean what they say (handlers.go:158-198).
EndingsAreTrue ==
  /\ PageOnlyForServedLogIn
  /\ CutOffOnlyAfterError
  /\ GatewayTimeoutOnlyAfterDeadline

\* The users service answers a request at most once, whatever crashes and
\* restarts happen in between (api/users/main.go:101-116).
ServedAtMostOnce ==
  \A c \in Calls : answers[c] <= 1 /\ (c \in unserved => answers[c] = 0)

\* Every log-in gets its ending, however the users service and the broker
\* behave, unless the transport's router blocks (handlers.go:117, 158-198).
LogInEndsUnlessBlocked ==
  \A c \in Calls :
    (pc[c] = "register") ~> (sent[c] # "none" \/ reqResLock = "router")

\* The log-in form shows 5xx answers (forms.templ:33,
\* hx-target-5*="#serious-errors"): a log-in that failed ends with such a
\* status.
FailureReachesForm ==
  \A c \in Calls : sent[c] # "none" /\ responseChan[c].error =>
    sent[c] \in {"500", "504"}

-----------------------------------------------------------------------------
(* The inductive invariant, on top of Transport's IInv.                    *)

\* The users service has, or has lost, only requests the broker took and
\* nobody has answered, and none of them twice.
RequestsHandledOnce ==
  /\ usersInbox \cap unserved = {}
  /\ \A c \in usersInbox \cup unserved : c \in requested /\ answers[c] = 0
  /\ \A c \in Calls : answers[c] <= 1

\* A log-in that has ended has its response, and its ending says what it is.
EndingsHonest ==
  \A c \in Calls :
    /\ sent[c] \notin {"none", "500"} => pc[c] = "returned"
    /\ sent[c] = "200" => HasAnswer(c)
    /\ sent[c] = "aborted" => responseChan[c].error
    /\ sent[c] = "504" => c \in ctxDone

LoginIInv ==
  /\ IInv
  /\ LoginTypeOK
  /\ RequestsHandledOnce
  /\ EndingsHonest
=============================================================================
