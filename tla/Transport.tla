----------------------------- MODULE Transport -----------------------------
(***************************************************************************)
(* lib/transport/transport.go: calls of PublishWithResponse running in     *)
(* goroutines of one process, the paho goroutine that hands every incoming *)
(* packet to handleIncomingPublish, and the broker between them and the    *)
(* responder.                                                              *)
(*                                                                         *)
(* A call is named by its correlation id: PublishWithResponse gives a call *)
(* without properties a fresh UUID, and no caller in the repository passes *)
(* properties.  The response topic of call c, "<topic>/<c>", is named c    *)
(* too.                                                                    *)
(*                                                                         *)
(* reqResLock is held across no other call except in                       *)
(* handleIncomingPublish, which sends on a channel while it holds it.      *)
(* Every other critical section is therefore one step; the lock has a      *)
(* variable for the one holder that can keep it, the router.               *)
(***************************************************************************)
EXTENDS Integers, FiniteSets

CONSTANTS
  Calls,               \* the calls, named by their correlation ids
  NoTopic,             \* a user property that is absent
  NoPacket,            \* an empty channel
  MaxAnswers           \* bound: how often the responder may answer one call

ASSUME NoTopicAssumption == NoTopic \notin Calls
ASSUME MaxAnswersAssumption == MaxAnswers \in Nat

VARIABLES
  pc,                  \* where in PublishWithResponse each call is
  ctxDone,             \* the calls whose context is over
  reqResLock,          \* "free", or "router" when a blocked send holds it
  pendingRequests,     \* the keys of Transport.pendingRequests
  requestResponseChan, \* the keys of Transport.requestResponseChan
  waitCh,              \* each call's channel: what it buffers, whether closed
  responseChan,        \* what each call has sent on its channel to the caller
  connected,           \* the network connection to the broker
  subscribed,          \* response topics the broker has a subscription for
  requested,           \* the calls whose request the broker has accepted
  answers,             \* how often the responder has answered each call
  inbox                \* packets the broker has sent to this client

callerVars == <<pc, responseChan>>
tableVars == <<pendingRequests, requestResponseChan, waitCh>>
brokerVars == <<subscribed, requested, answers, inbox>>
vars == <<pc, ctxDone, reqResLock, pendingRequests, requestResponseChan,
          waitCh, responseChan, connected, subscribed, requested, answers,
          inbox>>

-----------------------------------------------------------------------------
(* The data.                                                               *)

\* A packet on response topic "to" or on the request topic; "from" and
\* "replyTo" are its user property "from" and its ResponseTopic.
Packets == [corr : Calls, replyTo : Calls, from : Calls \cup {NoTopic},
            copy : 0..MaxAnswers]

ASSUME NoPacketAssumption == NoPacket \notin Packets

\* publish() replaces the user properties by the caller's, so that a request
\* bears no "from".  The client is subscribed to the request topic as well
\* and receives its own requests back.
RequestPacket(c) == [corr |-> c, replyTo |-> c, from |-> NoTopic, copy |-> 0]

\* The n-th answer to call c: published without properties on the response
\* topic, so that publish() sets "from" and ResponseTopic to that topic.
AnswerPacket(c, n) == [corr |-> c, replyTo |-> c, from |-> c, copy |-> n]

\* Mutant of IsAnswer: the packet's "from" is not compared.
AnyPacket(p) == p \in Packets

IsAnswer(p) == p.from = p.replyTo

\* protos.BrokerResponse: TimeOut, whether Error is set, and the payload.
Responses == [timeOut : BOOLEAN, error : BOOLEAN,
              payload : Packets \cup {NoPacket}]

NoResponse  == [timeOut |-> FALSE, error |-> FALSE, payload |-> NoPacket]
Answered(p) == [timeOut |-> FALSE, error |-> FALSE, payload |-> p]
Failed      == [timeOut |-> FALSE, error |-> TRUE,  payload |-> NoPacket]
TimedOut    == [timeOut |-> TRUE,  error |-> TRUE,  payload |-> NoPacket]

Steps == {"idle", "register", "pending", "subscribe", "publish", "puback",
          "wait", "cleanup", "returned"}

TypeOK ==
  /\ pc \in [Calls -> Steps]
  /\ ctxDone \subseteq Calls
  /\ reqResLock \in {"free", "router"}
  /\ pendingRequests \subseteq Calls
  /\ requestResponseChan \subseteq Calls
  /\ waitCh \in [Calls -> [buf : Packets \cup {NoPacket}, closed : BOOLEAN]]
  /\ responseChan \in [Calls -> Responses]
  /\ connected \in BOOLEAN
  /\ subscribed \subseteq Calls
  /\ requested \subseteq Calls
  /\ answers \in [Calls -> 0..MaxAnswers]
  /\ inbox \subseteq Packets

EmptyChan == [buf |-> NoPacket, closed |-> FALSE]

Init ==
  /\ pc = [c \in Calls |-> "idle"]
  /\ ctxDone = {}
  /\ reqResLock = "free"
  /\ pendingRequests = {}
  /\ requestResponseChan = {}
  /\ waitCh = [c \in Calls |-> EmptyChan]
  /\ responseChan = [c \in Calls |-> NoResponse]
  /\ connected = TRUE
  /\ subscribed = {}
  /\ requested = {}
  /\ answers = [c \in Calls |-> 0]
  /\ inbox = {}

-----------------------------------------------------------------------------
(* PublishWithResponse and the publish it makes, one call c.               *)

Goto(c, step) == pc' = [pc EXCEPT ![c] = step]

\* Mutant of LockFree: the tables are used without the lock.
NoLock == TRUE

LockFree == reqResLock = "free"

\* A handler calls PublishWithResponse, which makes the two channels.
Call(c) ==
  /\ pc[c] = "idle"
  /\ Goto(c, "register")
  /\ UNCHANGED <<ctxDone, reqResLock, tableVars, responseChan, connected,
                 brokerVars>>

\* Mutant of Register: the channel is registered under another key.
RegisterElsewhere(c) ==
  /\ pc[c] = "register"
  /\ LockFree
  /\ Goto(c, "pending")
  /\ UNCHANGED <<ctxDone, reqResLock, tableVars, responseChan, connected,
                 brokerVars>>

Register(c) ==
  /\ pc[c] = "register"
  /\ LockFree
  /\ requestResponseChan' = requestResponseChan \cup {c}
  /\ Goto(c, "pending")
  /\ UNCHANGED <<ctxDone, reqResLock, pendingRequests, waitCh, responseChan,
                 connected, brokerVars>>

\* Mutant of MarkPending: the request goes out before the subscription.
PublishUnsubscribed(c) ==
  /\ pc[c] = "pending"
  /\ LockFree
  /\ pendingRequests' = pendingRequests \cup {c}
  /\ Goto(c, "publish")
  /\ UNCHANGED <<ctxDone, reqResLock, requestResponseChan, waitCh,
                 responseChan, connected, brokerVars>>

MarkPending(c) ==
  /\ pc[c] = "pending"
  /\ LockFree
  /\ pendingRequests' = pendingRequests \cup {c}
  /\ Goto(c, "subscribe")
  /\ UNCHANGED <<ctxDone, reqResLock, requestResponseChan, waitCh,
                 responseChan, connected, brokerVars>>

Subscribe(c) ==
  /\ pc[c] = "subscribe"
  /\ connected
  /\ subscribed' = subscribed \cup {c}
  /\ Goto(c, "publish")
  /\ UNCHANGED <<ctxDone, reqResLock, tableVars, responseChan, connected,
                 requested, answers, inbox>>

\* The broker has the request, its acknowledgement is still to come.
SendRequest(c) ==
  /\ pc[c] = "publish"
  /\ connected
  /\ requested' = requested \cup {c}
  /\ inbox' = inbox \cup {RequestPacket(c)}
  /\ Goto(c, "puback")
  /\ UNCHANGED <<ctxDone, reqResLock, tableVars, responseChan, connected,
                 subscribed, answers>>

Acknowledged(c) ==
  /\ pc[c] = "puback"
  /\ Goto(c, "wait")
  /\ UNCHANGED <<ctxDone, reqResLock, tableVars, responseChan, connected,
                 brokerVars>>

Respond(c, r) ==
  /\ responseChan' = [responseChan EXCEPT ![c] = r]
  /\ Goto(c, "cleanup")

\* publish returns an error: paho gave up on the SUBSCRIBE (which the broker
\* may have carried out), could not send the PUBLISH, or did not see its
\* acknowledgement in time.
PublishFails(c) ==
  /\ \/ /\ pc[c] = "subscribe"
        /\ connected
        /\ subscribed' = subscribed \cup {c}
     \/ /\ pc[c] \in {"subscribe", "publish", "puback"}
        /\ UNCHANGED subscribed
  /\ Respond(c, Failed)
  /\ UNCHANGED <<ctxDone, reqResLock, tableVars, connected, requested,
                 answers, inbox>>

\* Mutant of DeadlinePassed: the caller waits for ever.
DeadlineIgnored(c) == pc[c] = "none" /\ UNCHANGED vars

\* The select of PublishWithResponse takes either case that is ready.
DeadlinePassed(c) ==
  /\ pc[c] = "wait"
  /\ c \in ctxDone
  /\ Respond(c, TimedOut)
  /\ UNCHANGED <<ctxDone, reqResLock, tableVars, connected, brokerVars>>

\* From a channel that is closed and empty the select gets nothing ("!ok"), and
\* nothing goes to the caller: Answered(NoPacket) is NoResponse.
Receive(c) ==
  /\ pc[c] = "wait"
  /\ waitCh[c] # EmptyChan
  /\ waitCh' = [waitCh EXCEPT ![c].buf = NoPacket]
  /\ Respond(c, Answered(waitCh[c].buf))
  /\ UNCHANGED <<ctxDone, reqResLock, pendingRequests, requestResponseChan,
                 connected, brokerVars>>

\* Mutant of Cleanup: the channel stays registered.
CleanupForgets(c) ==
  /\ pc[c] = "cleanup"
  /\ LockFree
  /\ Goto(c, "returned")
  /\ UNCHANGED <<ctxDone, reqResLock, tableVars, responseChan, connected,
                 brokerVars>>

\* The deferred function; PublishWithResponse has waited for it and returns.
\* pendingRequests and the subscription stay as they are.
Cleanup(c) ==
  /\ pc[c] = "cleanup"
  /\ LockFree
  /\ requestResponseChan' = requestResponseChan \ {c}
  /\ Goto(c, "returned")
  /\ UNCHANGED <<ctxDone, reqResLock, pendingRequests, waitCh, responseChan,
                 connected, brokerVars>>

\* The steps of a call that hand no request to the broker.
QuietStep(c) ==
  \/ Register(c) \/ MarkPending(c) \/ Subscribe(c) \/ Acknowledged(c)
  \/ PublishFails(c) \/ DeadlinePassed(c) \/ Receive(c) \/ Cleanup(c)

CallStep(c) == SendRequest(c) \/ QuietStep(c)

-----------------------------------------------------------------------------
(* handleIncomingPublish, called for one packet at a time by paho.         *)

IsExpected(p) == p.corr \in pendingRequests /\ IsAnswer(p)

\* Mutant of Deliver: any packet of the call wakes it, the answer or not.
DeliverOrClose(p) ==
  /\ p.corr \in pendingRequests \cap requestResponseChan
  /\ waitCh' = [waitCh EXCEPT ![p.corr] =
                 [buf |-> IF IsAnswer(p) THEN p ELSE @.buf, closed |-> TRUE]]
  /\ pendingRequests' = pendingRequests \ {p.corr}
  /\ UNCHANGED reqResLock

\* Mutant of Deliver: the request stays pending.
DeliverAgain(p) ==
  /\ IsExpected(p)
  /\ p.corr \in requestResponseChan
  /\ waitCh' = [waitCh EXCEPT ![p.corr] = [buf |-> p, closed |-> TRUE]]
  /\ UNCHANGED <<reqResLock, pendingRequests>>

\* Send, close, forget the request.  The channel has room and is open:
\* SendIsSafe below.
Deliver(p) ==
  /\ IsExpected(p)
  /\ p.corr \in requestResponseChan
  /\ waitCh' = [waitCh EXCEPT ![p.corr] = [buf |-> p, closed |-> TRUE]]
  /\ pendingRequests' = pendingRequests \ {p.corr}
  /\ UNCHANGED reqResLock

\* The map has no channel for the id any more: the send is on a nil channel,
\* blocks for ever, and the lock is not released.
BlockOnNilChannel(p) ==
  /\ IsExpected(p)
  /\ p.corr \notin requestResponseChan
  /\ reqResLock' = "router"
  /\ UNCHANGED <<waitCh, pendingRequests>>

\* router.Route: no handler is registered for these topics in this process.
RouteOther(p) ==
  /\ ~IsExpected(p)
  /\ UNCHANGED <<reqResLock, waitCh, pendingRequests>>

HandleIncomingPublish(p) ==
  /\ p \in inbox
  /\ LockFree
  /\ inbox' = inbox \ {p}
  /\ Deliver(p) \/ BlockOnNilChannel(p) \/ RouteOther(p)
  /\ UNCHANGED <<callerVars, ctxDone, requestResponseChan, connected,
                 subscribed, requested, answers>>

-----------------------------------------------------------------------------
(* The surroundings.                                                       *)

\* The caller's context ends: its deadline, or the client went away.
Expire(c) ==
  /\ pc[c] # "idle"
  /\ c \notin ctxDone
  /\ ctxDone' = ctxDone \cup {c}
  /\ UNCHANGED <<callerVars, reqResLock, tableVars, connected, brokerVars>>

\* The broker passes an answer on if this client is there and subscribed.
Forward(p) ==
  inbox' = IF connected /\ p.replyTo \in subscribed
           THEN inbox \cup {p} ELSE inbox

\* The responder serves a request, which may be long over.
Answer(c) ==
  /\ c \in requested
  /\ answers[c] < MaxAnswers
  /\ answers' = [answers EXCEPT ![c] = @ + 1]
  /\ Forward(AnswerPacket(c, answers[c] + 1))
  /\ UNCHANGED <<callerVars, ctxDone, reqResLock, tableVars, connected,
                 subscribed, requested>>

\* onError and onServerDisconnect only log: nothing reconnects.
Disconnect ==
  /\ connected
  /\ connected' = FALSE
  /\ inbox' = {}
  /\ UNCHANGED <<callerVars, ctxDone, reqResLock, tableVars, subscribed,
                 requested, answers>>

Next ==
  \/ \E c \in Calls : Call(c) \/ CallStep(c) \/ Expire(c) \/ Answer(c)
  \/ \E p \in inbox : HandleIncomingPublish(p)
  \/ Disconnect

Spec == Init /\ [][Next]_vars

\* Goroutines are scheduled, paho's calls return, the context of handleLogIn
\* has a timeout.  Nothing obliges a handler to call, the responder to
\* answer, or the connection to break.
Fairness ==
  /\ \A c \in Calls : WF_vars(CallStep(c)) /\ WF_vars(Expire(c))
  /\ WF_vars(\E p \in inbox : HandleIncomingPublish(p))

FairSpec == Spec /\ Fairness

-----------------------------------------------------------------------------
(* What must hold.                                                         *)

HasAnswer(c) == responseChan[c].payload # NoPacket

\* One of the answers the responder has given to call c.
IsAnswerTo(c, p) == \E n \in 1..answers[c] : p = AnswerPacket(c, n)

\* No answer is sent on a channel that is full or closed: the first would
\* block for ever and the second panic, both with reqResLock held
\* (handleIncomingPublish, transport.go:464-472).  Rests on pendingRequests
\* being cleared with the first answer, however many follow.
SendIsSafe ==
  \A c \in pendingRequests \cap requestResponseChan : waitCh[c] = EmptyChan

\* What a call gives its caller as an answer was sent by the responder for
\* that very call; it is neither another call's answer nor the call's own
\* request, which the broker echoes with the same correlation data
\* (the test on "from" in handleIncomingPublish, transport.go:461-464).
AnswerIsOwn ==
  \A c \in Calls : HasAnswer(c) => IsAnswerTo(c, responseChan[c].payload)

\* PublishWithResponse never returns an empty channel: the receiving goroutine
\* closes no channel it has sent nothing on, so that neither the "!ok" of
\* transport.go:238 nor the caller's own can happen (transport.go:221-241 with
\* 463-472).
CallerAlwaysToldSomething ==
  \A c \in Calls : pc[c] = "returned" => responseChan[c] # NoResponse

\* A call that returned an answer has left no entry in either table
\* (transport.go:221-224 and 472).
AnsweredCallLeavesNothing ==
  \A c \in Calls : pc[c] = "returned" /\ HasAnswer(c) =>
    c \notin pendingRequests \cup requestResponseChan

\* The broker has the subscription for the answer before it has the request
\* (the order of transport.go:422 and 428): no answer comes too early.
SubscribedBeforeRequested == requested \subseteq subscribed

\* The router blocks on reqResLock only because of a call that returned an
\* error with its entry in pendingRequests left behind, and was answered
\* later (transport.go:228-236 against 463-465).
BlockedByAbandonedCall ==
  reqResLock = "router" =>
    \E c \in pendingRequests \ requestResponseChan :
       pc[c] = "returned" /\ responseChan[c].error /\ answers[c] > 0

\* Once the router is blocked no call of the process ever returns again, and
\* none can start (reqResLock at transport.go:216, 222, 418 and 460).
BlockedForGood ==
  [][reqResLock = "router" =>
       /\ reqResLock' = "router"
       /\ \A c \in Calls : pc[c] # "returned" => pc'[c] # "returned"
       /\ \A c \in Calls : pc[c] = "register" => pc'[c] = "register"]_vars

\* A call made returns, unless the router blocks (the select on ctx.Done in
\* transport.go:234-241).
ReturnsUnlessBlocked ==
  \A c \in Calls :
    (pc[c] = "register") ~> (pc[c] = "returned" \/ reqResLock = "router")

\* PublishWithResponse "Returns a read-only channel for the Response."
\* (types.go:30): every call made comes back to its caller.
EveryCallReturns ==
  \A c \in Calls : (pc[c] = "register") ~> (pc[c] = "returned")

-----------------------------------------------------------------------------
(* What the caller can rely on: RpcCalls.                                  *)

Outcome(r) ==
  CASE r.timeOut -> "timeout"
    [] r.error /\ ~r.timeOut -> "error"
    [] OTHER -> "answer"

Rpc == INSTANCE RpcCalls WITH
  status  <- [c \in Calls |-> CASE pc[c] = "idle" -> "idle"
                                [] pc[c] = "returned" -> "closed"
                                [] OTHER -> "open"],
  served  <- {c \in Calls : answers[c] > 0},
  late    <- ctxDone,
  outcome <- [c \in Calls |-> IF pc[c] = "returned"
                              THEN Outcome(responseChan[c]) ELSE "none"]

\* PublishWithResponse implements RpcCalls: it ends once, an answer was really
\* given, a timeout is never claimed before the context is over.
ImplementsRpcCalls == Rpc!Spec

-----------------------------------------------------------------------------
(* The inductive invariant: where the properties above come from.          *)

\* The keys of the two tables follow from how far the calls are; a channel is
\* registered before the id is pending, and pending outlives it.
TablesFollowCalls ==
  \A c \in Calls :
    /\ c \in requestResponseChan <=>
         pc[c] \in {"pending", "subscribe", "publish", "puback", "wait", "cleanup"}
    /\ c \in pendingRequests =>
         pc[c] \notin {"idle", "register", "pending"}

\* The broker knows a call no earlier than the call has told it, and the
\* responder no earlier than the broker.
BrokerFollowsCalls ==
  \A c \in Calls :
    /\ pc[c] \in {"publish", "puback", "wait"} => c \in subscribed
    /\ c \in requested => /\ c \in subscribed
                          /\ pc[c] \in {"puback", "wait", "cleanup", "returned"}
    /\ answers[c] > 0 => c \in requested

\* A channel is filled once, with the call's own answer, and closed with it;
\* by then the id is not pending any more, and it will not be again.
ChannelsFilledOnce ==
  \A c \in Calls :
    /\ waitCh[c].buf # NoPacket =>
         waitCh[c].closed /\ IsAnswerTo(c, waitCh[c].buf)
    /\ waitCh[c].closed =>
         waitCh[c].buf # NoPacket \/ pc[c] \in {"cleanup", "returned"}
    /\ waitCh[c].closed =>
         c \notin pendingRequests /\ pc[c] \notin {"idle", "register", "pending"}

\* Every packet on its way is a request's echo or an answer given.
InboxGenuine ==
  \A p \in inbox : p = RequestPacket(p.corr) \/ IsAnswerTo(p.corr, p)

\* A call sends its caller one response, at its end.
ResponsesHonest ==
  \A c \in Calls :
    /\ pc[c] \notin {"cleanup", "returned"} => responseChan[c] = NoResponse
    /\ pc[c] \in {"cleanup", "returned"} =>
         HasAnswer(c) \/ responseChan[c].error
    /\ HasAnswer(c) => /\ IsAnswerTo(c, responseChan[c].payload)
                       /\ waitCh[c].closed
                       /\ ~responseChan[c].error
    /\ responseChan[c].timeOut => responseChan[c].error /\ c \in ctxDone

IInv ==
  /\ TypeOK
  /\ TablesFollowCalls
  /\ BrokerFollowsCalls
  /\ ChannelsFilledOnce
  /\ InboxGenuine
  /\ ResponsesHonest
  /\ BlockedByAbandonedCall
=============================================================================
