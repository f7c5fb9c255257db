----------------------------- MODULE LoginProofs -----------------------------
(***************************************************************************)
(* Proofs about LoginSystem, for any number of log-ins: its steps are      *)
(* steps of Transport, so that Transport's invariant holds in it too, and  *)
(* the safety properties of the log-in follow from both invariants.        *)
(***************************************************************************)
EXTENDS LoginSystem, TransportProofs

-----------------------------------------------------------------------------
(* The transport inside.                                                   *)

\* What a step of the log-in system does to the transport's variables is a
\* step of Transport, or nothing.
LEMMA StepIsTransportStep == LoginTypeOK /\ [LoginNext]_loginVars => [Next]_vars
<1> SUFFICES ASSUME LoginTypeOK, [LoginNext]_loginVars PROVE [Next]_vars
  OBVIOUS
<1>1. ASSUME NEW c \in Calls, LogInBegins(c) \/ LogInExpires(c) PROVE Next
  BY <1>1 DEF LogInBegins, LogInExpires, Alone, Next
<1>9. ASSUME NEW c \in Calls, LogInFails(c) PROVE UNCHANGED vars
  BY <1>9 DEF LogInFails
<1>2. ASSUME NEW c \in Calls, LogInStep(c) PROVE [Next]_vars
  <2>1. CASE SendLogIn(c)
    BY <2>1 DEF SendLogIn, Next, CallStep
  <2>2. CASE Alone(QuietStep(c))
    BY <2>2 DEF Alone, Next, CallStep
  <2>3. CASE FinishLate(c) \/ FinishWithResponse(c)
    BY <2>3 DEF FinishLate, FinishWithResponse, Finish
  <2> QED BY <1>2, <2>1, <2>2, <2>3 DEF LogInStep
<1>3. CASE GatewayPacket
  BY <1>3 DEF GatewayPacket, Alone, Next
<1>4. CASE GatewayLosesBroker
  BY <1>4 DEF GatewayLosesBroker, Alone, Next
<1>5. CASE UsersSubscribe \/ UsersRegisterHandler \/ UsersGone
  BY <1>5 DEF UsersSubscribe, UsersRegisterHandler, UsersGone
<1>6. ASSUME NEW c \in usersInbox, UsersServe(c) PROVE Next
  <2>1. c \in Calls /\ Answer(c)
    BY <1>6 DEF UsersServe, LoginTypeOK
  <2> QED BY <2>1 DEF Next
<1>7. ASSUME NEW c \in usersInbox, UsersDrop(c) PROVE UNCHANGED vars
  BY <1>7 DEF UsersDrop
<1>8. CASE UNCHANGED loginVars
  BY <1>8 DEF loginVars
<1> QED BY <1>1, <1>2, <1>3, <1>4, <1>5, <1>6, <1>7, <1>8, <1>9
           DEF LoginNext, UsersStep

-----------------------------------------------------------------------------
(* The inductive invariant.                                                *)

\* A step of the transport other than a request sent or an answer given.
TransportAlone ==
  \/ \E c \in Calls : Call(c) \/ QuietStep(c) \/ Expire(c)
  \/ \E p \in inbox : HandleIncomingPublish(p)
  \/ Disconnect
  \/ UNCHANGED vars

\* Such a step tells the broker of no request and the responder of none, and
\* does not touch a call that has returned; contexts end only once.
LEMMA AloneFrame ==
  ASSUME IInv, TransportAlone
  PROVE  /\ UNCHANGED <<requested, answers>>
         /\ ctxDone \subseteq ctxDone'
         /\ \A c \in Calls : pc[c] = "returned" =>
              pc'[c] = "returned" /\ responseChan'[c] = responseChan[c]
<1> DEFINE Frame == /\ UNCHANGED <<requested, answers>>
                    /\ ctxDone \subseteq ctxDone'
                    /\ \A c \in Calls : pc[c] = "returned" =>
                         pc'[c] = "returned" /\ responseChan'[c] = responseChan[c]
<1> USE DEF IInv, TypeOK, Goto, Respond, callerVars, tableVars, brokerVars
<1>1. ASSUME NEW c \in Calls, Call(c) PROVE Frame
  BY <1>1 DEF Call
<1>2. ASSUME NEW c \in Calls, QuietStep(c) PROVE Frame
  BY <1>2 DEF QuietStep, Register, MarkPending, Subscribe, Acknowledged,
              PublishFails, DeadlinePassed, Receive, Cleanup
<1>3. ASSUME NEW c \in Calls, Expire(c) PROVE Frame
  BY <1>3 DEF Expire
<1>4. ASSUME NEW p \in inbox, HandleIncomingPublish(p) PROVE Frame
  BY <1>4 DEF HandleIncomingPublish
<1>5. CASE Disconnect
  BY <1>5 DEF Disconnect
<1>6. CASE UNCHANGED vars
  BY <1>6 DEF vars
<1> QED BY <1>1, <1>2, <1>3, <1>4, <1>5, <1>6 DEF TransportAlone

\* At first nobody has logged in and the users service is down.
LEMMA InitLoginIInv == LoginInit => LoginIInv
<1> SUFFICES ASSUME LoginInit PROVE LoginIInv
  OBVIOUS
<1>1. IInv /\ TypeOK
  BY InitIInv, InitTypeOK DEF LoginInit
<1>2. LoginTypeOK
  BY <1>1 DEF LoginInit, LoginTypeOK, Endings
<1>3. RequestsHandledOnce
  BY DEF LoginInit, Init, RequestsHandledOnce
<1>4. EndingsHonest
  BY DEF LoginInit, EndingsHonest
<1> QED BY <1>1, <1>2, <1>3, <1>4 DEF LoginIInv

\* What a log-in that ends because of its response ends with.
LEMMA EndingFits ==
  ASSUME LoginIInv, NEW c \in Calls, pc[c] = "returned",
         NEW marshals \in BOOLEAN, NEW readable \in BOOLEAN
  PROVE  LET e == EndingFor(responseChan[c], marshals, readable)
         IN  /\ e \in {"200", "204", "500", "504", "aborted"}
             /\ e = "200" => HasAnswer(c)
             /\ e = "aborted" => responseChan[c].error
             /\ e = "504" => c \in ctxDone
<1> DEFINE r == responseChan[c]
<1>1. HasAnswer(c) \/ r.error
  BY DEF LoginIInv, IInv, ResponsesHonest
<1>2. HasAnswer(c) => ~r.error
  BY DEF LoginIInv, IInv, ResponsesHonest
<1>3. r.timeOut => r.error
  BY DEF LoginIInv, IInv, ResponsesHonest
<1>4. r = NoResponse => r.payload = NoPacket
  BY DEF NoResponse
<1>5. CASE r.error
  <2>1. CheckedStatus(r) = "500" /\ r.payload = NoPacket
    BY <1>2, <1>5 DEF CheckedStatus, HasAnswer
  <2>2. CASE marshals
    BY <2>1, <2>2, <1>5 DEF EndingFor, CheckReturnsError
  <2>3. CASE ~marshals
    BY <2>1, <2>3 DEF EndingFor, CheckReturnsError
  <2> QED BY <2>2, <2>3
<1>6. CASE ~r.error
  <2>1. r.payload # NoPacket /\ CheckedStatus(r) = "none"
    BY <1>1, <1>3, <1>4, <1>6 DEF CheckedStatus, HasAnswer
  <2> QED BY <2>1 DEF EndingFor, CheckReturnsError, HasAnswer
<1> QED BY <1>5, <1>6

\* Every step of the log-in system keeps the invariant.
LEMMA StepLoginIInv == LoginIInv /\ [LoginNext]_loginVars => LoginIInv'
<1> SUFFICES ASSUME LoginIInv, [LoginNext]_loginVars PROVE LoginIInv'
  OBVIOUS
<1>0. /\ IInv /\ IInv'
      /\ TypeOK /\ TypeOK'
  BY StepIsTransportStep, StepIInv DEF LoginIInv, IInv
<1> DEFINE Mine == /\ sent' \in [Calls -> Endings]
                   /\ users' \in {"down", "subscribed", "serving"}
                   /\ usersSubscribed' \in BOOLEAN
                   /\ usersInbox' \subseteq Calls
                   /\ unserved' \subseteq Calls
<1>1. SUFFICES Mine /\ RequestsHandledOnce' /\ EndingsHonest'
  BY <1>0 DEF LoginIInv, LoginTypeOK
<1> USE DEF LoginIInv, LoginTypeOK, usersVars
<1>2. ASSUME TransportAlone, UNCHANGED <<sent, usersVars>>
      PROVE  Mine /\ RequestsHandledOnce' /\ EndingsHonest'
  <2>1. /\ UNCHANGED <<requested, answers>>
        /\ ctxDone \subseteq ctxDone'
        /\ \A c \in Calls : pc[c] = "returned" =>
             pc'[c] = "returned" /\ responseChan'[c] = responseChan[c]
    BY <1>0, <1>2, AloneFrame
  <2>2. Mine
    BY <1>2
  <2>3. RequestsHandledOnce'
    BY <1>2, <2>1 DEF RequestsHandledOnce
  <2>4. EndingsHonest'
    BY <1>2, <2>1 DEF EndingsHonest, HasAnswer
  <2> QED BY <2>2, <2>3, <2>4
<1>3. ASSUME NEW c \in Calls, SendLogIn(c)
      PROVE  Mine /\ RequestsHandledOnce' /\ EndingsHonest'
  <2>1. c \notin requested /\ answers[c] = 0
    BY <1>0, <1>3 DEF SendLogIn, SendRequest, IInv, TypeOK, BrokerFollowsCalls
  <2>2. Mine
    BY <1>3 DEF SendLogIn
  <2>3. RequestsHandledOnce'
    BY <1>3, <2>1 DEF SendLogIn, SendRequest, RequestsHandledOnce
  <2>4. EndingsHonest'
    BY <1>0, <1>3 DEF SendLogIn, SendRequest, Goto, tableVars, TypeOK,
                      EndingsHonest, HasAnswer
  <2> QED BY <2>2, <2>3, <2>4
<1>4. ASSUME NEW c \in Calls, FinishLate(c) \/ FinishWithResponse(c)
      PROVE  Mine /\ RequestsHandledOnce' /\ EndingsHonest'
  <2>1. PICK e \in Endings : /\ Finish(c, e)
                             /\ e = "200" => HasAnswer(c)
                             /\ e = "aborted" => responseChan[c].error
                             /\ e = "504" => c \in ctxDone
    <3>1. CASE FinishLate(c)
      BY <3>1 DEF FinishLate, Finish, Endings
    <3>2. CASE FinishWithResponse(c)
      <4>1. PICK marshals \in BOOLEAN, readable \in BOOLEAN :
              Finish(c, EndingFor(responseChan[c], marshals, readable))
        BY <3>2 DEF FinishWithResponse
      <4>2. pc[c] = "returned"
        BY <4>1 DEF Finish
      <4> QED BY <4>1, <4>2, EndingFits DEF Endings
    <3> QED BY <1>4, <3>1, <3>2
  <2>2. Mine
    BY <2>1 DEF Finish
  <2>3. RequestsHandledOnce'
    BY <2>1 DEF Finish, vars, RequestsHandledOnce
  <2>4. EndingsHonest'
    BY <2>1 DEF Finish, vars, EndingsHonest, HasAnswer
  <2> QED BY <2>2, <2>3, <2>4
<1>5. CASE UsersSubscribe \/ UsersRegisterHandler \/ UsersGone
  <2>1. Mine
    BY <1>5 DEF UsersSubscribe, UsersRegisterHandler, UsersGone
  <2>2. RequestsHandledOnce'
    BY <1>5 DEF UsersSubscribe, UsersRegisterHandler, UsersGone, vars,
                RequestsHandledOnce
  <2>3. EndingsHonest'
    BY <1>5 DEF UsersSubscribe, UsersRegisterHandler, UsersGone, vars,
                EndingsHonest, HasAnswer
  <2> QED BY <2>1, <2>2, <2>3
<1>6. ASSUME NEW c \in usersInbox, UsersServe(c)
      PROVE  Mine /\ RequestsHandledOnce' /\ EndingsHonest'
  <2>1. Mine
    BY <1>6 DEF UsersServe
  <2>2. RequestsHandledOnce'
    BY <1>0, <1>6 DEF UsersServe, Answer, TypeOK, RequestsHandledOnce
  <2>3. EndingsHonest'
    BY <1>6 DEF UsersServe, Answer, callerVars, EndingsHonest, HasAnswer
  <2> QED BY <2>1, <2>2, <2>3
<1>7. ASSUME NEW c \in usersInbox, UsersDrop(c)
      PROVE  Mine /\ RequestsHandledOnce' /\ EndingsHonest'
  <2>1. Mine
    BY <1>7 DEF UsersDrop
  <2>2. RequestsHandledOnce'
    BY <1>7 DEF UsersDrop, vars, RequestsHandledOnce
  <2>3. EndingsHonest'
    BY <1>7 DEF UsersDrop, vars, EndingsHonest, HasAnswer
  <2> QED BY <2>1, <2>2, <2>3
<1>8. CASE UNCHANGED loginVars
  BY <1>2, <1>8 DEF loginVars, TransportAlone
<1>9. ASSUME NEW c \in Calls, LogInBegins(c) \/ LogInExpires(c) \/ Alone(QuietStep(c))
      PROVE  TransportAlone /\ UNCHANGED <<sent, usersVars>>
  BY <1>9 DEF LogInBegins, LogInExpires, Alone, TransportAlone
<1>11. ASSUME NEW c \in Calls, LogInFails(c)
       PROVE  Mine /\ RequestsHandledOnce' /\ EndingsHonest'
  <2>1. Mine
    BY <1>11 DEF LogInFails, Endings
  <2>2. RequestsHandledOnce'
    BY <1>11 DEF LogInFails, vars, RequestsHandledOnce
  <2>3. EndingsHonest'
    BY <1>11 DEF LogInFails, vars, EndingsHonest, HasAnswer
  <2> QED BY <2>1, <2>2, <2>3
<1>10. CASE GatewayPacket \/ GatewayLosesBroker
  BY <1>2, <1>10 DEF GatewayPacket, GatewayLosesBroker, Alone, TransportAlone
<1> QED BY <1>2, <1>3, <1>4, <1>5, <1>6, <1>7, <1>8, <1>9, <1>10,
       <1>11
        DEF LoginNext, LogInStep, UsersStep

\* The invariant holds of every reachable state of the log-in system.
THEOREM LoginInvariance == LoginSpec => []LoginIInv
BY InitLoginIInv, StepLoginIInv, PTL DEF LoginSpec

-----------------------------------------------------------------------------
(* The results.                                                            *)

\* The dashboard is shown only for a log-in that the users service served
\* (handlers.go:194-197).
THEOREM PagesAreServed == LoginSpec => []PageOnlyForServedLogIn
<1>1. LoginIInv => PageOnlyForServedLogIn
  <2> SUFFICES ASSUME LoginIInv, NEW c \in Calls, sent[c] = "200"
               PROVE  c \notin unserved /\ IsAnswerTo(c, responseChan[c].payload)
    BY DEF PageOnlyForServedLogIn
  <2>1. IsAnswerTo(c, responseChan[c].payload)
    BY DEF LoginIInv, EndingsHonest, IInv, ResponsesHonest
  <2>2. answers[c] \in Nat /\ answers[c] # 0
    BY <2>1, MaxAnswersAssumption DEF IsAnswerTo, LoginIInv, IInv, TypeOK
  <2> QED BY <2>1, <2>2 DEF LoginIInv, RequestsHandledOnce
<1> QED BY <1>1, LoginInvariance, PTL

\* The browser's connection is cut only after an error
\* (handlers.go:167-185, transport.go:349-359).
THEOREM CutOffsAreErrors == LoginSpec => []CutOffOnlyAfterError
<1>1. LoginIInv => CutOffOnlyAfterError
  BY DEF LoginIInv, EndingsHonest, CutOffOnlyAfterError
<1> QED BY <1>1, LoginInvariance, PTL

\* A gateway timeout is true (handlers.go:160-166).
THEOREM GatewayTimeoutsAreTrue == LoginSpec => []GatewayTimeoutOnlyAfterDeadline
<1>1. LoginIInv => GatewayTimeoutOnlyAfterDeadline
  BY DEF LoginIInv, EndingsHonest, GatewayTimeoutOnlyAfterDeadline
<1> QED BY <1>1, LoginInvariance, PTL

\* Every ending of a log-in is true (handlers.go:158-198).
THEOREM EndingsTrue == LoginSpec => []EndingsAreTrue
BY PagesAreServed, CutOffsAreErrors, GatewayTimeoutsAreTrue, PTL
   DEF EndingsAreTrue

\* Whatever crashes and restarts, no request is served twice, and none that
\* was dropped is served at all (api/users/main.go:101-116).
THEOREM RequestsServedOnce == LoginSpec => []ServedAtMostOnce
<1>1. LoginIInv => ServedAtMostOnce
  BY DEF LoginIInv, RequestsHandledOnce, ServedAtMostOnce
<1> QED BY <1>1, LoginInvariance, PTL

\* Every variable of the log-in system keeps its type (handlers.go:101-199,
\* api/users/main.go:36-116).
THEOREM LoginTypeCorrect == LoginSpec => []LoginTypeOK
<1>1. LoginIInv => LoginTypeOK
  BY DEF LoginIInv
<1> QED BY <1>1, LoginInvariance, PTL
=============================================================================
