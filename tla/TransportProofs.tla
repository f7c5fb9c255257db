-------------------------- MODULE TransportProofs --------------------------
(***************************************************************************)
(* Theorems about Transport for any set of calls and any bound on the      *)
(* answers.                                                                *)
(***************************************************************************)
EXTENDS Transport, TLAPS

-----------------------------------------------------------------------------
(* Packets.                                                                *)

\* The echo of a request never passes for an answer: it bears no "from".
LEMMA EchoIsNoAnswer ==
  ASSUME NEW c \in Calls
  PROVE  ~IsAnswer(RequestPacket(c))
BY NoTopicAssumption DEF IsAnswer, RequestPacket

LEMMA PacketTypes ==
  ASSUME NEW c \in Calls, NEW n \in 0..MaxAnswers
  PROVE  RequestPacket(c) \in Packets /\ AnswerPacket(c, n) \in Packets
BY MaxAnswersAssumption DEF RequestPacket, AnswerPacket, Packets

LEMMA ResponseTypes ==
  ASSUME NEW p \in Packets \cup {NoPacket}
  PROVE  {NoResponse, Failed, TimedOut, Answered(p)} \subseteq Responses
BY DEF NoResponse, Failed, TimedOut, Answered, Responses

-----------------------------------------------------------------------------
(* Types.                                                                  *)

LEMMA InitTypeOK == Init => TypeOK
BY MaxAnswersAssumption, SMTT(30)
DEF Init, TypeOK, Steps, EmptyChan, NoResponse, Responses

LEMMA StepTypeOK == TypeOK /\ [Next]_vars => TypeOK'
<1> SUFFICES ASSUME TypeOK, [Next]_vars PROVE TypeOK'
  OBVIOUS
<1> USE DEF TypeOK, Steps, Goto, Respond, callerVars, tableVars, brokerVars
<1>1. ASSUME NEW c \in Calls, Call(c) PROVE TypeOK'
  BY <1>1 DEF Call
<1>2. ASSUME NEW c \in Calls, QuietStep(c) PROVE TypeOK'
  <2>1. CASE Register(c)
    BY <2>1 DEF Register
  <2>2. CASE MarkPending(c)
    BY <2>2 DEF MarkPending
  <2>3. CASE Subscribe(c)
    BY <2>3 DEF Subscribe
  <2>4. CASE Acknowledged(c)
    BY <2>4 DEF Acknowledged
  <2>5. CASE PublishFails(c)
    BY <2>5, ResponseTypes DEF PublishFails
  <2>6. CASE DeadlinePassed(c)
    BY <2>6, ResponseTypes DEF DeadlinePassed
  <2>7. CASE Receive(c)
    BY <2>7, ResponseTypes DEF Receive
  <2>8. CASE Cleanup(c)
    BY <2>8 DEF Cleanup
  <2> QED BY <1>2, <2>1, <2>2, <2>3, <2>4, <2>5, <2>6, <2>7, <2>8 DEF QuietStep
<1>3. ASSUME NEW c \in Calls, SendRequest(c) PROVE TypeOK'
  BY <1>3, PacketTypes, MaxAnswersAssumption DEF SendRequest
<1>4. ASSUME NEW c \in Calls, Expire(c) PROVE TypeOK'
  BY <1>4 DEF Expire
<1>5. ASSUME NEW c \in Calls, Answer(c) PROVE TypeOK'
  <2>1. answers[c] + 1 \in 0..MaxAnswers
    BY <1>5, MaxAnswersAssumption DEF Answer
  <2>2. AnswerPacket(c, answers[c] + 1) \in Packets
    BY <2>1, PacketTypes
  <2> QED BY <1>5, <2>1, <2>2 DEF Answer, Forward
<1>6. ASSUME NEW p \in inbox, HandleIncomingPublish(p) PROVE TypeOK'
  <2>1. p \in Packets /\ p.corr \in Calls
    BY DEF Packets
  <2>2. CASE Deliver(p)
    <3>1. [buf |-> p, closed |-> TRUE]
            \in [buf : Packets \cup {NoPacket}, closed : BOOLEAN]
      BY <2>1
    <3>2. waitCh' \in [Calls -> [buf : Packets \cup {NoPacket}, closed : BOOLEAN]]
      BY <2>1, <2>2, <3>1 DEF Deliver
    <3> QED BY <1>6, <2>2, <3>2 DEF HandleIncomingPublish, Deliver
  <2>3. CASE BlockOnNilChannel(p)
    BY <1>6, <2>3 DEF HandleIncomingPublish, BlockOnNilChannel
  <2>4. CASE RouteOther(p)
    BY <1>6, <2>4 DEF HandleIncomingPublish, RouteOther
  <2> QED BY <1>6, <2>2, <2>3, <2>4 DEF HandleIncomingPublish
<1>7. CASE Disconnect
  BY <1>7 DEF Disconnect
<1>8. CASE UNCHANGED vars
  BY <1>8 DEF vars
<1> QED BY <1>1, <1>2, <1>3, <1>4, <1>5, <1>6, <1>7, <1>8 DEF Next, CallStep

\* Every reachable state is well typed.
THEOREM TypeCorrect == Spec => []TypeOK
BY InitTypeOK, StepTypeOK, PTL DEF Spec

-----------------------------------------------------------------------------
(* The inductive invariant.                                                *)

LEMMA InitIInv == Init => IInv
<1> SUFFICES ASSUME Init PROVE IInv
  OBVIOUS
<1>1. TypeOK
  BY InitTypeOK
<1>2. TablesFollowCalls /\ BrokerFollowsCalls /\ BlockedByAbandonedCall
  BY DEF Init, TablesFollowCalls, BrokerFollowsCalls, BlockedByAbandonedCall
<1>3. ChannelsFilledOnce /\ InboxGenuine
  BY DEF Init, ChannelsFilledOnce, InboxGenuine, EmptyChan
<1>4. ResponsesHonest
  BY DEF Init, ResponsesHonest, HasAnswer, NoResponse
<1> QED BY <1>1, <1>2, <1>3, <1>4 DEF IInv

LEMMA StepIInv == IInv /\ [Next]_vars => IInv'
<1> SUFFICES ASSUME IInv, [Next]_vars PROVE IInv'
  OBVIOUS
<1>0. TypeOK /\ TypeOK'
  BY StepTypeOK DEF IInv
<1> USE DEF IInv, TypeOK, Goto, Respond, callerVars, tableVars, brokerVars
<1>1. ASSUME NEW c \in Calls, Call(c) PROVE IInv'
  <2>1. TablesFollowCalls'
    BY <1>1, <1>0 DEF Call, TablesFollowCalls
  <2>2. BrokerFollowsCalls'
    BY <1>1, <1>0 DEF Call, BrokerFollowsCalls
  <2>3. ChannelsFilledOnce'
    BY <1>1, <1>0 DEF Call, ChannelsFilledOnce, IsAnswerTo
  <2>4. InboxGenuine'
    BY <1>1, <1>0 DEF Call, InboxGenuine, IsAnswerTo
  <2>5. ResponsesHonest'
    BY <1>1, <1>0 DEF Call, ResponsesHonest, IsAnswerTo, HasAnswer
  <2>6. BlockedByAbandonedCall'
    BY <1>1, <1>0 DEF Call, BlockedByAbandonedCall
  <2> QED BY <1>0, <2>1, <2>2, <2>3, <2>4, <2>5, <2>6
<1>2. ASSUME NEW c \in Calls, QuietStep(c) PROVE IInv'
  <2>1. CASE Register(c)
    <3>1. TablesFollowCalls'
      BY <2>1, <1>0 DEF Register, TablesFollowCalls
    <3>2. BrokerFollowsCalls'
      BY <2>1, <1>0 DEF Register, BrokerFollowsCalls
    <3>3. ChannelsFilledOnce'
      BY <2>1, <1>0 DEF Register, ChannelsFilledOnce, IsAnswerTo
    <3>4. InboxGenuine'
      BY <2>1, <1>0 DEF Register, InboxGenuine, IsAnswerTo
    <3>5. ResponsesHonest'
      BY <2>1, <1>0 DEF Register, ResponsesHonest, IsAnswerTo, HasAnswer
    <3>6. BlockedByAbandonedCall'
      BY <2>1, <1>0 DEF Register, BlockedByAbandonedCall
    <3> QED BY <1>0, <3>1, <3>2, <3>3, <3>4, <3>5, <3>6
  <2>2. CASE MarkPending(c)
    <3>1. TablesFollowCalls'
      BY <2>2, <1>0 DEF MarkPending, TablesFollowCalls
    <3>2. BrokerFollowsCalls'
      BY <2>2, <1>0 DEF MarkPending, BrokerFollowsCalls
    <3>3. ChannelsFilledOnce'
      BY <2>2, <1>0 DEF MarkPending, ChannelsFilledOnce, IsAnswerTo
    <3>4. InboxGenuine'
      BY <2>2, <1>0 DEF MarkPending, InboxGenuine, IsAnswerTo
    <3>5. ResponsesHonest'
      BY <2>2, <1>0 DEF MarkPending, ResponsesHonest, IsAnswerTo, HasAnswer
    <3>6. BlockedByAbandonedCall'
      BY <2>2, <1>0 DEF MarkPending, BlockedByAbandonedCall
    <3> QED BY <1>0, <3>1, <3>2, <3>3, <3>4, <3>5, <3>6
  <2>3. CASE Subscribe(c)
    <3>1. TablesFollowCalls'
      BY <2>3, <1>0 DEF Subscribe, TablesFollowCalls
    <3>2. BrokerFollowsCalls'
      BY <2>3, <1>0 DEF Subscribe, BrokerFollowsCalls
    <3>3. ChannelsFilledOnce'
      BY <2>3, <1>0 DEF Subscribe, ChannelsFilledOnce, IsAnswerTo
    <3>4. InboxGenuine'
      BY <2>3, <1>0 DEF Subscribe, InboxGenuine, IsAnswerTo
    <3>5. ResponsesHonest'
      BY <2>3, <1>0 DEF Subscribe, ResponsesHonest, IsAnswerTo, HasAnswer
    <3>6. BlockedByAbandonedCall'
      BY <2>3, <1>0 DEF Subscribe, BlockedByAbandonedCall
    <3> QED BY <1>0, <3>1, <3>2, <3>3, <3>4, <3>5, <3>6
  <2>4. CASE Acknowledged(c)
    <3>1. TablesFollowCalls'
      BY <2>4, <1>0 DEF Acknowledged, TablesFollowCalls
    <3>2. BrokerFollowsCalls'
      BY <2>4, <1>0 DEF Acknowledged, BrokerFollowsCalls
    <3>3. ChannelsFilledOnce'
      BY <2>4, <1>0 DEF Acknowledged, ChannelsFilledOnce, IsAnswerTo
    <3>4. InboxGenuine'
      BY <2>4, <1>0 DEF Acknowledged, InboxGenuine, IsAnswerTo
    <3>5. ResponsesHonest'
      BY <2>4, <1>0 DEF Acknowledged, ResponsesHonest, IsAnswerTo, HasAnswer
    <3>6. BlockedByAbandonedCall'
      BY <2>4, <1>0 DEF Acknowledged, BlockedByAbandonedCall
    <3> QED BY <1>0, <3>1, <3>2, <3>3, <3>4, <3>5, <3>6
  <2>5. CASE PublishFails(c)
    <3>1. TablesFollowCalls'
      BY <2>5, <1>0 DEF PublishFails, TablesFollowCalls
    <3>2. BrokerFollowsCalls'
      BY <2>5, <1>0 DEF PublishFails, BrokerFollowsCalls
    <3>3. ChannelsFilledOnce'
      BY <2>5, <1>0 DEF PublishFails, ChannelsFilledOnce, IsAnswerTo
    <3>4. InboxGenuine'
      BY <2>5, <1>0 DEF PublishFails, InboxGenuine, IsAnswerTo
    <3>5. ResponsesHonest'
      BY <2>5, <1>0
         DEF PublishFails, ResponsesHonest, IsAnswerTo, HasAnswer, Failed,
             TimedOut, Answered, NoResponse, Responses
    <3>6. BlockedByAbandonedCall'
      BY <2>5, <1>0 DEF PublishFails, BlockedByAbandonedCall
    <3> QED BY <1>0, <3>1, <3>2, <3>3, <3>4, <3>5, <3>6
  <2>6. CASE DeadlinePassed(c)
    <3>1. TablesFollowCalls'
      BY <2>6, <1>0 DEF DeadlinePassed, TablesFollowCalls
    <3>2. BrokerFollowsCalls'
      BY <2>6, <1>0 DEF DeadlinePassed, BrokerFollowsCalls
    <3>3. ChannelsFilledOnce'
      BY <2>6, <1>0 DEF DeadlinePassed, ChannelsFilledOnce, IsAnswerTo
    <3>4. InboxGenuine'
      BY <2>6, <1>0 DEF DeadlinePassed, InboxGenuine, IsAnswerTo
    <3>5. ResponsesHonest'
      BY <2>6, <1>0
         DEF DeadlinePassed, ResponsesHonest, IsAnswerTo, HasAnswer, Failed,
             TimedOut, Answered, NoResponse, Responses
    <3>6. BlockedByAbandonedCall'
      BY <2>6, <1>0 DEF DeadlinePassed, BlockedByAbandonedCall
    <3> QED BY <1>0, <3>1, <3>2, <3>3, <3>4, <3>5, <3>6
  <2>7. CASE Receive(c)
    <3>1. TablesFollowCalls'
      BY <2>7, <1>0 DEF Receive, TablesFollowCalls
    <3>2. BrokerFollowsCalls'
      BY <2>7, <1>0 DEF Receive, BrokerFollowsCalls
    <3>3. ChannelsFilledOnce'
      BY <2>7, <1>0 DEF Receive, ChannelsFilledOnce, IsAnswerTo
    <3>4. InboxGenuine'
      BY <2>7, <1>0 DEF Receive, InboxGenuine, IsAnswerTo
    <3>5. ResponsesHonest'
      <4> DEFINE r == Answered(waitCh[c].buf)
      <4>0. waitCh[c].buf # NoPacket
        <5>1. waitCh[c] \in [buf : Packets \cup {NoPacket}, closed : BOOLEAN]
          BY <1>0
        <5>2. waitCh[c].buf # NoPacket \/ waitCh[c].closed
          BY <2>7, <5>1 DEF Receive, EmptyChan
        <5> QED BY <2>7, <5>2 DEF Receive, ChannelsFilledOnce
      <4>1. /\ r.payload = waitCh[c].buf
            /\ r.payload # NoPacket
            /\ r.error = FALSE
            /\ r.timeOut = FALSE
        BY <4>0 DEF Answered
      <4>2. waitCh[c].closed /\ IsAnswerTo(c, waitCh[c].buf)
        BY <4>0 DEF ChannelsFilledOnce
      <4>3. \A d \in Calls : waitCh'[d].closed = waitCh[d].closed
        BY <2>7, <1>0 DEF Receive
      <4>4. /\ responseChan' = [responseChan EXCEPT ![c] = r]
            /\ pc' = [pc EXCEPT ![c] = "cleanup"]
            /\ UNCHANGED <<answers, ctxDone>>
        BY <2>7 DEF Receive
      <4> HIDE DEF r
      <4> QED BY <4>1, <4>2, <4>3, <4>4, <1>0
              DEF ResponsesHonest, IsAnswerTo, HasAnswer
    <3>6. BlockedByAbandonedCall'
      BY <2>7, <1>0 DEF Receive, BlockedByAbandonedCall
    <3> QED BY <1>0, <3>1, <3>2, <3>3, <3>4, <3>5, <3>6
  <2>8. CASE Cleanup(c)
    <3>1. TablesFollowCalls'
      BY <2>8, <1>0 DEF Cleanup, TablesFollowCalls
    <3>2. BrokerFollowsCalls'
      BY <2>8, <1>0 DEF Cleanup, BrokerFollowsCalls
    <3>3. ChannelsFilledOnce'
      BY <2>8, <1>0 DEF Cleanup, ChannelsFilledOnce, IsAnswerTo
    <3>4. InboxGenuine'
      BY <2>8, <1>0 DEF Cleanup, InboxGenuine, IsAnswerTo
    <3>5. ResponsesHonest'
      BY <2>8, <1>0 DEF Cleanup, ResponsesHonest, IsAnswerTo, HasAnswer
    <3>6. BlockedByAbandonedCall'
      BY <2>8, <1>0 DEF Cleanup, BlockedByAbandonedCall
    <3> QED BY <1>0, <3>1, <3>2, <3>3, <3>4, <3>5, <3>6
  <2> QED BY <1>2, <2>1, <2>2, <2>3, <2>4, <2>5, <2>6, <2>7, <2>8 DEF QuietStep
<1>3. ASSUME NEW c \in Calls, SendRequest(c) PROVE IInv'
  <2>1. TablesFollowCalls'
    BY <1>3, <1>0 DEF SendRequest, TablesFollowCalls
  <2>2. BrokerFollowsCalls'
    BY <1>3, <1>0 DEF SendRequest, BrokerFollowsCalls
  <2>3. ChannelsFilledOnce'
    BY <1>3, <1>0 DEF SendRequest, ChannelsFilledOnce, IsAnswerTo
  <2>4. InboxGenuine'
    <3>1. RequestPacket(c).corr = c
      BY DEF RequestPacket
    <3> QED BY <1>3, <3>1 DEF SendRequest, InboxGenuine, IsAnswerTo
  <2>5. ResponsesHonest'
    BY <1>3, <1>0 DEF SendRequest, ResponsesHonest, IsAnswerTo, HasAnswer
  <2>6. BlockedByAbandonedCall'
    BY <1>3, <1>0 DEF SendRequest, BlockedByAbandonedCall
  <2> QED BY <1>0, <2>1, <2>2, <2>3, <2>4, <2>5, <2>6
<1>4. ASSUME NEW c \in Calls, Expire(c) PROVE IInv'
  <2>1. TablesFollowCalls'
    BY <1>4, <1>0 DEF Expire, TablesFollowCalls
  <2>2. BrokerFollowsCalls'
    BY <1>4, <1>0 DEF Expire, BrokerFollowsCalls
  <2>3. ChannelsFilledOnce'
    BY <1>4, <1>0 DEF Expire, ChannelsFilledOnce, IsAnswerTo
  <2>4. InboxGenuine'
    BY <1>4, <1>0 DEF Expire, InboxGenuine, IsAnswerTo
  <2>5. ResponsesHonest'
    BY <1>4, <1>0 DEF Expire, ResponsesHonest, IsAnswerTo, HasAnswer
  <2>6. BlockedByAbandonedCall'
    BY <1>4, <1>0 DEF Expire, BlockedByAbandonedCall
  <2> QED BY <1>0, <2>1, <2>2, <2>3, <2>4, <2>5, <2>6
<1>5. ASSUME NEW c \in Calls, Answer(c) PROVE IInv'
  <2>1. TablesFollowCalls'
    BY <1>5, <1>0 DEF Answer, TablesFollowCalls
  <2>2. BrokerFollowsCalls'
    BY <1>5, <1>0 DEF Answer, BrokerFollowsCalls, Forward
  <2>3. ChannelsFilledOnce'
    BY <1>5, <1>0 DEF Answer, ChannelsFilledOnce, IsAnswerTo, Forward
  <2>4. InboxGenuine'
    <3>1. ASSUME NEW d \in Calls, NEW q, IsAnswerTo(d, q)
          PROVE  IsAnswerTo(d, q)'
      <4>1. answers[d] \in Nat /\ answers'[d] \in Nat /\ answers[d] <= answers'[d]
        BY <1>5, <1>0, MaxAnswersAssumption DEF Answer
      <4>2. PICK n \in 1..answers[d] : q = AnswerPacket(d, n)
        BY <3>1 DEF IsAnswerTo
      <4>3. n \in 1..answers'[d]
        BY <4>1
      <4> QED BY <4>2, <4>3 DEF IsAnswerTo
    <3>2. ASSUME NEW q, q = AnswerPacket(c, answers[c] + 1)
          PROVE  IsAnswerTo(c, q)'
      <4>1. answers'[c] = answers[c] + 1 /\ answers[c] + 1 \in 1..answers'[c]
        BY <1>5, <1>0, MaxAnswersAssumption DEF Answer
      <4> QED BY <3>2, <4>1 DEF IsAnswerTo
    <3>3. AnswerPacket(c, answers[c] + 1).corr = c
      BY DEF AnswerPacket
    <3>4. inbox' \subseteq inbox \cup {AnswerPacket(c, answers[c] + 1)}
      BY <1>5 DEF Answer, Forward
    <3>5. ASSUME NEW p \in inbox'
          PROVE  p = RequestPacket(p.corr) \/ IsAnswerTo(p.corr, p)'
      <4>1. CASE p \in inbox
        BY <3>1, <4>1, <1>0 DEF InboxGenuine, Packets
      <4>2. CASE p = AnswerPacket(c, answers[c] + 1)
        BY <3>2, <3>3, <4>2
      <4> QED BY <3>4, <4>1, <4>2
    <3> QED BY <3>5 DEF InboxGenuine
  <2>5. ResponsesHonest'
    BY <1>5, <1>0 DEF Answer, ResponsesHonest, IsAnswerTo, HasAnswer, Forward
  <2>6. BlockedByAbandonedCall'
    BY <1>5, <1>0 DEF Answer, BlockedByAbandonedCall
  <2> QED BY <1>0, <2>1, <2>2, <2>3, <2>4, <2>5, <2>6
<1>6. ASSUME NEW p \in inbox, HandleIncomingPublish(p) PROVE IInv'
  <2>1. CASE Deliver(p)
    <3>1. TablesFollowCalls'
      BY <1>6, <2>1, <1>0
         DEF Deliver, TablesFollowCalls, HandleIncomingPublish, IsExpected
    <3>2. BrokerFollowsCalls'
      BY <1>6, <2>1, <1>0
         DEF Deliver, BrokerFollowsCalls, HandleIncomingPublish, IsExpected
    <3>3. ChannelsFilledOnce'
      <4>1. p.corr \in Calls /\ IsAnswerTo(p.corr, p)
        BY <1>6, <2>1, <1>0, EchoIsNoAnswer
        DEF Deliver, IsExpected, InboxGenuine, Packets
      <4>2. pc[p.corr] \notin {"idle", "register", "pending"}
        BY <2>1, <4>1 DEF Deliver, IsExpected, TablesFollowCalls
      <4> SUFFICES ASSUME NEW d \in Calls
                   PROVE  (/\ waitCh[d].buf # NoPacket =>
                                waitCh[d].closed /\ IsAnswerTo(d, waitCh[d].buf)
                           /\ waitCh[d].closed =>
                                \/ waitCh[d].buf # NoPacket
                                \/ pc[d] \in {"cleanup", "returned"}
                           /\ waitCh[d].closed =>
                                /\ d \notin pendingRequests
                                /\ pc[d] \notin {"idle", "register", "pending"})'
        BY DEF ChannelsFilledOnce
      <4>3. CASE d = p.corr
        <5>1. p # NoPacket
          BY <1>0, NoPacketAssumption
        <5> QED BY <1>6, <2>1, <4>1, <4>2, <4>3, <5>1, <1>0
                DEF HandleIncomingPublish, Deliver, IsAnswerTo
      <4>4. CASE d # p.corr
        BY <1>6, <2>1, <4>1, <4>4, <1>0
        DEF HandleIncomingPublish, Deliver, IsAnswerTo, ChannelsFilledOnce
      <4> QED BY <4>3, <4>4
    <3>4. InboxGenuine'
      BY <1>6, <2>1, <1>0
         DEF Deliver, InboxGenuine, IsAnswerTo, HandleIncomingPublish,
             IsExpected
    <3>5. ResponsesHonest'
      BY <1>6, <2>1, <1>0
         DEF Deliver, ResponsesHonest, IsAnswerTo, HasAnswer,
             HandleIncomingPublish, IsExpected
    <3>6. BlockedByAbandonedCall'
      BY <1>6, <2>1, <1>0
         DEF Deliver, BlockedByAbandonedCall, HandleIncomingPublish, IsExpected
    <3> QED BY <1>0, <3>1, <3>2, <3>3, <3>4, <3>5, <3>6
  <2>2. CASE BlockOnNilChannel(p)
    <3>1. TablesFollowCalls'
      BY <1>6, <2>2, <1>0
         DEF BlockOnNilChannel, TablesFollowCalls, HandleIncomingPublish,
             IsExpected
    <3>2. BrokerFollowsCalls'
      BY <1>6, <2>2, <1>0
         DEF BlockOnNilChannel, BrokerFollowsCalls, HandleIncomingPublish,
             IsExpected
    <3>3. ChannelsFilledOnce'
      BY <1>6, <2>2, <1>0
         DEF BlockOnNilChannel, ChannelsFilledOnce, IsAnswerTo,
             HandleIncomingPublish, IsExpected
    <3>4. InboxGenuine'
      BY <1>6, <2>2, <1>0
         DEF BlockOnNilChannel, InboxGenuine, IsAnswerTo,
             HandleIncomingPublish, IsExpected
    <3>5. ResponsesHonest'
      BY <1>6, <2>2, <1>0
         DEF BlockOnNilChannel, ResponsesHonest, IsAnswerTo, HasAnswer,
             HandleIncomingPublish, IsExpected
    <3>6. BlockedByAbandonedCall'
      <4>1. p.corr \in Calls /\ IsAnswerTo(p.corr, p)
        BY <1>6, <2>2, <1>0, EchoIsNoAnswer
        DEF BlockOnNilChannel, IsExpected, InboxGenuine, Packets
      <4>2. answers[p.corr] > 0
        BY <4>1, <1>0, MaxAnswersAssumption DEF IsAnswerTo
      <4>3. pc[p.corr] = "returned"
        BY <2>2, <4>1, <1>0
           DEF BlockOnNilChannel, IsExpected, TablesFollowCalls, Steps
      <4>4. responseChan[p.corr].error
        BY <2>2, <4>1, <4>3
        DEF BlockOnNilChannel, IsExpected, ChannelsFilledOnce, ResponsesHonest
      <4> QED BY <1>6, <2>2, <4>1, <4>2, <4>3, <4>4
              DEF HandleIncomingPublish, BlockOnNilChannel, IsExpected,
                  BlockedByAbandonedCall
    <3> QED BY <1>0, <3>1, <3>2, <3>3, <3>4, <3>5, <3>6
  <2>3. CASE RouteOther(p)
    <3>1. TablesFollowCalls'
      BY <1>6, <2>3, <1>0
         DEF RouteOther, TablesFollowCalls, HandleIncomingPublish, IsExpected
    <3>2. BrokerFollowsCalls'
      BY <1>6, <2>3, <1>0
         DEF RouteOther, BrokerFollowsCalls, HandleIncomingPublish, IsExpected
    <3>3. ChannelsFilledOnce'
      BY <1>6, <2>3, <1>0
         DEF RouteOther, ChannelsFilledOnce, IsAnswerTo, HandleIncomingPublish,
             IsExpected
    <3>4. InboxGenuine'
      BY <1>6, <2>3, <1>0
         DEF RouteOther, InboxGenuine, IsAnswerTo, HandleIncomingPublish,
             IsExpected
    <3>5. ResponsesHonest'
      BY <1>6, <2>3, <1>0
         DEF RouteOther, ResponsesHonest, IsAnswerTo, HasAnswer,
             HandleIncomingPublish, IsExpected
    <3>6. BlockedByAbandonedCall'
      BY <1>6, <2>3, <1>0
         DEF RouteOther, BlockedByAbandonedCall, HandleIncomingPublish,
             IsExpected
    <3> QED BY <1>0, <3>1, <3>2, <3>3, <3>4, <3>5, <3>6
  <2> QED BY <1>6, <2>1, <2>2, <2>3 DEF HandleIncomingPublish
<1>7. CASE Disconnect
  <2>1. TablesFollowCalls'
    BY <1>7, <1>0 DEF Disconnect, TablesFollowCalls
  <2>2. BrokerFollowsCalls'
    BY <1>7, <1>0 DEF Disconnect, BrokerFollowsCalls
  <2>3. ChannelsFilledOnce'
    BY <1>7, <1>0 DEF Disconnect, ChannelsFilledOnce, IsAnswerTo
  <2>4. InboxGenuine'
    BY <1>7, <1>0 DEF Disconnect, InboxGenuine, IsAnswerTo
  <2>5. ResponsesHonest'
    BY <1>7, <1>0 DEF Disconnect, ResponsesHonest, IsAnswerTo, HasAnswer
  <2>6. BlockedByAbandonedCall'
    BY <1>7, <1>0 DEF Disconnect, BlockedByAbandonedCall
  <2> QED BY <1>0, <2>1, <2>2, <2>3, <2>4, <2>5, <2>6
<1>8. CASE UNCHANGED vars
  <2>1. TablesFollowCalls'
    BY <1>8, <1>0 DEF vars, TablesFollowCalls
  <2>2. BrokerFollowsCalls'
    BY <1>8, <1>0 DEF vars, BrokerFollowsCalls
  <2>3. ChannelsFilledOnce'
    BY <1>8, <1>0 DEF vars, ChannelsFilledOnce, IsAnswerTo
  <2>4. InboxGenuine'
    BY <1>8, <1>0 DEF vars, InboxGenuine, IsAnswerTo
  <2>5. ResponsesHonest'
    BY <1>8, <1>0 DEF vars, ResponsesHonest, IsAnswerTo, HasAnswer
  <2>6. BlockedByAbandonedCall'
    BY <1>8, <1>0 DEF vars, BlockedByAbandonedCall
  <2> QED BY <1>0, <2>1, <2>2, <2>3, <2>4, <2>5, <2>6
<1> QED BY <1>1, <1>2, <1>3, <1>4, <1>5, <1>6, <1>7, <1>8 DEF Next, CallStep


\* The inductive invariant holds of every reachable state: the tables of
\* Transport, its channels and what the broker knows fit the program counters
\* of the calls.
THEOREM Invariance == Spec => []IInv
BY InitIInv, StepIInv, PTL DEF Spec

-----------------------------------------------------------------------------
(* The safety properties.                                                  *)

\* handleIncomingPublish never sends on a full or a closed channel, however
\* often the responder answers.
THEOREM SendsAreSafe == Spec => []SendIsSafe
<1>1. IInv => SendIsSafe
  <2> SUFFICES ASSUME IInv, NEW c \in pendingRequests \cap requestResponseChan
               PROVE  waitCh[c] = EmptyChan
    BY DEF SendIsSafe
  <2>1. waitCh[c] \in [buf : Packets \cup {NoPacket}, closed : BOOLEAN]
    BY DEF IInv, TypeOK
  <2>2. waitCh[c].closed = FALSE /\ waitCh[c].buf = NoPacket
    BY <2>1 DEF IInv, TypeOK, ChannelsFilledOnce
  <2> QED BY <2>1, <2>2 DEF EmptyChan
<1> QED BY <1>1, Invariance, PTL

\* A call gives its caller no packet but an answer to that call.
THEOREM AnswersAreOwn == Spec => []AnswerIsOwn
<1>1. IInv => AnswerIsOwn
  BY DEF IInv, AnswerIsOwn, ResponsesHonest
<1> QED BY <1>1, Invariance, PTL

\* A call that has returned has given its caller a response: its channel is
\* never closed before the answer is in it (transport.go:221-241, 463-472).
THEOREM CallerIsTold == Spec => []CallerAlwaysToldSomething
<1>1. IInv => CallerAlwaysToldSomething
  BY DEF IInv, CallerAlwaysToldSomething, ResponsesHonest, HasAnswer,
     NoResponse
<1> QED BY <1>1, Invariance, PTL

\* A call that returned an answer has left nothing in the two tables.
THEOREM AnsweredCallsLeaveNothing == Spec => []AnsweredCallLeavesNothing
<1>1. IInv => AnsweredCallLeavesNothing
  BY DEF IInv, AnsweredCallLeavesNothing, ResponsesHonest, ChannelsFilledOnce,
         TablesFollowCalls
<1> QED BY <1>1, Invariance, PTL

\* No answer can come before the subscription it needs.
THEOREM SubscribedFirst == Spec => []SubscribedBeforeRequested
<1>1. IInv => SubscribedBeforeRequested
  BY DEF IInv, TypeOK, SubscribedBeforeRequested, BrokerFollowsCalls
<1> QED BY <1>1, Invariance, PTL

\* Only a call that failed and was answered afterwards blocks the router.
THEOREM BlockedOnlyByAbandonedCall == Spec => []BlockedByAbandonedCall
BY Invariance, PTL DEF IInv

\* Once the router is blocked nothing returns and nothing starts, for ever.
THEOREM BlockedIsForGood == Spec => BlockedForGood
<1> DEFINE Stays == reqResLock = "router" =>
       /\ reqResLock' = "router"
       /\ \A c \in Calls : pc[c] # "returned" => pc'[c] # "returned"
       /\ \A c \in Calls : pc[c] = "register" => pc'[c] = "register"
<1>1. TypeOK /\ [Next]_vars => Stays
  <2> SUFFICES ASSUME TypeOK, [Next]_vars, reqResLock = "router"
               PROVE  Stays
    OBVIOUS
  <2> USE DEF TypeOK, Goto, Respond, LockFree, callerVars, tableVars,
              brokerVars
  <2>1. ASSUME NEW c \in Calls, Call(c) PROVE Stays
    BY <2>1 DEF Call
  <2>2. ASSUME NEW c \in Calls, CallStep(c) PROVE Stays
    BY <2>2 DEF CallStep, QuietStep, Register, MarkPending, Subscribe,
                SendRequest, Acknowledged, PublishFails, DeadlinePassed,
                Receive, Cleanup
  <2>3. ASSUME NEW c \in Calls, Expire(c) \/ Answer(c) PROVE Stays
    BY <2>3 DEF Expire, Answer
  <2>4. ASSUME NEW p \in inbox, HandleIncomingPublish(p) PROVE Stays
    BY <2>4 DEF HandleIncomingPublish
  <2>5. CASE Disconnect \/ UNCHANGED vars
    BY <2>5 DEF Disconnect, vars
  <2> QED BY <2>1, <2>2, <2>3, <2>4, <2>5 DEF Next
<1> QED BY <1>1, TypeCorrect, PTL DEF Spec, BlockedForGood

-----------------------------------------------------------------------------
(* Refinement.                                                             *)

LEMMA InitImplements == Init => Rpc!Init
<1> SUFFICES ASSUME Init PROVE Rpc!Init
  OBVIOUS
<1>1. \A c \in Calls : pc[c] = "idle" /\ answers[c] = 0
  BY DEF Init
<1>2. {c \in Calls : answers[c] > 0} = {} /\ ctxDone = {}
  BY <1>1 DEF Init
<1> QED BY <1>1, <1>2 DEF Rpc!Init

\* Status, served and outcome of one call, as the refinement maps them.
RpcStatus(c) == CASE pc[c] = "idle" -> "idle"
                  [] pc[c] = "returned" -> "closed"
                  [] OTHER -> "open"
RpcOutcome(c) == IF pc[c] = "returned" THEN Outcome(responseChan[c]) ELSE "none"

\* A step that moves no call to or from "idle" and "returned", gives no answer
\* and ends no context is a stutter of RpcCalls.
LEMMA InnerStepStutters ==
  ASSUME \A c \in Calls : /\ RpcStatus(c)' = RpcStatus(c)
                          /\ RpcOutcome(c)' = RpcOutcome(c),
         UNCHANGED <<answers, ctxDone>>
  PROVE  UNCHANGED Rpc!vars
<1>1. [c \in Calls |-> RpcStatus(c)]' = [c \in Calls |-> RpcStatus(c)]
  OBVIOUS
<1>2. [c \in Calls |-> RpcOutcome(c)]' = [c \in Calls |-> RpcOutcome(c)]
  OBVIOUS
<1>3. {c \in Calls : answers[c] > 0}' = {c \in Calls : answers[c] > 0}
  OBVIOUS
<1> QED BY <1>1, <1>2, <1>3 DEF Rpc!vars, RpcStatus, RpcOutcome

LEMMA StepImplements == IInv /\ [Next]_vars => [Rpc!Next]_(Rpc!vars)
<1> SUFFICES ASSUME IInv, [Next]_vars PROVE Rpc!Next \/ UNCHANGED Rpc!vars
  OBVIOUS
<1>0. TypeOK
  BY DEF IInv
<1> USE DEF TypeOK, Goto, Respond, callerVars, tableVars, brokerVars
<1>1. ASSUME NEW c \in Calls, Call(c) PROVE Rpc!Next
  <2>1. /\ RpcStatus(c) = "idle" /\ RpcStatus(c)' = "open"
        /\ \A d \in Calls \ {c} : RpcStatus(d)' = RpcStatus(d)
        /\ \A d \in Calls : RpcOutcome(d)' = RpcOutcome(d)
    BY <1>0, <1>1 DEF Call, RpcStatus, RpcOutcome
  <2>2. [d \in Calls |-> RpcStatus(d)]'
          = [[d \in Calls |-> RpcStatus(d)] EXCEPT ![c] = "open"]
    BY <2>1
  <2>3. [d \in Calls |-> RpcOutcome(d)]' = [d \in Calls |-> RpcOutcome(d)]
    BY <2>1
  <2>4. {d \in Calls : answers[d] > 0}' = {d \in Calls : answers[d] > 0}
    BY <1>1 DEF Call
  <2>5. Rpc!Open(c)
    BY <1>1, <2>1, <2>2, <2>3, <2>4 DEF Call, Rpc!Open, RpcStatus, RpcOutcome
  <2> QED BY <2>5 DEF Rpc!Next
<1>2. ASSUME NEW c \in Calls, CallStep(c), ~Cleanup(c) PROVE UNCHANGED Rpc!vars
  <2>1. \A d \in Calls : RpcStatus(d)' = RpcStatus(d)
                         /\ RpcOutcome(d)' = RpcOutcome(d)
    BY <1>0, <1>2
    DEF RpcStatus, RpcOutcome, CallStep, QuietStep, Register, MarkPending,
        Subscribe, SendRequest, Acknowledged, PublishFails, DeadlinePassed, Receive
  <2>2. UNCHANGED <<answers, ctxDone>>
    BY <1>2
    DEF CallStep, QuietStep, Register, MarkPending, Subscribe, SendRequest,
        Acknowledged, PublishFails, DeadlinePassed, Receive
  <2> QED BY <2>1, <2>2, InnerStepStutters
<1>3. ASSUME NEW c \in Calls, Cleanup(c) PROVE Rpc!Next
  <2>1. PICK o \in Rpc!Outcomes : o = Outcome(responseChan[c])
    BY DEF Outcome, Rpc!Outcomes
  <2>2. o = "answer" => answers[c] > 0
    <3>1. HasAnswer(c) \/ responseChan[c].error
      BY <1>3 DEF Cleanup, IInv, ResponsesHonest
    <3>2. HasAnswer(c) => answers[c] > 0
      BY <1>0, MaxAnswersAssumption DEF IInv, ResponsesHonest, IsAnswerTo
    <3> QED BY <2>1, <3>1, <3>2 DEF Outcome
  <2>3. o = "timeout" => c \in ctxDone
    BY <2>1 DEF Outcome, IInv, ResponsesHonest
  <2>4. /\ RpcStatus(c) = "open" /\ RpcStatus(c)' = "closed"
        /\ RpcOutcome(c)' = o
        /\ \A d \in Calls \ {c} : /\ RpcStatus(d)' = RpcStatus(d)
                                  /\ RpcOutcome(d)' = RpcOutcome(d)
    BY <1>0, <1>3, <2>1 DEF Cleanup, RpcStatus, RpcOutcome
  <2>5. [d \in Calls |-> RpcStatus(d)]'
          = [[d \in Calls |-> RpcStatus(d)] EXCEPT ![c] = "closed"]
    BY <2>4
  <2>6. [d \in Calls |-> RpcOutcome(d)]'
          = [[d \in Calls |-> RpcOutcome(d)] EXCEPT ![c] = o]
    BY <2>4
  <2>7. {d \in Calls : answers[d] > 0}' = {d \in Calls : answers[d] > 0}
    BY <1>3 DEF Cleanup
  <2>8. Rpc!Close(c, o)
    BY <1>3, <2>2, <2>3, <2>4, <2>5, <2>6, <2>7
    DEF Cleanup, Rpc!Close, RpcStatus, RpcOutcome
  <2> QED BY <2>8 DEF Rpc!Next
<1>4. ASSUME NEW c \in Calls, Expire(c) PROVE Rpc!Next
  <2>1. {d \in Calls : answers[d] > 0}' = {d \in Calls : answers[d] > 0}
    BY <1>4 DEF Expire
  <2>2. [d \in Calls |-> RpcStatus(d)]' = [d \in Calls |-> RpcStatus(d)]
    BY <1>4 DEF Expire, RpcStatus
  <2>3. [d \in Calls |-> RpcOutcome(d)]' = [d \in Calls |-> RpcOutcome(d)]
    BY <1>4 DEF Expire, RpcOutcome
  <2>4. RpcStatus(c) # "idle"
    BY <1>4 DEF Expire, RpcStatus
  <2>5. Rpc!Expire(c)
    BY <1>4, <2>1, <2>2, <2>3, <2>4
       DEF Expire, Rpc!Expire, RpcStatus, RpcOutcome
  <2> QED BY <2>5 DEF Rpc!Next
<1>5. ASSUME NEW c \in Calls, Answer(c) PROVE Rpc!Next
  <2>1. {d \in Calls : answers[d] > 0}' = {d \in Calls : answers[d] > 0} \cup {c}
    BY <1>0, <1>5, MaxAnswersAssumption DEF Answer
  <2>2. [d \in Calls |-> RpcStatus(d)]' = [d \in Calls |-> RpcStatus(d)]
    BY <1>5 DEF Answer, RpcStatus
  <2>3. [d \in Calls |-> RpcOutcome(d)]' = [d \in Calls |-> RpcOutcome(d)]
    BY <1>5 DEF Answer, RpcOutcome
  <2>4. RpcStatus(c) # "idle"
    BY <1>5 DEF Answer, RpcStatus, IInv, BrokerFollowsCalls
  <2>5. Rpc!Serve(c)
    BY <1>5, <2>1, <2>2, <2>3, <2>4
       DEF Answer, Rpc!Serve, RpcStatus, RpcOutcome
  <2> QED BY <2>5 DEF Rpc!Next
<1>6. ASSUME NEW p \in inbox, HandleIncomingPublish(p) PROVE UNCHANGED Rpc!vars
  BY <1>6, InnerStepStutters DEF HandleIncomingPublish, RpcStatus, RpcOutcome
<1>7. CASE Disconnect
  BY <1>7, InnerStepStutters DEF Disconnect, RpcStatus, RpcOutcome
<1>8. CASE UNCHANGED vars
  BY <1>8, InnerStepStutters DEF vars, RpcStatus, RpcOutcome
<1> QED BY <1>1, <1>2, <1>3, <1>4, <1>5, <1>6, <1>7, <1>8 DEF Next

\* PublishWithResponse implements RpcCalls, for any set of calls.
THEOREM Implements == Spec => ImplementsRpcCalls
BY InitImplements, StepImplements, Invariance, PTL
DEF Spec, ImplementsRpcCalls, Rpc!Spec
=============================================================================
