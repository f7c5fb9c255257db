---------------------------- MODULE RolloutProofs ----------------------------
(***************************************************************************)
(* Proofs about Rollout, for any number of pods.                           *)
(***************************************************************************)
EXTENDS Rollout, TLAPS

USE DEF Phases, podVars, brokerVars, historyVars, Goto

\* The first state of a Deployment is one of Rollout's types.
LEMMA InitIInv == Init => IInv
<1> SUFFICES ASSUME Init PROVE IInv
  OBVIOUS
<1>1. TypeOK
  <2>1. phase \in [Pods -> Phases]
    BY DEF Init
  <2>2. inFlight \in [Pods -> 0..MaxInFlight]
    BY MaxInFlightAssumption DEF Init
  <2>3. granted \in [Pods -> SUBSET Topics]
    BY DEF Init
  <2>4. keepsWill \in BOOLEAN
    BY DEF Init
  <2> QED
    BY <2>1, <2>2, <2>3, <2>4 DEF Init, TypeOK
<1>2. AnnouncedByAPod /\ ConnectsFirst /\ OwnerKeepsSubscriptions
  BY NoPodAssumption
  DEF Init, AnnouncedByAPod, ConnectsFirst, OwnerKeepsSubscriptions
<1>3. StatusSurvivesTakeover /\ OnlineHidesNoCrash
  BY DEF Init, StatusSurvivesTakeover, OnlineHidesNoCrash
<1> QED
  BY <1>1, <1>2, <1>3 DEF IInv

\* Every step of a pod, and the expiry of the announcement, keeps the types.
LEMMA StepTypeOK == TypeOK /\ [Next]_vars => TypeOK'
<1> SUFFICES ASSUME TypeOK, [Next]_vars PROVE TypeOK'
  OBVIOUS
<1> USE NoPodAssumption, MaxInFlightAssumption DEF TypeOK
<1>1. CASE UNCHANGED vars
  BY <1>1 DEF vars
<1>2. CASE ExpireStatus
  BY <1>2 DEF ExpireStatus
<1>3. ASSUME NEW p \in Pods, PodStep(p) PROVE TypeOK'
  <2>1. CASE Create(p)
    BY <2>1 DEF Create
  <2>2. CASE Connect(p)
    BY <2>2 DEF Connect, WillPublished
  <2>3. CASE ConnectFails(p)
    BY <2>3 DEF ConnectFails
  <2>4. CASE Announce(p)
    BY <2>4 DEF Announce
  <2>5. CASE SubscribeTopics(p)
    BY <2>5 DEF SubscribeTopics
  <2>6. CASE Listen(p)
    BY <2>6 DEF Listen
  <2>7. CASE Signal(p)
    BY <2>7 DEF Signal
  <2>8. CASE Shutdown(p)
    BY <2>8 DEF Shutdown
  <2>9. CASE UnsubscribeTopics(p)
    BY <2>9 DEF UnsubscribeTopics
  <2>10. CASE Disconnect(p)
    BY <2>10 DEF Disconnect
  <2>11. CASE Exit(p)
    BY <2>11 DEF Exit
  <2>12. CASE Accept(p)
    BY <2>12 DEF Accept
  <2>13. CASE Finish(p)
    BY <2>13 DEF Finish
  <2>14. CASE Block(p)
    BY <2>14 DEF Block
  <2>15. CASE LoseBroker(p)
    BY <2>15 DEF LoseBroker, WillPublished
  <2>16. CASE Crash(p)
    BY <2>16 DEF Crash, Alive
  <2> QED
    BY <1>3, <2>1, <2>2, <2>3, <2>4, <2>5, <2>6, <2>7, <2>8,
       <2>9, <2>10, <2>11, <2>12, <2>13, <2>14, <2>15, <2>16 DEF PodStep, MainStep
<1> QED
  BY <1>1, <1>2, <1>3 DEF Next

\* The steps that touch the broker keep the invariant because the broker
\* listens to the session's owner only, and has nothing of a pod that has not
\* connected yet.
LEMMA StepIInv == IInv /\ [Next]_vars => IInv'
<1> SUFFICES ASSUME IInv, [Next]_vars PROVE IInv'
  OBVIOUS
<1>0. TypeOK /\ TypeOK'
  BY StepTypeOK DEF IInv
<1> USE NoPodAssumption, <1>0
    DEF IInv, TypeOK, AnnouncedByAPod, ConnectsFirst,
        OwnerKeepsSubscriptions, StatusSurvivesTakeover, OnlineHidesNoCrash
<1>1. CASE UNCHANGED vars
  BY <1>1 DEF vars
<1>2. CASE ExpireStatus
  BY <1>2 DEF ExpireStatus
<1>3. ASSUME NEW p \in Pods, PodStep(p) PROVE IInv'
  <2>1. CASE Create(p)
    BY <2>1 DEF Create
  <2>2. CASE Connect(p)
    BY <2>2 DEF Connect, WillPublished
  <2>3. CASE ConnectFails(p)
    BY <2>3 DEF ConnectFails
  <2>4. CASE Announce(p)
    BY <2>4 DEF Announce
  <2>5. CASE SubscribeTopics(p)
    <3>1. UNCHANGED <<owner, newest, status, keepsWill, heard, released>>
      BY <2>5 DEF SubscribeTopics
    <3>2. \A q \in Pods : q # p => phase'[q] = phase[q] /\ granted'[q] = granted[q]
      BY <2>5 DEF SubscribeTopics
    <3>3. phase[p] \notin {"none", "dialing", "connected"}
          /\ phase'[p] \notin {"none", "dialing", "connected"}
      BY <2>5 DEF SubscribeTopics
    <3>4. OwnerKeepsSubscriptions'
      <4>1. CASE owner = p
        <5>1. PICK topics \in SUBSET Topics :
                /\ subscriptions' = subscriptions \cup topics
                /\ granted' = [granted EXCEPT ![p] = @ \cup topics]
          BY <2>5, <4>1 DEF SubscribeTopics
        <5>2. subscriptions = granted[p] /\ owner' = p
          BY <3>1, <4>1
        <5>3. granted'[p] = granted[p] \cup topics
          BY <5>1
        <5> QED
          BY <5>1, <5>2, <5>3
      <4>2. CASE owner # p
        BY <2>5, <3>1, <4>2 DEF SubscribeTopics
      <4> QED
        BY <4>1, <4>2
    <3> QED
      BY <3>1, <3>2, <3>3, <3>4
  <2>6. CASE Listen(p)
    BY <2>6 DEF Listen
  <2>7. CASE Signal(p)
    BY <2>7 DEF Signal
  <2>8. CASE Shutdown(p)
    BY <2>8 DEF Shutdown
  <2>9. CASE UnsubscribeTopics(p)
    <3>1. UNCHANGED <<owner, newest, status, keepsWill, heard, released>>
      BY <2>9 DEF UnsubscribeTopics
    <3>2. \A q \in Pods : q # p => phase'[q] = phase[q] /\ granted'[q] = granted[q]
      BY <2>9 DEF UnsubscribeTopics
    <3>3. phase[p] \notin {"none", "dialing", "connected"}
          /\ phase'[p] \notin {"none", "dialing", "connected"}
      BY <2>9 DEF UnsubscribeTopics
    <3>4. OwnerKeepsSubscriptions'
      <4>1. CASE owner = p
        <5>1. PICK topics \in SUBSET Topics :
                /\ subscriptions' = subscriptions \ topics
                /\ granted' = [granted EXCEPT ![p] = @ \ topics]
          BY <2>9, <4>1 DEF UnsubscribeTopics
        <5>2. subscriptions = granted[p] /\ owner' = p
          BY <3>1, <4>1
        <5>3. granted'[p] = granted[p] \ topics
          BY <5>1
        <5> QED
          BY <5>1, <5>2, <5>3
      <4>2. CASE owner # p
        BY <2>9, <3>1, <4>2 DEF UnsubscribeTopics
      <4> QED
        BY <4>1, <4>2
    <3> QED
      BY <3>1, <3>2, <3>3, <3>4
  <2>10. CASE Disconnect(p)
    BY <2>10 DEF Disconnect
  <2>11. CASE Exit(p)
    BY <2>11 DEF Exit
  <2>12. CASE Accept(p)
    BY <2>12 DEF Accept
  <2>13. CASE Finish(p)
    BY <2>13 DEF Finish
  <2>14. CASE Block(p)
    BY <2>14 DEF Block
  <2>15. CASE LoseBroker(p)
    BY <2>15 DEF LoseBroker, WillPublished
  <2>16. CASE Crash(p)
    BY <2>16 DEF Crash, Alive
  <2> QED
    BY <1>3, <2>1, <2>2, <2>3, <2>4, <2>5, <2>6, <2>7, <2>8,
       <2>9, <2>10, <2>11, <2>12, <2>13, <2>14, <2>15, <2>16 DEF PodStep, MainStep
<1> QED
  BY <1>1, <1>2, <1>3 DEF Next

\* The strengthened invariant of a rollout holds of every reachable state.
THEOREM Invariance == Spec => []IInv
BY InitIInv, StepIInv, PTL DEF Spec

\* Every variable of a rollout keeps its type (app.go:39-63 and 147-245).
THEOREM TypeCorrect == Spec => []TypeOK
<1>1. IInv => TypeOK
  BY DEF IInv
<1> QED
  BY <1>1, Invariance, PTL

\* Of any number of overlapping pods, the one that has the session keeps just
\* the subscriptions it was granted, on any number of topics, and whichever of
\* them were refused (app.go:151-163, transport.go:247-290).
THEOREM OwnerKeepsItsSubscriptions == Spec => []OwnerKeepsSubscriptions
<1>1. IInv => OwnerKeepsSubscriptions
  BY DEF IInv
<1> QED
  BY <1>1, Invariance, PTL

\* No will comes after an announcement of the pod that took over which the
\* broker has got (transport.go:103-134).
THEOREM StatusSurvives == Spec => []StatusSurvivesTakeover
<1>1. IInv => StatusSurvivesTakeover
  BY DEF IInv
<1> QED
  BY <1>1, Invariance, PTL

\* With a broker that keeps the will, a service whose status is "online"
\* without a session was closed in order, and the broker knows it
\* (transport.go:103-108 and 138-140).
THEOREM CrashesShow == Spec => []OnlineHidesNoCrash
<1>1. IInv => OnlineHidesNoCrash
  BY DEF IInv
<1> QED
  BY <1>1, Invariance, PTL
=============================================================================
