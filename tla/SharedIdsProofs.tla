-------------------------- MODULE SharedIdsProofs ---------------------------
(***************************************************************************)
(* Proofs about SharedIds, for any number of calls and of structs they     *)
(* share, and any number of answers to a request.                          *)
(***************************************************************************)
EXTENDS SharedIds, TLAPS

USE DistinctAssumption, MaxAnswersAssumption

-----------------------------------------------------------------------------
(* The invariant is inductive.                                             *)

\* A transport that nobody has called yet (transport.go:35-43).
LEMMA InitIInv == Init => IInv
<1> SUFFICES ASSUME Init PROVE IInv
  OBVIOUS
<1> USE DEF Init
<1>1. TypeOK
  BY DEF TypeOK, Ids, Steps
<1>2. IdsFollowCalls
  BY DEF IdsFollowCalls
<1>3. IdsComeFromStructs
  BY DEF IdsComeFromStructs, ComesFrom
<1>4. TableFollowsCalls
  BY DEF TableFollowsCalls, Registered
<1>5. ChannelsFilledForKey
  BY DEF ChannelsFilledForKey
<1>6. BlankIdsStayPending
  BY DEF BlankIdsStayPending
<1>7. CarefulCallsAlternate
  BY DEF CarefulCallsAlternate, FollowsOthers, Registered
<1>8. PanicTakesTwo
  BY DEF PanicTakesTwo
<1>9. BlockedForAReason
  BY DEF BlockedForAReason
<1>10. BlankIdStopsRouter
  BY DEF BlankIdStopsRouter
<1>11. CarefulReuseIsHarmless
  BY DEF CarefulReuseIsHarmless
<1> QED BY <1>1, <1>2, <1>3, <1>4, <1>5, <1>6, <1>7, <1>8, <1>9, <1>10, <1>11
           DEF IInv

\* A call begins: nothing is read but whether its struct has Properties
\* (transport.go:204).
LEMMA CallKeeps ==
  ASSUME IInv, NEW c \in Calls, NEW s \in Structs \cup {None}, Call(c, s)
  PROVE  IInv'
<1> USE DEF Call, Goto, Alive, ReusedWithCare, tableVars, channelVars,
            brokerVars
<1>1. TypeOK'
  BY DEF IInv, TypeOK, Steps
<1>2. IdsFollowCalls'
  BY DEF IInv, TypeOK, IdsFollowCalls
<1>3. IdsComeFromStructs'
  BY DEF IInv, TypeOK, IdsFollowCalls, IdsComeFromStructs, ComesFrom
<1>4. TableFollowsCalls'
  BY DEF IInv, TableFollowsCalls, Registered
<1>5. ChannelsFilledForKey'
  BY DEF IInv, ChannelsFilledForKey, Shared, Uses
<1>6. BlankIdsStayPending'
  BY DEF IInv, BlankIdsStayPending
<1>7. CarefulCallsAlternate'
  <2> SUFFICES ASSUME careful', NEW e \in Calls
               PROVE  FollowsOthers(e)'
    BY DEF CarefulCallsAlternate
  <2>1. careful /\ (s # None => ReusedWithCare(s))
    OBVIOUS
  <2>2. /\ struct'[c] = s /\ corID[c] = None /\ responseID[c] = None
        /\ pc[c] = "idle" /\ pc'[c] \in {"fill", "key"}
    BY DEF IInv, TypeOK, IdsFollowCalls
  <2>3. CASE e = c
    BY <2>1, <2>2, <2>3
       DEF IInv, CarefulCallsAlternate, FollowsOthers, Registered, HasOwnAnswer
  <2>4. CASE e # c
    <3>1. /\ pc'[e] = pc[e] /\ struct'[e] = struct[e] /\ got'[e] = got[e]
          /\ careful
      BY <2>4 DEF IInv, TypeOK
    <3>2. ASSUME NEW d \in Calls \ {e},
                 struct'[d] = struct'[e], struct'[e] # None
          PROVE  HasOwnAnswer(e)' \/ HasOwnAnswer(d)'
      BY <2>1, <2>2, <2>4, <3>1, <3>2
         DEF IInv, CarefulCallsAlternate, FollowsOthers, HasOwnAnswer
    <3> QED BY <2>1, <2>2, <2>4, <3>1, <3>2
               DEF IInv, CarefulCallsAlternate, FollowsOthers, HasOwnAnswer
  <2> QED BY <2>3, <2>4
<1>8. PanicTakesTwo'
  BY DEF PanicTakesTwo
<1>9. BlockedForAReason'
  BY DEF IInv, BlockedForAReason, Uses, OwnId
<1>10. BlankIdStopsRouter'
  BY DEF IInv, BlankIdStopsRouter
<1>11. CarefulReuseIsHarmless'
  BY DEF IInv, CarefulReuseIsHarmless
<1> QED BY <1>1, <1>2, <1>3, <1>4, <1>5, <1>6, <1>7, <1>8, <1>9, <1>10, <1>11
           DEF IInv

\* The first caller of a struct without Properties gives it its own fresh id
\* (transport.go:204-212).
LEMMA FillPropertiesKeeps ==
  ASSUME IInv, NEW c \in Calls, FillProperties(c)
  PROVE  IInv'
<1> USE DEF FillProperties, Goto, Alive, tableVars, channelVars, brokerVars
<1>1. TypeOK'
  BY DEF IInv, TypeOK, Ids, Steps
<1>2. IdsFollowCalls'
  BY DEF IInv, IdsFollowCalls
<1>3. IdsComeFromStructs'
  BY DEF IInv, TypeOK, IdsComeFromStructs, ComesFrom
<1>4. TableFollowsCalls'
  BY DEF IInv, TableFollowsCalls, Registered
<1>5. ChannelsFilledForKey'
  BY DEF IInv, ChannelsFilledForKey, Shared, Uses
<1>6. BlankIdsStayPending'
  BY DEF IInv, BlankIdsStayPending
<1>7. CarefulCallsAlternate'
  BY DEF IInv, TypeOK, CarefulCallsAlternate, FollowsOthers, Registered,
     HasOwnAnswer
<1>8. PanicTakesTwo'
  BY DEF PanicTakesTwo
<1>9. BlockedForAReason'
  BY DEF IInv, BlockedForAReason, Uses, OwnId
<1>10. BlankIdStopsRouter'
  BY DEF IInv, BlankIdStopsRouter
<1>11. CarefulReuseIsHarmless'
  BY DEF IInv, CarefulReuseIsHarmless
<1> QED BY <1>1, <1>2, <1>3, <1>4, <1>5, <1>6, <1>7, <1>8, <1>9, <1>10, <1>11
           DEF IInv

\* The key of the channel comes from the struct, or is the call's own
\* (transport.go:204-214).
LEMMA ReadKeyKeeps ==
  ASSUME IInv, NEW c \in Calls, ReadKey(c)
  PROVE  IInv'
<1> USE DEF ReadKey, Goto, Alive, IdFound, tableVars, channelVars, brokerVars
<1>1. TypeOK'
  BY DEF IInv, TypeOK, Ids, Steps
<1>2. IdsFollowCalls'
  BY DEF IInv, TypeOK, IdsFollowCalls, IdsComeFromStructs
<1>3. IdsComeFromStructs'
  BY DEF IInv, TypeOK, IdsComeFromStructs, ComesFrom
<1>4. TableFollowsCalls'
  BY DEF IInv, IdsFollowCalls, TableFollowsCalls, Registered
<1>5. ChannelsFilledForKey'
  BY DEF IInv, IdsFollowCalls, ChannelsFilledForKey, Shared, Uses
<1>6. BlankIdsStayPending'
  BY DEF IInv, IdsFollowCalls, BlankIdsStayPending
<1>7. CarefulCallsAlternate'
  BY DEF IInv, CarefulCallsAlternate, FollowsOthers, Registered, HasOwnAnswer
<1>8. PanicTakesTwo'
  BY DEF PanicTakesTwo
<1>9. BlockedForAReason'
  BY DEF IInv, IdsFollowCalls, BlockedForAReason, Uses, OwnId
<1>10. BlankIdStopsRouter'
  BY DEF IInv, IdsFollowCalls, BlankIdStopsRouter
<1>11. CarefulReuseIsHarmless'
  BY DEF IInv, CarefulReuseIsHarmless
<1> QED BY <1>1, <1>2, <1>3, <1>4, <1>5, <1>6, <1>7, <1>8, <1>9, <1>10, <1>11
           DEF IInv

\* Registering takes the place of a channel under the same key, and then the
\* key is shared (transport.go:215-218).
LEMMA RegisterKeeps ==
  ASSUME IInv, NEW c \in Calls, Register(c)
  PROVE  IInv'
<1> USE DEF Register, Goto, LockFree, channelVars, brokerVars, idVars
<1>1. TypeOK'
  BY DEF IInv, TypeOK, Steps
<1>2. IdsFollowCalls'
  BY DEF IInv, IdsFollowCalls
<1>3. IdsComeFromStructs'
  BY DEF IInv, IdsComeFromStructs, ComesFrom
<1>4. TableFollowsCalls'
  BY DEF IInv, TypeOK, IdsFollowCalls, TableFollowsCalls, Registered
<1>5. ChannelsFilledForKey'
  BY DEF IInv, ChannelsFilledForKey, Shared, Uses
<1>6. BlankIdsStayPending'
  BY DEF IInv, BlankIdsStayPending
<1>7. CarefulCallsAlternate'
  BY DEF IInv, TypeOK, IdsFollowCalls, IdsComeFromStructs,
     CarefulCallsAlternate, FollowsOthers, ComesFrom, Registered, HasOwnAnswer
<1>8. PanicTakesTwo'
  BY DEF PanicTakesTwo
<1>9. BlockedForAReason'
  BY DEF BlockedForAReason
<1>10. BlankIdStopsRouter'
  BY DEF IInv, BlankIdStopsRouter
<1>11. CarefulReuseIsHarmless'
  BY DEF IInv, CarefulReuseIsHarmless
<1> QED BY <1>1, <1>2, <1>3, <1>4, <1>5, <1>6, <1>7, <1>8, <1>9, <1>10, <1>11
           DEF IInv

\* The struct still bears the id that the key was read from, unless somebody
\* without Properties has filled it since (transport.go:406-412).
LEMMA ReadIdKeeps ==
  ASSUME IInv, NEW c \in Calls, ReadId(c)
  PROVE  IInv'
<1> USE DEF ReadId, Goto, Alive, IdToSend, IdFound, tableVars, channelVars,
            brokerVars
<1>1. TypeOK'
  BY DEF IInv, TypeOK, Ids, Steps
<1>2. IdsFollowCalls'
  BY DEF IInv, TypeOK, IdsFollowCalls, IdsComeFromStructs
<1>3. IdsComeFromStructs'
  BY DEF IInv, TypeOK, IdsComeFromStructs, ComesFrom
<1>4. TableFollowsCalls'
  BY DEF IInv, TableFollowsCalls, Registered
<1>5. ChannelsFilledForKey'
  BY DEF IInv, IdsFollowCalls, ChannelsFilledForKey, Shared, Uses
<1>6. BlankIdsStayPending'
  BY DEF IInv, IdsComeFromStructs, BlankIdsStayPending
<1>7. CarefulCallsAlternate'
  BY DEF IInv, CarefulCallsAlternate, FollowsOthers, Registered, HasOwnAnswer
<1>8. PanicTakesTwo'
  BY DEF PanicTakesTwo
<1>9. BlockedForAReason'
  BY DEF IInv, IdsFollowCalls, BlockedForAReason, Uses, OwnId
<1>10. BlankIdStopsRouter'
  BY DEF IInv, BlankIdStopsRouter
<1>11. CarefulReuseIsHarmless'
  BY DEF IInv, CarefulReuseIsHarmless
<1> QED BY <1>1, <1>2, <1>3, <1>4, <1>5, <1>6, <1>7, <1>8, <1>9, <1>10, <1>11
           DEF IInv

\* An id becomes pending before its request is sent (transport.go:417-419).
LEMMA MarkPendingKeeps ==
  ASSUME IInv, NEW c \in Calls, MarkPending(c)
  PROVE  IInv'
<1> USE DEF MarkPending, Goto, LockFree, channelVars, brokerVars, idVars
<1>1. TypeOK'
  BY DEF IInv, TypeOK, IdsFollowCalls, Steps
<1>2. IdsFollowCalls'
  BY DEF IInv, IdsFollowCalls
<1>3. IdsComeFromStructs'
  BY DEF IInv, IdsComeFromStructs, ComesFrom
<1>4. TableFollowsCalls'
  BY DEF IInv, TableFollowsCalls, Registered
<1>5. ChannelsFilledForKey'
  BY DEF IInv, IdsFollowCalls, ChannelsFilledForKey, Shared, Uses
<1>6. BlankIdsStayPending'
  BY DEF IInv, IdsFollowCalls, BlankIdsStayPending
<1>7. CarefulCallsAlternate'
  BY DEF IInv, CarefulCallsAlternate, FollowsOthers, Registered, HasOwnAnswer
<1>8. PanicTakesTwo'
  BY DEF PanicTakesTwo
<1>9. BlockedForAReason'
  BY DEF BlockedForAReason
<1>10. BlankIdStopsRouter'
  BY DEF IInv, BlankIdStopsRouter
<1>11. CarefulReuseIsHarmless'
  BY DEF IInv, CarefulReuseIsHarmless
<1> QED BY <1>1, <1>2, <1>3, <1>4, <1>5, <1>6, <1>7, <1>8, <1>9, <1>10, <1>11
           DEF IInv

\* The request is with the broker (transport.go:421-432).
LEMMA SendRequestKeeps ==
  ASSUME IInv, NEW c \in Calls, SendRequest(c)
  PROVE  IInv'
<1> USE DEF SendRequest, Goto, Alive, tableVars, channelVars, idVars
<1>1. TypeOK'
  BY DEF IInv, TypeOK, Steps
<1>2. IdsFollowCalls'
  BY DEF IInv, TypeOK, IdsFollowCalls
<1>3. IdsComeFromStructs'
  BY DEF IInv, IdsComeFromStructs, ComesFrom
<1>4. TableFollowsCalls'
  BY DEF IInv, TableFollowsCalls, Registered
<1>5. ChannelsFilledForKey'
  BY DEF IInv, ChannelsFilledForKey, Shared, Uses
<1>6. BlankIdsStayPending'
  BY DEF IInv, BlankIdsStayPending
<1>7. CarefulCallsAlternate'
  BY DEF IInv, CarefulCallsAlternate, FollowsOthers, Registered, HasOwnAnswer
<1>8. PanicTakesTwo'
  BY DEF PanicTakesTwo
<1>9. BlockedForAReason'
  BY DEF IInv, BlockedForAReason, Uses, OwnId
<1>10. BlankIdStopsRouter'
  BY DEF IInv, BlankIdStopsRouter
<1>11. CarefulReuseIsHarmless'
  BY DEF IInv, CarefulReuseIsHarmless
<1> QED BY <1>1, <1>2, <1>3, <1>4, <1>5, <1>6, <1>7, <1>8, <1>9, <1>10, <1>11
           DEF IInv

\* A call that gives up returns an error (transport.go:229-237).
LEMMA GiveUpKeeps ==
  ASSUME IInv, NEW c \in Calls, GiveUp(c)
  PROVE  IInv'
<1> USE DEF GiveUp, Goto, Alive, tableVars, channelVars, idVars
<1>1. TypeOK'
  BY DEF IInv, TypeOK, Steps
<1>2. IdsFollowCalls'
  BY DEF IInv, TypeOK, IdsFollowCalls
<1>3. IdsComeFromStructs'
  BY DEF IInv, IdsComeFromStructs, ComesFrom
<1>4. TableFollowsCalls'
  BY DEF IInv, TableFollowsCalls, Registered
<1>5. ChannelsFilledForKey'
  BY DEF IInv, ChannelsFilledForKey, Shared, Uses
<1>6. BlankIdsStayPending'
  BY DEF IInv, BlankIdsStayPending
<1>7. CarefulCallsAlternate'
  BY DEF IInv, CarefulCallsAlternate, FollowsOthers, Registered, HasOwnAnswer
<1>8. PanicTakesTwo'
  BY DEF PanicTakesTwo
<1>9. BlockedForAReason'
  BY DEF IInv, BlockedForAReason, Uses, OwnId
<1>10. BlankIdStopsRouter'
  BY DEF IInv, BlankIdStopsRouter
<1>11. CarefulReuseIsHarmless'
  BY DEF IInv, CarefulReuseIsHarmless
<1> QED BY <1>1, <1>2, <1>3, <1>4, <1>5, <1>6, <1>7, <1>8, <1>9, <1>10, <1>11
           DEF IInv

\* What a call receives was sent for its key (transport.go:238-241).
LEMMA ReceiveKeeps ==
  ASSUME IInv, NEW c \in Calls, Receive(c)
  PROVE  IInv'
<1> USE DEF Receive, Goto, Alive, tableVars, brokerVars, idVars
<1>1. TypeOK'
  BY DEF IInv, TypeOK, Steps
<1>2. IdsFollowCalls'
  BY DEF IInv, TypeOK, IdsFollowCalls
<1>3. IdsComeFromStructs'
  BY DEF IInv, IdsComeFromStructs, ComesFrom
<1>4. TableFollowsCalls'
  BY DEF IInv, TableFollowsCalls, Registered
<1>5. ChannelsFilledForKey'
  BY DEF IInv, ChannelsFilledForKey, Shared, Uses
<1>6. BlankIdsStayPending'
  BY DEF IInv, BlankIdsStayPending
<1>7. CarefulCallsAlternate'
  BY DEF IInv, CarefulCallsAlternate, FollowsOthers, Registered, HasOwnAnswer
<1>8. PanicTakesTwo'
  BY DEF PanicTakesTwo
<1>9. BlockedForAReason'
  BY DEF IInv, BlockedForAReason, Uses, OwnId
<1>10. BlankIdStopsRouter'
  BY DEF IInv, TypeOK, ChannelsFilledForKey, BlankIdStopsRouter
<1>11. CarefulReuseIsHarmless'
  BY DEF IInv, IdsFollowCalls, CarefulCallsAlternate, FollowsOthers,
     CarefulReuseIsHarmless
<1> QED BY <1>1, <1>2, <1>3, <1>4, <1>5, <1>6, <1>7, <1>8, <1>9, <1>10, <1>11
           DEF IInv

\* Cleanup takes away the channel under the call's key: its own, unless the
\* key is shared (transport.go:221-226).
LEMMA CleanupKeeps ==
  ASSUME IInv, NEW c \in Calls, Cleanup(c)
  PROVE  IInv'
<1> USE DEF Cleanup, Goto, LockFree, channelVars, brokerVars, idVars
<1>1. TypeOK'
  BY DEF IInv, TypeOK, Steps
<1>2. IdsFollowCalls'
  BY DEF IInv, IdsFollowCalls
<1>3. IdsComeFromStructs'
  BY DEF IInv, IdsComeFromStructs, ComesFrom
<1>4. TableFollowsCalls'
  BY DEF IInv, TypeOK, TableFollowsCalls, Registered
<1>5. ChannelsFilledForKey'
  BY DEF IInv, ChannelsFilledForKey, Shared, Uses
<1>6. BlankIdsStayPending'
  BY DEF IInv, BlankIdsStayPending
<1>7. CarefulCallsAlternate'
  BY DEF IInv, TypeOK, CarefulCallsAlternate, FollowsOthers, Registered,
     HasOwnAnswer
<1>8. PanicTakesTwo'
  BY DEF PanicTakesTwo
<1>9. BlockedForAReason'
  BY DEF BlockedForAReason
<1>10. BlankIdStopsRouter'
  BY DEF IInv, BlankIdStopsRouter
<1>11. CarefulReuseIsHarmless'
  BY DEF IInv, CarefulReuseIsHarmless
<1> QED BY <1>1, <1>2, <1>3, <1>4, <1>5, <1>6, <1>7, <1>8, <1>9, <1>10, <1>11
           DEF IInv

\* As long as structs are reused with care, an expected answer finds the
\* channel of its own call, open; or none, and then that call has given up
\* (transport.go:459-472 against 221-226).
LEMMA TheirOwnChannel ==
  ASSUME IInv, NEW c \in Calls, HandleIncomingPublish(c), careful', Expected(c)
  PROVE  /\ requestResponseChan[responseID[c]] \in {c, None}
         /\ requestResponseChan[responseID[c]] = c => c \notin closed
         /\ requestResponseChan[responseID[c]] = None => got[c] = "error"
<1> DEFINE d == requestResponseChan[responseID[c]]
<1>1. /\ c \in requested /\ answers[c] \in Nat
      /\ careful /\ (struct[c] # None => answers[c] = 0)
      /\ responseID[c] \in pendingRequests
  <2>1. /\ c \in requested
        /\ careful' = (careful /\ (struct[c] # None => answers[c] = 0))
    BY DEF HandleIncomingPublish
  <2>2. answers[c] \in Nat /\ responseID[c] \in pendingRequests
    BY DEF IInv, TypeOK, Expected
  <2> QED BY <2>1, <2>2
<1>2. /\ pc[c] \in {"wait", "cleanup", "returned"} /\ corID[c] # None
      /\ responseID[c] # None /\ responseID[c] \in Ids
  BY <1>1 DEF IInv, TypeOK, IdsFollowCalls, Ids
<1>3. corID[c] = responseID[c]
  BY <1>1, <1>2
     DEF IInv, CarefulCallsAlternate, FollowsOthers, IdsComeFromStructs
<1>4. c \notin closed
  BY <1>1, <1>2, <1>3
     DEF IInv, TypeOK, IdsComeFromStructs, ChannelsFilledForKey,
         CarefulCallsAlternate, FollowsOthers, Shared, Uses, ComesFrom
<1>5. ASSUME d # None PROVE d = c
  <2>1. d \in Calls /\ corID[d] = responseID[c] /\ pc[d] \in Registered
    BY <1>2, <1>5 DEF IInv, TypeOK, TableFollowsCalls
  <2> HIDE DEF d
  <2>2. CASE d # c
    <3>1. struct[d] = struct[c] /\ struct[c] # None
      BY <1>1, <1>2, <1>3, <2>1, <2>2
         DEF IInv, TypeOK, IdsComeFromStructs, ComesFrom
    <3>2. HasOwnAnswer(c)
      BY <1>1, <2>1, <2>2, <3>1
         DEF IInv, CarefulCallsAlternate, FollowsOthers, HasOwnAnswer,
             Registered
    <3>3. answers[c] > 0
      BY <3>2 DEF IInv, ChannelsFilledForKey, HasOwnAnswer
    <3> QED BY <1>1, <3>1, <3>3
  <2> QED BY <2>2
<1>6. ASSUME d = None PROVE got[c] = "error"
  <2>1. pc[c] # "wait"
    BY <1>1, <1>2, <1>3, <1>6
       DEF IInv, CarefulCallsAlternate, FollowsOthers, Registered
  <2>2. got[c] # c
    BY <1>1, <1>2, <1>3
       DEF IInv, TypeOK, IdsComeFromStructs, ChannelsFilledForKey, Shared,
           Uses, ComesFrom
  <2> QED BY <1>1, <1>2, <2>1, <2>2
             DEF IInv, CarefulReuseIsHarmless, IdsFollowCalls
<1> QED BY <1>4, <1>5, <1>6

\* An answer goes to the channel that is registered under its id, if its id is
\* pending (transport.go:459-472).
LEMMA HandleIncomingPublishKeeps ==
  ASSUME IInv, NEW c \in Calls, HandleIncomingPublish(c)
  PROVE  IInv'
<1> USE DEF HandleIncomingPublish, LockFree, Deliver, Stop, idVars, channelVars
<1>0. careful' /\ Expected(c) =>
        /\ requestResponseChan[responseID[c]] \in {c, None}
        /\ requestResponseChan[responseID[c]] = c => c \notin closed
        /\ requestResponseChan[responseID[c]] = None => got[c] = "error"
  BY TheirOwnChannel
<1>1. TypeOK'
  BY DEF IInv, TypeOK, IdsFollowCalls, Ids
<1>2. IdsFollowCalls'
  BY DEF IInv, IdsFollowCalls
<1>3. IdsComeFromStructs'
  BY DEF IInv, IdsComeFromStructs, ComesFrom
<1>4. TableFollowsCalls'
  BY DEF IInv, TableFollowsCalls
<1>5. ChannelsFilledForKey'
  BY DEF IInv, TypeOK, IdsFollowCalls, TableFollowsCalls, ChannelsFilledForKey,
     Shared, Uses, Ids, Steps
<1>6. BlankIdsStayPending'
  BY DEF IInv, TypeOK, IdsComeFromStructs, TableFollowsCalls,
     BlankIdsStayPending, ComesFrom, Ids
<1>7. CarefulCallsAlternate'
  <2> SUFFICES ASSUME careful', NEW e \in Calls
               PROVE  FollowsOthers(e)'
    BY DEF CarefulCallsAlternate
  <2>1. waitCh'[e] \in {e, None} /\ (e \in closed' => answers'[e] > 0)
    BY <1>0 DEF IInv, TypeOK, CarefulCallsAlternate, FollowsOthers
  <2> QED BY <2>1
             DEF IInv, TypeOK, CarefulCallsAlternate, FollowsOthers,
                 HasOwnAnswer
<1>8. PanicTakesTwo'
  BY DEF IInv, TypeOK, TableFollowsCalls, ChannelsFilledForKey, PanicTakesTwo,
     Shared, Uses, Ids, Expected
<1>9. BlockedForAReason'
  BY DEF IInv, TypeOK, IdsFollowCalls, TableFollowsCalls, ChannelsFilledForKey,
     BlockedForAReason, Shared, Uses, OwnId, Registered, Expected
<1>10. BlankIdStopsRouter'
  BY DEF IInv, TypeOK, IdsFollowCalls, IdsComeFromStructs, TableFollowsCalls,
     BlankIdsStayPending, BlankIdStopsRouter, ComesFrom, Ids, Expected
<1>11. CarefulReuseIsHarmless'
  <2>1. careful' => router' # "panicked"
    BY <1>0
  <2>2. careful' /\ router' = "blocked" =>
          \E e \in Calls : got'[e] = "error" /\ answers'[e] > 0
    BY <1>0 DEF IInv, TypeOK
  <2> QED BY <2>1, <2>2 DEF IInv, TypeOK, CarefulReuseIsHarmless
<1> QED BY <1>1, <1>2, <1>3, <1>4, <1>5, <1>6, <1>7, <1>8, <1>9, <1>10, <1>11
           DEF IInv

\* Every step keeps the invariant.
LEMMA StepIInv == IInv /\ [Next]_vars => IInv'
<1> SUFFICES ASSUME IInv, [Next]_vars PROVE IInv'
  OBVIOUS
<1>1. CASE Next
  BY <1>1, CallKeeps, FillPropertiesKeeps, ReadKeyKeeps, RegisterKeeps,
     ReadIdKeeps, MarkPendingKeeps, SendRequestKeeps, GiveUpKeeps,
     ReceiveKeeps, CleanupKeeps, HandleIncomingPublishKeeps
     DEF Next
<1>2. CASE UNCHANGED vars
  BY <1>2
     DEF vars, IInv, TypeOK, IdsFollowCalls, IdsComeFromStructs,
         TableFollowsCalls, ChannelsFilledForKey, BlankIdsStayPending,
         CarefulCallsAlternate, FollowsOthers, PanicTakesTwo,
         BlockedForAReason, BlankIdStopsRouter, CarefulReuseIsHarmless, Shared,
         Uses, OwnId, ComesFrom, HasOwnAnswer
<1> QED BY <1>1, <1>2

\* The invariant holds of every reachable state of the transport.
THEOREM Invariance == Spec => []IInv
BY InitIInv, StepIInv, PTL DEF Spec

-----------------------------------------------------------------------------
(* The results.                                                            *)

\* Every variable keeps its type (transport.go:204-241 and 459-472).
THEOREM TypeCorrect == Spec => []TypeOK
<1>1. IInv => TypeOK
  BY DEF IInv
<1> QED BY <1>1, Invariance, PTL

\* However many calls share a struct, what a call gets was sent with the id of
\* its channel (transport.go:214-241 and 459-472).
THEOREM AnswersBearKeys == Spec => []AnswerBearsKey
<1>1. IInv => AnswerBearsKey
  BY DEF IInv, ChannelsFilledForKey, AnswerBearsKey
<1> QED BY <1>1, Invariance, PTL

\* The receiving goroutine panics only after two calls have used one id
\* (transport.go:465).
THEOREM PanicsTakeTwo == Spec => []PanicTakesTwo
<1>1. IInv => PanicTakesTwo
  BY DEF IInv
<1> QED BY <1>1, Invariance, PTL

\* It blocks only on the answer to a call that gave up, or mixed up its ids, or
\* shares one (transport.go:214, 408-410, 465).
THEOREM BlocksForAReason == Spec => []BlockedForAReason
<1>1. IInv => BlockedForAReason
  BY DEF IInv
<1> QED BY <1>1, Invariance, PTL

\* A blank id brings no answer, and the first one stops the router
\* (transport.go:214 against 410).
THEOREM BlankIdsStopRouter == Spec => []BlankIdStopsRouter
<1>1. IInv => BlankIdStopsRouter
  BY DEF IInv
<1> QED BY <1>1, Invariance, PTL

\* A struct that is reused with care, by however many calls one after another,
\* brings each its own answer and no panic (transport.go:204-218 and 221-224).
THEOREM CarefulReuse == Spec => []CarefulReuseIsHarmless
<1>1. IInv => CarefulReuseIsHarmless
  BY DEF IInv
<1> QED BY <1>1, Invariance, PTL
=============================================================================
