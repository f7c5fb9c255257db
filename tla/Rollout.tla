------------------------------ MODULE Rollout ------------------------------
(***************************************************************************)
(* The pods of one Deployment as it is rolled out, crashes and is deleted: *)
(* what main() of the gateway (app-gateway/app.go) and of the users        *)
(* service (api/users/main.go) do from start to exit, and what the broker  *)
(* makes of it.  Every pod connects with the same client id (the service's *)
(* name), a clean session and a retained last will, so that a new pod      *)
(* takes the session from the old one; nothing ever reconnects.  main()    *)
(* looks at the error of no Publish, Subscribe, Unsubscribe or Close.      *)
(***************************************************************************)
EXTENDS Integers

CONSTANTS
  Pods,                \* runs of the container; one that is over stays over
  NoPod,
  Topics,              \* what a pod subscribes to: requests and events
  MaxInFlight          \* bound: requests one pod handles at a time

ASSUME NoPodAssumption == NoPod \notin Pods
ASSUME MaxInFlightAssumption == MaxInFlight \in Nat

VARIABLES
  phase,               \* how far main() of each pod is
  listening,           \* the pods whose HTTP server accepts connections
  inFlight,            \* the HTTP requests each pod is handling
  blocked,             \* the pods whose receiving goroutine is stuck for good
  owner,               \* the pod the broker's session belongs to
  newest,              \* the pod that connected last
  subscriptions,       \* the topics the session is subscribed to
  status,              \* the retained message on v1/<service>/status
  keepsWill            \* whether the broker keeps the will of a clean session

\* What the broker has done for each pod, kept for the properties only.
VARIABLES
  granted,             \* the topics it has granted and not taken back
  heard,               \* the pods whose announcement it has retained
  released             \* the pods whose DISCONNECT it has received

podVars == <<phase, listening, inFlight, blocked>>
brokerVars == <<owner, newest, subscriptions, status, keepsWill>>
historyVars == <<granted, heard, released>>
vars == <<podVars, brokerVars, historyVars>>

Phases == {"none", "dialing", "connected", "announced", "running",
           "signalled", "shutdown", "unsubscribed", "closing", "exited",
           "crashed"}

TypeOK ==
  /\ phase \in [Pods -> Phases]
  /\ listening \subseteq Pods
  /\ inFlight \in [Pods -> 0..MaxInFlight]
  /\ blocked \subseteq Pods
  /\ owner \in Pods \cup {NoPod}
  /\ newest \in Pods \cup {NoPod}
  /\ subscriptions \subseteq Topics
  /\ status \in {"absent", "online", "offline"}
  /\ keepsWill \in BOOLEAN
  /\ granted \in [Pods -> SUBSET Topics]
  /\ heard \subseteq Pods
  /\ released \subseteq Pods

Init ==
  /\ phase = [p \in Pods |-> "none"]
  /\ listening = {}
  /\ inFlight = [p \in Pods |-> 0]
  /\ blocked = {}
  /\ owner = NoPod
  /\ newest = NoPod
  /\ subscriptions = {}
  /\ status = "absent"
  /\ keepsWill \in BOOLEAN
  /\ granted = [p \in Pods |-> {}]
  /\ heard = {}
  /\ released = {}

Alive(p) == phase[p] \notin {"none", "exited", "crashed"}

Goto(p, there) == phase' = [phase EXCEPT ![p] = there]

\* Mutant of WillPublished: Connect has registered no will.
NoWill == status

\* The retained message once the broker has lost the session's owner.
WillPublished == IF keepsWill THEN "offline" ELSE status

-----------------------------------------------------------------------------
(* Coming up.                                                              *)

\* Redis is asked, but its client is returned whether it answered or not.
Create(p) ==
  /\ phase[p] = "none"
  /\ Goto(p, "dialing")
  /\ UNCHANGED <<listening, inFlight, blocked, brokerVars, historyVars>>

\* The broker closes the connection of the session's owner, publishes its
\* will, and starts a clean session.
Connect(p) ==
  /\ phase[p] = "dialing"
  /\ owner' = p
  /\ newest' = p
  /\ subscriptions' = {}
  /\ status' = IF owner = NoPod THEN status ELSE WillPublished
  /\ Goto(p, "connected")
  /\ UNCHANGED <<listening, inFlight, blocked, keepsWill, historyVars>>

\* main() panics when it cannot reach the broker (or, for users, Mongo).
ConnectFails(p) ==
  /\ phase[p] = "dialing"
  /\ Goto(p, "crashed")
  /\ UNCHANGED <<listening, inFlight, blocked, brokerVars, historyVars>>

\* Mutant of Announce: the message is not retained.
AnnounceUnretained(p) ==
  /\ phase[p] = "connected"
  /\ heard' = IF owner = p THEN heard \cup {p} ELSE heard
  /\ Goto(p, "announced")
  /\ UNCHANGED <<listening, inFlight, blocked, brokerVars, granted, released>>

\* What Connect publishes last.  It may fail with the connection alive, and
\* main() goes on all the same.
Announce(p) ==
  /\ phase[p] = "connected"
  /\ \/ /\ owner = p
        /\ status' = "online"
        /\ heard' = heard \cup {p}
     \/ UNCHANGED <<status, heard>>
  /\ Goto(p, "announced")
  /\ UNCHANGED <<listening, inFlight, blocked, owner, newest, subscriptions,
                 keepsWill, granted, released>>

\* Subscribe and SubscribeMultiple: each topic may be refused, or its packet
\* lost, without anybody being told.  Start then waits for the signal.
SubscribeTopics(p) ==
  /\ phase[p] = "announced"
  /\ \E topics \in SUBSET Topics :
       IF owner = p
         THEN /\ subscriptions' = subscriptions \cup topics
              /\ granted' = [granted EXCEPT ![p] = @ \cup topics]
         ELSE UNCHANGED <<subscriptions, granted>>
  /\ Goto(p, "running")
  /\ UNCHANGED <<listening, inFlight, blocked, owner, newest, status,
                 keepsWill, heard, released>>

\* The goroutine of ListenAndServe, which need not get as far: main() is not
\* told when the port cannot be had, and waits for its signal all the same.
Listen(p) ==
  /\ phase[p] \in {"running", "signalled"}
  /\ p \notin listening
  /\ listening' = listening \cup {p}
  /\ UNCHANGED <<phase, inFlight, blocked, brokerVars, historyVars>>

-----------------------------------------------------------------------------
(* Going down.                                                             *)

Signal(p) ==
  /\ phase[p] = "running"
  /\ Goto(p, "signalled")
  /\ UNCHANGED <<listening, inFlight, blocked, brokerVars, historyVars>>

\* Mutant of Shutdown: it waits for the requests in flight.
ShutdownWaits(p) ==
  /\ phase[p] = "signalled"
  /\ inFlight[p] = 0
  /\ listening' = listening \ {p}
  /\ Goto(p, "shutdown")
  /\ UNCHANGED <<inFlight, blocked, brokerVars, historyVars>>

\* The context given to Shutdown derives from the one the signal has
\* cancelled: it closes the listener and does not wait for the requests in
\* flight.
Shutdown(p) ==
  /\ phase[p] = "signalled"
  /\ listening' = listening \ {p}
  /\ Goto(p, "shutdown")
  /\ UNCHANGED <<inFlight, blocked, brokerVars, historyVars>>

\* Mutant of UnsubscribeTopics: the topics are dropped for the session that
\* has come after this pod's as well.
UnsubscribeAnyone(p) ==
  /\ phase[p] = "shutdown"
  /\ \E topics \in SUBSET Topics :
       /\ subscriptions' = subscriptions \ topics
       /\ granted' = [granted EXCEPT ![p] = @ \ topics]
  /\ Goto(p, "unsubscribed")
  /\ UNCHANGED <<listening, inFlight, blocked, owner, newest, status,
                 keepsWill, heard, released>>

\* The deferred function.  Unsubscribe goes through the pod's own connection,
\* which the broker may have closed long ago; any topic may be refused.
UnsubscribeTopics(p) ==
  /\ phase[p] = "shutdown"
  /\ \E topics \in SUBSET Topics :
       IF owner = p
         THEN /\ subscriptions' = subscriptions \ topics
              /\ granted' = [granted EXCEPT ![p] = @ \ topics]
         ELSE UNCHANGED <<subscriptions, granted>>
  /\ Goto(p, "unsubscribed")
  /\ UNCHANGED <<listening, inFlight, blocked, owner, newest, status,
                 keepsWill, heard, released>>

\* Close sends an orderly DISCONNECT, on which the broker discards the will.
\* The packet may be lost with the connection.
Disconnect(p) ==
  /\ phase[p] = "unsubscribed"
  /\ \/ /\ owner = p
        /\ owner' = NoPod
        /\ released' = released \cup {p}
     \/ UNCHANGED <<owner, released>>
  /\ Goto(p, "closing")
  /\ UNCHANGED <<listening, inFlight, blocked, newest, subscriptions, status,
                 keepsWill, granted, heard>>

\* paho's Disconnect then waits for its goroutines, the receiving one among
\* them; after that main() returns, and the process ends.
Exit(p) ==
  /\ phase[p] = "closing"
  /\ p \notin blocked
  /\ inFlight' = [inFlight EXCEPT ![p] = 0]
  /\ Goto(p, "exited")
  /\ UNCHANGED <<listening, blocked, brokerVars, historyVars>>

-----------------------------------------------------------------------------
(* Requests, failures, time.                                               *)

Accept(p) ==
  /\ p \in listening
  /\ inFlight[p] < MaxInFlight
  /\ inFlight' = [inFlight EXCEPT ![p] = @ + 1]
  /\ UNCHANGED <<phase, listening, blocked, brokerVars, historyVars>>

\* A handler may as well never return: see BlockedForGood in Transport.
Finish(p) ==
  /\ inFlight[p] > 0
  /\ inFlight' = [inFlight EXCEPT ![p] = @ - 1]
  /\ UNCHANGED <<phase, listening, blocked, brokerVars, historyVars>>

\* The receiving goroutine sends on a nil channel, as in Transport's
\* BlockOnNilChannel; what it routes may have been received long before.
Block(p) ==
  /\ phase[p] \in {"running", "signalled", "shutdown", "unsubscribed",
                   "closing"}
  /\ p \notin blocked
  /\ blocked' = blocked \cup {p}
  /\ UNCHANGED <<phase, listening, inFlight, brokerVars, historyVars>>

\* The broker notices, by the closed socket or the keep-alive, that the
\* connection is gone, and publishes the will.  The pod, if it lives, only
\* logs it (onServerDisconnect, onError) and goes on without a broker.
LoseBroker(p) ==
  /\ owner = p
  /\ owner' = NoPod
  /\ status' = WillPublished
  /\ UNCHANGED <<podVars, newest, subscriptions, keepsWill, historyVars>>

\* The broker learns of it later, by LoseBroker.
Crash(p) ==
  /\ Alive(p)
  /\ Goto(p, "crashed")
  /\ listening' = listening \ {p}
  /\ inFlight' = [inFlight EXCEPT ![p] = 0]
  /\ blocked' = blocked \ {p}
  /\ UNCHANGED <<brokerVars, historyVars>>

\* The announcement carries MESSAGE_EXPIRY, and nobody repeats it; the will
\* does not expire.
ExpireStatus ==
  /\ status = "online"
  /\ status' = "absent"
  /\ UNCHANGED <<podVars, owner, newest, subscriptions, keepsWill, historyVars>>

\* What main() does of itself.
MainStep(p) ==
  \/ Connect(p) \/ ConnectFails(p) \/ Announce(p) \/ SubscribeTopics(p)
  \/ Shutdown(p) \/ UnsubscribeTopics(p) \/ Disconnect(p) \/ Exit(p)

PodStep(p) ==
  \/ Create(p) \/ MainStep(p) \/ Signal(p) \/ Listen(p) \/ Accept(p)
  \/ Finish(p) \/ Block(p) \/ LoseBroker(p) \/ Crash(p)

Next == ExpireStatus \/ \E p \in Pods : PodStep(p)

Spec == Init /\ [][Next]_vars

\* main() is scheduled and the calls it makes have timeouts of their own,
\* but for the wait in Exit, which ends only if nothing is blocked.  Nothing
\* obliges a request to end, or the broker to notice anything.
FairSpec == Spec /\ \A p \in Pods : WF_vars(MainStep(p))

-----------------------------------------------------------------------------
(* What must hold.                                                         *)

\* Of pods that overlap, the one that has the session keeps just the
\* subscriptions the broker has granted to it, whatever the others do on
\* their way out: their Unsubscribe comes too late to reach the broker, and
\* they leave nothing to their successor (transport.go:80-84 and 247-290,
\* app.go:151-163).
OwnerKeepsSubscriptions == owner # NoPod => subscriptions = granted[owner]

\* The status is not "offline" once the broker has the announcement of the
\* pod that has the session: the will of the pod it took the session from
\* does not come after it (transport.go:103-108 and 124-134).
StatusSurvivesTakeover == owner \in heard => status # "offline"

\* "online" with nobody there is what an orderly exit leaves, since Close
\* discards the will; it hides no crash and no lost connection from a broker
\* that keeps the will (transport.go:103-112 and 138-140).  The comment of
\* transport.go:91-99 doubts that it does with a clean session; of a broker
\* that does not, nothing is said.
OnlineHidesNoCrash ==
  keepsWill /\ status = "online" /\ owner = NoPod => newest \in released

\* A pod that has been told to stop gets to its exit though its handlers may
\* hang, unless it waits in Close for a receiving goroutine that is stuck
\* (app.go:151-163 and 231-243, api/users/main.go:133-151).
SignalledPodsExit ==
  \A p \in Pods :
    (phase[p] = "signalled") ~>
      \/ phase[p] \in {"exited", "crashed"}
      \/ phase[p] = "closing" /\ p \in blocked

\* "Is the app ready for traffic? (If no, stop sending users here)"
\* (k8s/app-gateway/app-gateway.deployment.yaml:66): a pod whose server
\* answers /ready has the broker its handlers need.
ReadyMeansConnected == \A p \in listening : owner = p

-----------------------------------------------------------------------------
(* The inductive invariant: the safety properties with what they rest on.  *)

AnnouncedByAPod == status = "online" => newest # NoPod

\* What the broker does for a pod it does after that pod has connected.
ConnectsFirst ==
  /\ owner # NoPod => owner = newest
  /\ \A p \in Pods :
       /\ phase[p] \in {"none", "dialing"} => owner # p
       /\ phase[p] \in {"none", "dialing", "connected"} =>
            p \notin heard /\ granted[p] = {}

IInv ==
  /\ TypeOK
  /\ AnnouncedByAPod
  /\ ConnectsFirst
  /\ OwnerKeepsSubscriptions
  /\ StatusSurvivesTakeover
  /\ OnlineHidesNoCrash
=============================================================================
