------------------------------- MODULE Topics -------------------------------
(***************************************************************************)
(* Topics and the packets that publish makes of them                       *)
(* (lib/transport/transport.go: BuildTopic, GetTopicType, publish).  A     *)
(* topic is the sequence of its segments, what strings.Split gives for     *)
(* TOPIC_SEPERATOR.                                                        *)
(*                                                                         *)
(* The system of this module is one exchange: a client publishes a request *)
(* with some properties, and the responder publishes an answer on the      *)
(* packet's ResponseTopic without properties, as api/users/main.go:112     *)
(* does.  RequestPacket and AnswerPacket of Transport.tla are its outcome. *)
(***************************************************************************)
EXTENDS Integers, Sequences, SequencesExt

CONSTANTS
  Domains,             \* segments a domain can consist of
  EndsInRequest,       \* those whose text ends in "request"
  Ids,                 \* correlation ids: what a caller passes, and UUIDs
  MaxDomains           \* bound on the domains of one topic

Blank == ""            \* no domains, or no id

\* An id is no type of a topic; the other three are names of Shapes.
ASSUME IdsAssumption ==
  Ids \cap {Blank, "event", "request", "nil", "noProperties", "noCorrelation"} = {}
ASSUME MaxDomainsAssumption == MaxDomains \in Nat

VARIABLES
  type, domains,       \* what the topic was built from
  props,               \* the properties publish is called with
  request,             \* the packet it publishes
  returned,            \* the id it returns
  answer               \* the packet of the answer

vars == <<type, domains, props, request, returned, answer>>

-----------------------------------------------------------------------------
(* BuildTopic and GetTopicType.                                            *)

\* strings.Join: no domains still give one segment, the empty one.
Joined(list) == IF list = <<>> THEN <<Blank>> ELSE list

BuildTopic(kind, list) == <<"v1">> \o Joined(list) \o <<kind>>

NoType == [type |-> "none", domains |-> <<>>]

\* Mutants of GetTopicType: the last domain is lost, or the type may stand
\* anywhere.
LastDomainLost(t) ==
  IF Len(t) >= 3 /\ Last(t) \in {"event", "request"}
  THEN [type |-> Last(t), domains |-> SubSeq(t, 2, Len(t) - 2)]
  ELSE NoType
TypeAnywhere(t) ==
  CASE "request" \in {t[i] : i \in 2..Len(t)} ->
         [type |-> "request", domains |-> SubSeq(t, 2, Len(t) - 1)]
    [] Last(t) = "event" -> [type |-> "event", domains |-> SubSeq(t, 2, Len(t) - 1)]
    [] OTHER -> NoType

GetTopicType(t) ==
  IF Len(t) >= 3 /\ Last(t) \in {"event", "request"}
  THEN [type |-> Last(t), domains |-> SubSeq(t, 2, Len(t) - 1)]
  ELSE NoType

IsRequest(t) == GetTopicType(t).type = "request"

\* strings.Contains(topic, "request/"): a segment that is not the last ends
\* in "request".
HasRequestPrefix(t) ==
  \E i \in 1..(Len(t) - 1) : t[i] \in EndsInRequest \cup {"request"}

-----------------------------------------------------------------------------
(* publish.                                                                *)

\* The PublishRequest handed to publish: nil, without Properties, with
\* Properties and no CorrelationData, or with an id in them.
Shapes == {"nil", "noProperties", "noCorrelation"} \cup Ids

HasProperties(p) == p \notin {"nil", "noProperties"}

None == <<"none">>     \* a topic-valued field that is not set

\* The id of a request, Blank without properties; NewUUID may give any id.
ResponseIds(p) ==
  CASE p \in Ids           -> {p}
    [] p = "noCorrelation" -> Ids
    [] OTHER               -> {Blank}

\* Mutant of RequestPacketOf: the request bears "from" as its answer does.
RequestLikeAnswer(t, p, id) ==
  [topic |-> t, replyTo |-> Append(t, id), corr |-> id, from |-> Append(t, id)]

\* The packet of a request: publish takes the caller's user properties, which
\* drops "from".
RequestPacketOf(t, p, id) ==
  [topic |-> t, replyTo |-> Append(t, id), corr |-> id,
   from |-> IF HasRequestPrefix(t) /\ ~HasProperties(p) THEN t ELSE None]

\* Mutant of PlainPacketOf: the id is taken from the wrong place.
IdBeforeLast(t, p) ==
  IF HasRequestPrefix(t)
  THEN [topic |-> t, replyTo |-> t, corr |-> t[Len(t) - 1],
        from |-> IF HasProperties(p) THEN None ELSE t]
  ELSE [topic |-> t, replyTo |-> None, corr |-> Blank, from |-> None]

\* The packet of anything else.  What follows "request/" is taken for the id.
PlainPacketOf(t, p) ==
  IF HasRequestPrefix(t)
  THEN [topic |-> t, replyTo |-> t, corr |-> Last(t),
        from |-> IF HasProperties(p) THEN None ELSE t]
  ELSE [topic |-> t, replyTo |-> None, corr |-> Blank, from |-> None]

\* What the client subscribes to before it publishes a request.
SubscribedFor(t, id) == Append(t, id)

\* The condition of handleIncomingPublish for a packet and the pending ids.
Completes(p, pending) ==
  /\ p.corr # Blank
  /\ p.corr \in pending
  /\ p.replyTo # None
  /\ p.replyTo = p.from

-----------------------------------------------------------------------------
(* One exchange.                                                           *)

Nothing == [topic |-> None, replyTo |-> None, corr |-> Blank, from |-> None]

DomainLists == UNION {[1..n -> Domains] : n \in 0..MaxDomains}

TypeOK ==
  /\ type \in {"event", "request"}
  /\ domains \in DomainLists
  /\ props \in Shapes
  /\ returned \in Ids \cup {Blank}
  /\ {request.corr, answer.corr} \subseteq Ids \cup {Blank, "event"}

Init ==
  /\ type \in {"event", "request"}
  /\ domains \in DomainLists
  /\ props \in Shapes
  /\ request = Nothing
  /\ returned = Blank
  /\ answer = Nothing

topic == BuildTopic(type, domains)

Publish(packet, id) ==
  /\ request = Nothing
  /\ request' = packet
  /\ returned' = id
  /\ UNCHANGED <<type, domains, props, answer>>

PublishRequest(id) ==
  /\ IsRequest(topic)
  /\ id \in ResponseIds(props)
  /\ Publish(RequestPacketOf(topic, props, id), id)

PublishOther ==
  /\ ~IsRequest(topic)
  /\ Publish(PlainPacketOf(topic, props), Blank)

\* The handler of the users service publishes on ResponseTopic, without
\* properties.
PublishAnswer ==
  /\ IsRequest(request.topic)
  /\ answer = Nothing
  /\ answer' = IF IsRequest(request.replyTo)
               THEN RequestPacketOf(request.replyTo, "nil", Blank)
               ELSE PlainPacketOf(request.replyTo, "nil")
  /\ UNCHANGED <<type, domains, props, request, returned>>

Next ==
  \/ \E id \in Ids \cup {Blank} : PublishRequest(id)
  \/ PublishOther
  \/ PublishAnswer

Spec == Init /\ [][Next]_vars

-----------------------------------------------------------------------------
(* What must hold.                                                         *)

\* A topic is taken apart into what it was built from
\* (transport.go:142-148 against 150-173).
BuiltTopicsParse ==
  domains # <<>> => GetTopicType(topic) = [type |-> type, domains |-> domains]

\* The answer to a request that bears an id arrives on the topic the client
\* has subscribed to and passes the test of handleIncomingPublish: publish and
\* that test agree, across two processes (transport.go:386-392 and 413-415
\* against 458-464).
AnswerCompletesRequest ==
  answer # Nothing /\ returned # Blank =>
    /\ answer.topic = SubscribedFor(topic, returned)
    /\ Completes(answer, {returned})

\* Nothing but an answer passes that test: not the request, which comes back
\* to a client that is subscribed to the request topic, nor an event, whatever
\* domains its topic has (transport.go:386-403 against 464).
OnlyAnswersComplete == ~Completes(request, Ids)

\* The test of handleIncomingPublish tells answers from everything else
\* (transport.go:372-416 against 458-464).
AnswersAloneComplete == AnswerCompletesRequest /\ OnlyAnswersComplete

\* Answering is not asking: the responder's publish waits for no response of
\* its own (transport.go:404).
AnswerIsNoRequest == answer # Nothing => ~IsRequest(answer.topic)

\* Publish "Returns the correlation ID if it's a request, otherwise an empty
\* string." (types.go:25)
ReturnsCorrelationId ==
  request # Nothing => (returned # Blank <=> IsRequest(topic))

-----------------------------------------------------------------------------
(* The inductive invariant.                                                *)

\* What has been published is what publish makes of the topic.
RequestIsPublished ==
  IF request = Nothing THEN returned = Blank /\ answer = Nothing
  ELSE \/ /\ IsRequest(topic)
          /\ returned \in ResponseIds(props)
          /\ request = RequestPacketOf(topic, props, returned)
       \/ /\ ~IsRequest(topic)
          /\ returned = Blank
          /\ request = PlainPacketOf(topic, props)

\* Only a request is answered, and its ResponseTopic is no request's topic.
AnswerIsPublished ==
  answer # Nothing =>
    /\ IsRequest(topic)
    /\ answer = PlainPacketOf(request.replyTo, "nil")

IInv == TypeOK /\ RequestIsPublished /\ AnswerIsPublished
=============================================================================
