---------------------------- MODULE TopicsProofs -----------------------------
(***************************************************************************)
(* Proofs about Topics, for topics of any number of domains and any        *)
(* domains, "request" and "event" among them.                              *)
(***************************************************************************)
EXTENDS Topics, TLAPS, SequenceTheorems

Segments == Domains \cup Ids \cup {Blank, "v1", "event", "request"}

-----------------------------------------------------------------------------
(* Topics.                                                                 *)

LEMMA BlankIsNoType == Blank # "event" /\ Blank # "request"
  BY Zenon DEF Blank

\* strings.Join of any domains gives one segment at least
\* (transport.go:142-148).
LEMMA JoinedSegments ==
  ASSUME NEW list \in DomainLists
  PROVE  /\ list \in Seq(Segments)
         /\ Joined(list) \in Seq(Segments)
         /\ Len(Joined(list)) \in Nat \ {0}
         /\ list # <<>> => Joined(list) = list
<1>1. PICK n \in 0..MaxDomains : list \in [1..n -> Domains]
  BY DEF DomainLists
<1>2. list \in Seq(Segments) /\ Len(list) \in Nat
  <2>1. n \in Nat
    BY MaxDomainsAssumption
  <2>2. list \in Seq(Domains)
    BY <1>1, <2>1, SeqDef
  <2>3. Domains \subseteq Segments
    BY DEF Segments
  <2> QED BY <2>2, <2>3, SeqMonotonic, LenProperties
<1>3. CASE list = <<>>
  <2>1. Joined(list) = <<Blank>>
    BY <1>3 DEF Joined
  <2>2. Blank \in Segments
    BY DEF Segments
  <2>3. <<Blank>> \in Seq(Segments) /\ Len(<<Blank>>) = 1
    BY <2>2
  <2>4. Joined(list) \in Seq(Segments) /\ Len(Joined(list)) \in Nat \ {0}
    BY <2>1, <2>3
  <2> QED BY <1>2, <1>3, <2>4
<1>4. CASE list # <<>>
  <2>1. Joined(list) = list
    BY <1>4 DEF Joined
  <2>2. Len(list) \in Nat \ {0}
    BY <1>2, <1>4, EmptySeq
  <2> QED BY <1>2, <2>1, <2>2
<1> QED BY <1>3, <1>4

\* The segments of a topic: the version, the domains, the type
\* (transport.go:142-148).
LEMMA TopicSegments ==
  ASSUME NEW kind \in {"event", "request"}, NEW list \in DomainLists
  PROVE  LET t == BuildTopic(kind, list)
             j == Joined(list)
         IN /\ t \in Seq(Segments)
            /\ Len(t) \in Nat
            /\ Len(t) = Len(j) + 2
            /\ Len(t) >= 3
            /\ \A i \in 1..Len(j) : t[i + 1] = j[i]
            /\ t[Len(t)] = kind
            /\ Last(t) = kind
<1> DEFINE j == Joined(list)
           v == <<"v1">>
           k == <<kind>>
           vj == v \o j
<1>1. j \in Seq(Segments) /\ Len(j) \in Nat \ {0}
  BY JoinedSegments
<1>2. /\ v \in Seq(Segments) /\ Len(v) = 1
      /\ k \in Seq(Segments) /\ Len(k) = 1
  <2>1. "v1" \in Segments /\ kind \in Segments
    BY DEF Segments
  <2> QED BY <2>1
<1>3. k[1] = kind
  OBVIOUS
<1> HIDE DEF j, v, k
<1>4. /\ vj \in Seq(Segments)
      /\ Len(vj) = Len(j) + 1
      /\ \A i \in 1..Len(vj) : vj[i] = IF i <= 1 THEN v[i] ELSE j[i - 1]
  BY <1>1, <1>2, ConcatProperties
<1>5. \A i \in 1..Len(j) : vj[i + 1] = j[i]
  BY <1>1, <1>4
<1> DEFINE t == vj \o k
<1> HIDE DEF vj
<1>6. /\ t \in Seq(Segments)
      /\ Len(t) = Len(vj) + 1
      /\ \A i \in 1..Len(t) : t[i] = IF i <= Len(vj) THEN vj[i] ELSE k[i - Len(vj)]
  <2>1. /\ t \in Seq(Segments)
        /\ Len(t) = Len(vj) + Len(k)
        /\ \A i \in 1..(Len(vj) + Len(k)) :
             t[i] = IF i <= Len(vj) THEN vj[i] ELSE k[i - Len(vj)]
    BY <1>2, <1>4, ConcatProperties
  <2> HIDE DEF t
  <2> QED BY <1>2, <2>1
<1>7. Len(t) = Len(j) + 2 /\ Len(t) \in Nat /\ Len(t) >= 3
  BY <1>1, <1>4, <1>6
<1>8. \A i \in 1..Len(j) : t[i + 1] = j[i]
  BY <1>1, <1>4, <1>5, <1>6
<1>9. t[Len(t)] = kind
  BY <1>1, <1>3, <1>4, <1>6
<1>10. t = BuildTopic(kind, list)
  BY DEF BuildTopic, vj, v, j, k
<1>11. Last(t) = kind
  BY <1>9 DEF Last
<1> HIDE DEF t
<1> QED BY <1>6, <1>7, <1>8, <1>9, <1>10, <1>11 DEF j

\* GetTopicType gives back the kind a topic is built with, and the domains
\* (transport.go:150-173).
LEMMA TopicTaken ==
  ASSUME NEW kind \in {"event", "request"}, NEW list \in DomainLists
  PROVE  GetTopicType(BuildTopic(kind, list)) =
           [type |-> kind, domains |-> Joined(list)]
<1> DEFINE t == BuildTopic(kind, list)
           j == Joined(list)
           s == SubSeq(t, 2, Len(t) - 1)
<1>1. /\ t \in Seq(Segments)
      /\ Len(t) = Len(j) + 2
      /\ Len(t) >= 3
      /\ \A i \in 1..Len(j) : t[i + 1] = j[i]
      /\ Last(t) = kind
  BY TopicSegments
<1>2. GetTopicType(t) = [type |-> kind, domains |-> s]
  BY <1>1 DEF GetTopicType
<1>3. j \in Seq(Segments) /\ Len(j) \in Nat \ {0}
  BY JoinedSegments
<1> HIDE DEF t, j
<1>4. \A i \in 2..(Len(t) - 1) : t[i] \in Segments
  BY <1>1, <1>3
<1>5. /\ s \in Seq(Segments)
      /\ Len(s) = Len(j)
      /\ \A i \in 1..Len(j) : s[i] = t[i + 1]
  <2>1. 2 \in Int /\ Len(t) - 1 \in Int /\ 2 <= Len(t) - 1
    BY <1>1, <1>3
  <2>2. /\ s \in Seq(Segments)
        /\ Len(s) = (Len(t) - 1) - 2 + 1
        /\ \A i \in 1..((Len(t) - 1) - 2 + 1) : s[i] = t[2 + i - 1]
    BY <1>4, <2>1, SubSeqProperties
  <2> HIDE DEF s
  <2> QED BY <1>1, <1>3, <2>2
<1> HIDE DEF s
<1>6. s = j
  BY <1>1, <1>3, <1>5, SeqEqual
<1> QED BY <1>2, <1>6 DEF t, j

\* A ResponseTopic: the request's topic and the id (transport.go:413-415).  It
\* is no request's topic, and "request/" is in it.
LEMMA ResponseTopic ==
  ASSUME NEW list \in DomainLists, NEW id \in Ids \cup {Blank}
  PROVE  LET t == BuildTopic("request", list)
             r == Append(t, id)
         IN /\ ~IsRequest(r)
            /\ HasRequestPrefix(r)
            /\ Last(r) = id
            /\ r # None
<1> DEFINE t == BuildTopic("request", list)
           r == Append(t, id)
<1>1. t \in Seq(Segments) /\ Len(t) \in Nat /\ Len(t) >= 3 /\ t[Len(t)] = "request"
  BY TopicSegments
<1>2. id \in Segments
  BY DEF Segments
<1> HIDE DEF t
<1>3. /\ r \in Seq(Segments)
      /\ Len(r) = Len(t) + 1
      /\ \A i \in 1..Len(t) : r[i] = t[i]
      /\ r[Len(t) + 1] = id
  BY <1>1, <1>2, AppendProperties
<1> HIDE DEF r
<1>4. Last(r) = id
  BY <1>3 DEF Last
<1>5. ~IsRequest(r)
  <2>1. id # "request"
    BY IdsAssumption, BlankIsNoType
  <2>2. GetTopicType(r).type # "request"
    BY <1>4, <2>1 DEF GetTopicType, NoType
  <2> QED BY <2>2 DEF IsRequest
<1>6. HasRequestPrefix(r)
  BY <1>1, <1>3 DEF HasRequestPrefix
<1>7. r # None
  BY <1>1, <1>3 DEF None
<1> QED BY <1>4, <1>5, <1>6, <1>7 DEF r, t

\* The ids publish returns for a request: none without Properties
\* (transport.go:405-412).
LEMMA ResponseIdsOf ==
  ASSUME NEW p \in Shapes
  PROVE  /\ ResponseIds(p) \subseteq Ids \cup {Blank}
         /\ \A id \in ResponseIds(p) : id # Blank => HasProperties(p)
<1>1. CASE p \in Ids
  <2>1. p # "noCorrelation"
    BY <1>1, IdsAssumption
  <2>2. ResponseIds(p) = {p}
    BY <1>1, <2>1, Zenon DEF ResponseIds
  <2> QED BY <1>1, <2>2, IdsAssumption DEF HasProperties
<1>2. CASE p = "noCorrelation"
  <2>1. p \notin Ids
    BY <1>2, IdsAssumption
  <2>2. ResponseIds(p) = Ids
    BY <1>2, <2>1, Zenon DEF ResponseIds
  <2> QED BY <1>2, <2>2 DEF HasProperties
<1>3. CASE p \in {"nil", "noProperties"}
  <2>1. p \notin Ids /\ p # "noCorrelation"
    BY <1>3, IdsAssumption
  <2>2. ResponseIds(p) = {Blank}
    BY <2>1, Zenon DEF ResponseIds
  <2> QED BY <2>2
<1> QED BY <1>1, <1>2, <1>3 DEF Shapes

-----------------------------------------------------------------------------
(* The packets of an exchange.                                             *)

\* Whether a topic is a request's is the type it was built with
\* (transport.go:150-173); no topic is None.
LEMMA TopicIs ==
  ASSUME TypeOK
  PROVE  /\ IsRequest(topic) <=> type = "request"
         /\ topic # None
         /\ Last(topic) = type
<1>1. type \in {"event", "request"} /\ domains \in DomainLists
  BY DEF TypeOK
<1>2. GetTopicType(topic).type = type
  BY <1>1, TopicTaken DEF topic
<1>3. Len(topic) \in Nat /\ Len(topic) >= 3 /\ Last(topic) = type
  BY <1>1, TopicSegments DEF topic
<1>4. topic # None
  <2> SUFFICES ASSUME topic = None PROVE FALSE
    OBVIOUS
  <2>1. Len(None) = 1
    BY DEF None
  <2>2. Len(topic) = 1
    BY <2>1, Zenon
  <2> QED BY <1>3, <2>2
<1> QED BY <1>2, <1>3, <1>4 DEF IsRequest

\* The packet of a request (transport.go:404-416): it may be taken for an
\* answer only if it bears no id.
LEMMA RequestIs ==
  ASSUME TypeOK, IsRequest(topic), NEW id \in ResponseIds(props)
  PROVE  LET p == RequestPacketOf(topic, props, id)
         IN /\ id \in Ids \cup {Blank}
            /\ p.topic = topic
            /\ p.replyTo = Append(topic, id)
            /\ p.corr = id
            /\ p # Nothing
            /\ ~Completes(p, Ids)
<1> DEFINE p == RequestPacketOf(topic, props, id)
<1>1. /\ props \in Shapes
      /\ id \in Ids \cup {Blank}
      /\ id # Blank => HasProperties(props)
  BY ResponseIdsOf DEF TypeOK
<1>2. /\ p.topic = topic
      /\ p.replyTo = Append(topic, id)
      /\ p.corr = id
      /\ HasProperties(props) => p.from = None
  BY DEF RequestPacketOf
<1>3. p # Nothing
  BY <1>2, TopicIs DEF Nothing
<1>4. ~Completes(p, Ids)
  BY <1>1, <1>2 DEF Completes
<1> QED BY <1>1, <1>2, <1>3, <1>4

\* The packet of an event (transport.go:386-403): what is taken for its id is
\* its type.
LEMMA EventIs ==
  ASSUME TypeOK, ~IsRequest(topic)
  PROVE  LET p == PlainPacketOf(topic, props)
         IN /\ p.topic = topic
            /\ p.corr \in {Blank, "event"}
            /\ p # Nothing
            /\ ~Completes(p, Ids)
<1> DEFINE p == PlainPacketOf(topic, props)
<1>1. Last(topic) = "event"
  BY TopicIs DEF TypeOK
<1>2. p.topic = topic /\ p.corr \in {Blank, "event"}
  BY <1>1 DEF PlainPacketOf
<1>3. p # Nothing
  BY <1>2, TopicIs DEF Nothing
<1>4. p.corr \notin Ids
  BY <1>2, IdsAssumption
<1>5. ~Completes(p, Ids)
  BY <1>4 DEF Completes
<1> QED BY <1>2, <1>3, <1>5

\* The packet of an answer (transport.go:386-392): it bears the id of the
\* request it answers.
LEMMA AnswerIs ==
  ASSUME TypeOK, IsRequest(topic), NEW id \in Ids \cup {Blank}
  PROVE  LET r == Append(topic, id)
         IN /\ ~IsRequest(r)
            /\ r # None
            /\ PlainPacketOf(r, "nil") =
                 [topic |-> r, replyTo |-> r, corr |-> id, from |-> r]
            /\ PlainPacketOf(r, "nil") # Nothing
<1> DEFINE r == Append(topic, id)
<1>1. topic = BuildTopic("request", domains) /\ domains \in DomainLists
  BY TopicIs DEF topic, TypeOK
<1>2. ~IsRequest(r) /\ HasRequestPrefix(r) /\ Last(r) = id /\ r # None
  BY <1>1, ResponseTopic
<1> HIDE DEF r
<1>3. ~HasProperties("nil")
  BY DEF HasProperties
<1>4. PlainPacketOf(r, "nil") =
        [topic |-> r, replyTo |-> r, corr |-> id, from |-> r]
  BY <1>2, <1>3 DEF PlainPacketOf
<1>5. PlainPacketOf(r, "nil") # Nothing
  BY <1>2, <1>4 DEF Nothing
<1> QED BY <1>2, <1>4, <1>5 DEF r

-----------------------------------------------------------------------------
(* The invariant is inductive.                                             *)

\* A client that has built a topic, and no packet yet (transport.go:142-148).
LEMMA InitIInv == Init => IInv
<1> SUFFICES ASSUME Init PROVE IInv
  OBVIOUS
<1>1. TypeOK
  BY DEF Init, TypeOK, Nothing
<1> QED BY <1>1 DEF Init, IInv, RequestIsPublished, AnswerIsPublished

\* publish of a request (transport.go:404-416).
LEMMA PublishRequestKeeps ==
  ASSUME IInv, NEW id \in Ids \cup {Blank}, PublishRequest(id)
  PROVE  IInv'
<1> DEFINE p == RequestPacketOf(topic, props, id)
<1>1. /\ request = Nothing
      /\ IsRequest(topic) /\ id \in ResponseIds(props)
      /\ request' = p /\ returned' = id
      /\ UNCHANGED <<type, domains, props, answer>>
  BY DEF PublishRequest, Publish
<1>2. TypeOK /\ answer = Nothing
  BY <1>1 DEF IInv, RequestIsPublished
<1>3. id \in Ids \cup {Blank} /\ p.corr = id /\ p # Nothing
  BY <1>1, <1>2, RequestIs
<1>4. topic' = topic
  BY <1>1 DEF topic
<1>5. TypeOK'
  <2>1. request'.corr \in Ids \cup {Blank} /\ UNCHANGED answer
    BY <1>1, <1>3
  <2> HIDE DEF p
  <2> QED BY <1>1, <1>2, <1>3, <2>1 DEF TypeOK
<1>6. RequestIsPublished'
  BY <1>1, <1>3, <1>4 DEF RequestIsPublished
<1>7. AnswerIsPublished'
  BY <1>1, <1>2 DEF AnswerIsPublished
<1> QED BY <1>5, <1>6, <1>7 DEF IInv

\* publish of anything else (transport.go:386-403).
LEMMA PublishOtherKeeps ==
  ASSUME IInv, PublishOther
  PROVE  IInv'
<1> DEFINE p == PlainPacketOf(topic, props)
<1>1. /\ request = Nothing
      /\ ~IsRequest(topic)
      /\ request' = p /\ returned' = Blank
      /\ UNCHANGED <<type, domains, props, answer>>
  BY DEF PublishOther, Publish
<1>2. TypeOK /\ answer = Nothing
  BY <1>1 DEF IInv, RequestIsPublished
<1>3. p.corr \in {Blank, "event"} /\ p # Nothing
  BY <1>1, <1>2, EventIs
<1>4. topic' = topic
  BY <1>1 DEF topic
<1>5. TypeOK'
  <2>1. request'.corr \in {Blank, "event"}
    BY <1>1, <1>3
  <2> HIDE DEF p
  <2> QED BY <1>1, <1>2, <2>1 DEF TypeOK
<1>6. RequestIsPublished'
  BY <1>1, <1>3, <1>4 DEF RequestIsPublished
<1>7. AnswerIsPublished'
  BY <1>1, <1>2 DEF AnswerIsPublished
<1> QED BY <1>5, <1>6, <1>7 DEF IInv

\* What a responder answers to is the request of the topic, and its publish
\* takes the other way (api/users/main.go:112, transport.go:386-392).
LEMMA Answered ==
  ASSUME TypeOK, RequestIsPublished, IsRequest(request.topic)
  PROVE  /\ IsRequest(topic)
         /\ returned \in Ids \cup {Blank}
         /\ request # Nothing
         /\ request.replyTo = Append(topic, returned)
<1>1. request # Nothing
  <2>1. ~IsRequest(None)
    BY DEF IsRequest, GetTopicType, NoType, None
  <2> QED BY <2>1 DEF Nothing
<1>2. CASE IsRequest(topic)
  BY <1>1, <1>2, RequestIs DEF RequestIsPublished
<1>3. CASE ~IsRequest(topic)
  BY <1>1, <1>3, EventIs DEF RequestIsPublished
<1> QED BY <1>1, <1>2, <1>3

\* The responder's publish (api/users/main.go:112, transport.go:386-403).
LEMMA PublishAnswerKeeps ==
  ASSUME IInv, PublishAnswer
  PROVE  IInv'
<1>1. /\ IsRequest(topic) /\ returned \in Ids \cup {Blank}
      /\ request # Nothing
      /\ request.replyTo = Append(topic, returned)
  BY Answered DEF IInv, PublishAnswer
<1> DEFINE r == request.replyTo
           p == PlainPacketOf(r, "nil")
<1>2. ~IsRequest(r) /\ p.corr = returned
  BY <1>1, AnswerIs DEF IInv
<1>3. answer' = p /\ UNCHANGED <<type, domains, props, request, returned>>
  BY <1>2 DEF PublishAnswer
<1>4. topic' = topic
  BY <1>3 DEF topic
<1>5. TypeOK'
  <2>1. answer'.corr \in Ids \cup {Blank}
    BY <1>1, <1>2, <1>3
  <2>2. UNCHANGED <<type, domains, props, request, returned>>
    BY <1>3
  <2> QED BY <2>1, <2>2 DEF IInv, TypeOK
<1>6. RequestIsPublished'
  BY <1>1, <1>3, <1>4 DEF IInv, RequestIsPublished
<1>7. AnswerIsPublished'
  BY <1>1, <1>3, <1>4 DEF AnswerIsPublished
<1> QED BY <1>5, <1>6, <1>7 DEF IInv

-----------------------------------------------------------------------------
(* The theorems.                                                           *)

\* In every reachable state, what has been published is what publish makes of
\* the topic, and types are as TypeOK says (transport.go:142-173, 372-416).
THEOREM Invariance == Spec => []IInv
<1>1. IInv /\ [Next]_vars => IInv'
  <2> SUFFICES ASSUME IInv, [Next]_vars PROVE IInv'
    OBVIOUS
  <2>1. ASSUME NEW id \in Ids \cup {Blank}, PublishRequest(id) PROVE IInv'
    BY <2>1, PublishRequestKeeps
  <2>2. CASE PublishOther
    BY <2>2, PublishOtherKeeps
  <2>3. CASE PublishAnswer
    BY <2>3, PublishAnswerKeeps
  <2>4. CASE UNCHANGED vars
    <3>1. topic' = topic
      BY <2>4 DEF vars, topic
    <3> QED BY <2>4, <3>1
        DEF vars, IInv, TypeOK, RequestIsPublished, AnswerIsPublished
  <2> QED BY <2>1, <2>2, <2>3, <2>4 DEF Next
<1> QED BY <1>1, InitIInv, PTL DEF Spec

\* An exchange is of the types that publish has (transport.go:372-416).
THEOREM TypeCorrect == Spec => []TypeOK
<1>1. IInv => TypeOK
  BY DEF IInv
<1> QED BY <1>1, Invariance, PTL

\* A topic of any domains is taken apart into what it was built from, whatever
\* words its domains are (transport.go:142-148 against 150-173).
THEOREM TopicsParse == Spec => []BuiltTopicsParse
<1>1. IInv => BuiltTopicsParse
  <2> SUFFICES ASSUME IInv, domains # <<>>
               PROVE  GetTopicType(topic) = [type |-> type, domains |-> domains]
    BY DEF BuiltTopicsParse
  <2>1. type \in {"event", "request"} /\ domains \in DomainLists
    BY DEF IInv, TypeOK
  <2>2. Joined(domains) = domains
    BY <2>1, JoinedSegments
  <2> QED BY <2>1, <2>2, TopicTaken DEF topic
<1> QED BY <1>1, Invariance, PTL

\* The answer to a request with an id passes the client's test on the topic it
\* has subscribed to, and nothing else passes it (transport.go:372-416 against
\* 458-464).
THEOREM AnswersPass == Spec => []AnswersAloneComplete
<1>1. IInv => AnswerCompletesRequest
  <2> SUFFICES ASSUME IInv, answer # Nothing, returned # Blank
               PROVE  /\ answer.topic = SubscribedFor(topic, returned)
                      /\ Completes(answer, {returned})
    BY DEF AnswerCompletesRequest
  <2> DEFINE r == Append(topic, returned)
  <2>1. /\ IsRequest(topic)
        /\ answer = PlainPacketOf(request.replyTo, "nil")
        /\ request # Nothing
    BY DEF IInv, AnswerIsPublished, RequestIsPublished
  <2>2. returned \in ResponseIds(props) /\ request.replyTo = r
    BY <2>1, RequestIs DEF IInv, RequestIsPublished
  <2>3. returned \in Ids \cup {Blank}
    BY DEF IInv, TypeOK
  <2>4. /\ answer = [topic |-> r, replyTo |-> r, corr |-> returned, from |-> r]
        /\ r # None
    BY <2>1, <2>2, <2>3, AnswerIs DEF IInv
  <2> HIDE DEF r
  <2>5. Completes(answer, {returned})
    BY <2>4 DEF Completes
  <2> QED BY <2>4, <2>5 DEF r, SubscribedFor
<1>2. IInv => OnlyAnswersComplete
  <2> SUFFICES ASSUME IInv PROVE ~Completes(request, Ids)
    BY DEF OnlyAnswersComplete
  <2>1. CASE request = Nothing
    BY <2>1 DEF Completes, Nothing
  <2>2. CASE request # Nothing /\ IsRequest(topic)
    BY <2>2, RequestIs DEF IInv, RequestIsPublished
  <2>3. CASE request # Nothing /\ ~IsRequest(topic)
    BY <2>3, EventIs DEF IInv, RequestIsPublished
  <2> QED BY <2>1, <2>2, <2>3
<1>3. IInv => AnswersAloneComplete
  BY <1>1, <1>2 DEF AnswersAloneComplete
<1> QED BY <1>3, Invariance, PTL

\* The topic of an answer is not a request's, so that its publish waits for
\* nothing (transport.go:404).
THEOREM AnswersAskNothing == Spec => []AnswerIsNoRequest
<1>1. IInv => AnswerIsNoRequest
  <2> SUFFICES ASSUME IInv, answer # Nothing PROVE ~IsRequest(answer.topic)
    BY DEF AnswerIsNoRequest
  <2> DEFINE r == Append(topic, returned)
  <2>1. /\ IsRequest(topic)
        /\ answer = PlainPacketOf(request.replyTo, "nil")
        /\ request # Nothing
    BY DEF IInv, AnswerIsPublished, RequestIsPublished
  <2>2. request.replyTo = r
    BY <2>1, RequestIs DEF IInv, RequestIsPublished
  <2>3. returned \in Ids \cup {Blank}
    BY DEF IInv, TypeOK
  <2>4. answer.topic = r /\ ~IsRequest(r)
    BY <2>1, <2>2, <2>3, AnswerIs DEF IInv
  <2> QED BY <2>4
<1> QED BY <1>1, Invariance, PTL
=============================================================================
