# A verification of learnKubernetes

TLA+ specifications of the Go application in `src/`: an HTTP gateway that asks a
users service, over an MQTT broker, for what its pages show; TLC runs that check
them on small instances; and TLAPS proofs of the main results for instances of
any size.

Line numbers below refer to `src/` at the commit this project was written for.

## 1. The system

```
browser --HTTP--> gateway --MQTT request--> broker --> users service
                     ^                         |            |
                     +---- MQTT answer --------+<-----------+
   all of them log through lib/logger and sit on lib/httpServer, in Kubernetes pods
```

| component | state | operations | interacts with |
|---|---|---|---|
| `lib/transport` request/response | `pendingRequests`, `requestResponseChan`, `reqResLock`, one channel per call | `PublishWithResponse`, `publish`, `handleIncomingPublish` | its callers (goroutines), paho's one receiving goroutine, the broker |
| `lib/transport` topics, packets | none | `BuildTopic`, `GetTopicType`, what `publish` writes into a packet | both ends of an exchange |
| `lib/transport` connection | the client, its will, its subscriptions | `Connect`, `Subscribe`, `Unsubscribe`, `Close`, error callbacks | the broker, other pods with the same client id |
| gateway routes and rendering | one HTTP request each | the pages, the API's events, `RenderView` | `lib/httpServer`, browser |
| gateway `handleLogIn` | one HTTP request | publish, select, `CheckTransportResponseForErrors`, page | transport, browser |
| users service | its handler | start-up, serve, shutdown | transport, broker |
| process life cycle (both `main`s) | how far `main` is, the listener | start-up, `/ready`, signal, shutdown | kubelet, broker, redis, Mongo |
| `lib/logger` | one shared `loggerMessage`, `logLevel`, the file | ten `Log*` functions, `SetLogLevel`, `Close` | every goroutine of a process |
| `lib/httpServer` | the mux, CORS rules, one `Ctx` for all requests | `ListenAndServe`, `Shutdown`, `Handler` with its middleware, `/health`, `/log-level`, `Ctx` methods | handlers, the logger's level |
| redis, Mongo | a client each | connect, close | nothing reads or writes data yet |

What is hard about it:

* **Concurrency.** A call runs in its handler's goroutine, in a goroutine of
  `PublishWithResponse`, and in paho's receiving goroutine. They share two maps
  under one lock, and the receiving goroutine sends on a channel *while it holds
  the lock*. The logger shares a struct with no lock at all.
  Every HTTP request runs in a goroutine of its own and shares one `Ctx` and one
  logger with all others.
* **Failure and time.** A log-in has 100 ms; `publish` can fail after the broker
  has acted on it; answers come late or twice; the connection breaks and nothing
  reconnects; the users service comes and goes with a clean session each time.
* **Order.** Channel, pending entry, subscription and request must come in that
  order; subscription and handler of the users service come in the wrong one;
  wills and announcements of overlapping pods meet on one retained topic.

What makes each part correct:

* a call ends once, with its own answer, an error, or a timeout that is true;
  nothing blocks the receiving goroutine;
* publish and the receiver's test agree on what an answer is;
* a page is shown only for a log-in that was served, and the browser always gets
  an ending; no request is served twice;
* a log line shows what its call was given, and where races mix lines, they mix
  only those of calls that overlap;
* a browser that stays gets a whole page, its cookie in time, and is not judged by
  what another request has stored; the log level asked for last holds;
* a caller with a correlation id of its own hurts nobody who has another id;
* overlapping pods do not take each other's subscriptions or status away, and a
  pod that is told to stop does stop, unless its receiving goroutine is stuck.

## 2. Modules

| module | models | corresponds to |
|---|---|---|
| `RpcCalls` | what a caller of `PublishWithResponse` may rely on: open, serve, expire, close | `lib/transport/types.go:28-31` |
| `Transport` | `PublishWithResponse`, the `publish` under it, `handleIncomingPublish`, with the broker and the responder around them | `lib/transport/transport.go:187-245`, `372-439`, `441-490` |
| `LoginSystem` | extends `Transport` with `handleLogIn` and the life of the users service | `app-gateway/handlers/handlers.go:101-199`, `transport.go:311-359`, `api/users/main.go` |
| `SharedIds` | the same calls for callers that pass a `PublishRequest` of their own | `transport.go:187-245`, `404-420`, `441-482` |
| `Topics` | topics, packets, the receiver's test | `transport.go:142-173`, `372-439`, `458-464` |
| `Logger` | the shared message, word by word | `lib/logger/logger.go` |
| `HttpServer` | the routes, the middleware, the handlers' writes, the log level | `lib/httpServer/httpServer.go`, `middleWare.go:67-85`, `app-gateway/app.go:198-214`, `handlers/` |
| `Rollout` | the pods of a Deployment from start to exit and what the broker keeps of them | `app-gateway/app.go`, `api/users/main.go`, `transport.go:45-140` |
| `TransportProofs`, `LoginProofs`, `SharedIdsProofs`, `TopicsProofs`, `LoggerProofs`, `HttpServerProofs`, `RolloutProofs` | the proofs, one module for each of the above (`RpcCalls` is proved about as what `Transport` refines) | |
| `MC*` | constants and symmetry for TLC | |

### Transport

`pc` is where a call is in `PublishWithResponse` and the `publish` it makes:
`register` (216) → `pending` (418) → `subscribe` (422) → `publish` (428) →
`puback` (428, waiting) → `wait` (234) → `cleanup` (221) → `returned`.
`pendingRequests` and `requestResponseChan` are the two maps' key sets, `waitCh`
the channels, `responseChan` what the call gives back, `ctxDone` the contexts
that are over.

Calls are named by their correlation ids. Every caller in the repository passes
nil properties, so that each call has a fresh UUID; `SharedIds` has the callers
that pass an id, or a struct, of their own.

The lock is a variable only because of one holder. Every other critical section
is a few map operations and is one atomic step, guarded by `LockFree`.
`handleIncomingPublish` keeps the lock over a channel send; when the channel has
been deleted from the map the send is on a nil channel, and the step
`BlockOnNilChannel` leaves the lock with the router for ever.

The broker is `subscribed`, `requested` and `inbox`: it takes a request, forwards
an answer if the client is connected and subscribed, and gives the gateway its
own requests back, because `app.go:54` subscribes the gateway to the request
topic. `Answer` is the responder: up to `MaxAnswers` times for one request, at
any time after it, which covers redelivery under QoS 1, reordering, and lateness;
an answer lost on the way is one that is never given. `Disconnect` ends the
connection and drops what is under way.

Results: nothing is sent on a full or closed channel (`SendIsSafe`), answers are
never confused (`AnswerIsOwn`), the caller is told something
(`CallerAlwaysToldSomething`: a channel that is closed and empty would have `Receive`
take the `!ok` branch of 238, which tells the caller nothing; that no channel ever is,
is what the property says), an answered call leaves nothing behind
(`AnsweredCallLeavesNothing`), and the transport refines `RpcCalls`. The one
thing that goes wrong is exactly described: `BlockedByAbandonedCall` says that
the router blocks only on a late answer to a call that returned an error,
`BlockedForGood` what that means, `ReturnsUnlessBlocked` that nothing else keeps
a call from returning, and the run `transport_hang` shows that it happens.

### LoginSystem

Extends `Transport`; the c-th call is the c-th log-in. `sent` is what the browser
gets. A log-in whose call failed does not get its 500: the error of
`CheckTransportResponseForErrors` is overwritten (352), so `CheckReturnsError` is
`FALSE`, the handler reads `protoWrapper.Response.Data` of an empty message,
panics, and net/http cuts the connection (`"aborted"`) with the status still in
its buffer. Whether a message can be marshalled (`marshals`) and whether an answer is
a list of users (`readable`) is left open, which gives the other endings: 500 when the
request itself does not marshal and no call is made (`LogInFails`, 147-156), the status
of the failed call when the error's body does not marshal (a `User-Agent` that is not
UTF-8 will do), and 204 for an answer that cannot be read (174-192).

The users service is `down`, `subscribed` or `serving` (`Rollout` has the phases in
between, which a request does not notice).
It may crash at any point (`UsersGone`); a request that reaches it before its
handler is registered, or whose answer cannot be published, is dropped
(`UsersDrop`); Connect, Subscribe and the handler come in the order of
`main.go:44-116`, and `SubscribeMultiple` may fail without anybody noticing. Every
action of the gateway contains the step of `Transport` it makes, so that the
transport's invariant is part of this module's.

### SharedIds

`PublishWithResponse` takes the caller's `PublishRequest`, and fills it in when it
has no `Properties` (204-212): the fresh id stays in the caller's struct. Here calls
and ids are two sets. `struct` is what a call was given, `correlationData` what is
in it (an id of its own, a blank one, or nothing yet), `corID` the key the call
registers its channel under (214), `responseID` the id its request goes out with
(404-410); the three reads of the struct are three steps, so that two calls with
one struct interleave between them. `requestResponseChan` maps ids to channels and
is overwritten and deleted by key, as in the code.

What `Transport` promises no longer holds for everybody; what does is: a call whose
id nobody shares is safe from the others, since a wrong answer always bears the
right id (`AnswerBearsKey`), the receiving goroutine panics only for an id
used twice (`PanicTakesTwo`) and blocks only for a call that gave up or shares its id
or has two of them (`BlockedForAReason`). A blank id is always fatal
(`BlankIdStopsRouter`), and one struct for one call after another is harmless when
each has had its answer and none is answered twice (`CarefulReuseIsHarmless`).
`publish` and the broker are cut down to their effect: `Transport` has them.

### HttpServer

A request arrives at a route, passes `chain` (the middleware that `app.go:198-214`
puts in front of it), enters its handler, and is `done` or, after a panic,
`aborted`. Handlers that wait or call out have a stage of their own: `body` while
`/log-level` reads its request (267), `reply` between `SetLogLevel` and the answer,
`logIn` and `dashBoard` for `handleLogIn`. `resp` is the `http.ResponseWriter` as net/http
defines it: the first status counts, and the header goes out with it. Shared by all
requests are `ctxMap` (`Ctx`) and `logLevel`. Clients leave (`gone`) and the 100 ms of a
log-in pass (`late`) at any time; templ renders under `r.Context()`. What
`PublishWithResponse` does is left open: an answer, readable or not, an error, a timeout,
a panic, or nothing ever.

`CtxStaysEmpty` shows that no execution of this program writes the shared context
map, which is why the unlocked reads of `GetCtx` and `WithTimeout` meet no writer,
and why `Auth`, which looks for the token of *whoever* came before, lets everybody
pass. `PagesAreWhole` and `CookieComesWithDashBoard` are about the order of header,
cookie, status and page when time runs out or the client leaves in between;
`LastLevelHolds` about competing and failing changes of the level.

### Topics

A topic is its sequence of segments. `RequestPacketOf` and `PlainPacketOf` are
the two ways through `publish`, for a nil request, one without `Properties`, one
without `CorrelationData` and one with an id. `Completes` is the test of
`handleIncomingPublish`. An exchange is a request (or event) and the answer that
`api/users/main.go:112` publishes on the packet's `ResponseTopic`, and the
question is whether the two ends agree, for topics with a domain that is, or ends
in, "request" as well. `ReturnsCorrelationId` fails for requests without
properties (run `topics_returned`).

### Logger

A call is the list of memory accesses that `setLoggerData` and `writeToFile` make
to the shared struct; a string or interface is two words, so that a race can tear
it. The fields FileName and Method have the treatment of Message, Time that of Level, and
are represented by them. `encoding/json/v2`, which the logger imports, refuses a Message
that is not UTF-8 as well as a Value it cannot encode (`Refused`). What it does with two
words of two calls (`Torn`) depends on the build: it takes them for a value, refuses them,
or panics; `WriteLine` and `MarshalFails` are both possible then. A panic ends the call
as an error does, before anything is cleared: net/http recovers those of handlers. The
write to the file may fail at any time, and always does after `Close`, which runs while
handlers may still log; nobody looks.

With one goroutine a line is its call's own (`OwnLine`) except for what a call that failed
has left behind (`ForeignWordsWereRefused`), and a call fails only for what it was given or
for what an earlier failure left (`RefusedForAReason`). With two goroutines lines do mix.
What still holds is that Message and Value keep nothing of a call that is over, unless it
failed (`NoLeftovers`), and that a line mixes only calls that were under way at once
(`MixedLinesOverlap`). The second is not obvious of the level, which nobody clears: a call
may write another's level, but never that of a call that was over before it began, since
it has stored a level of its own by the time it loads one.

### Rollout

A pod goes from `none` through `dialing`, `connected`, `announced`, `running` to
`signalled`, `shutdown`, `unsubscribed`, `closing`, `exited`, or `crashed` from
anywhere. All pods of a service use the same client id, so that `Connect` takes
the session over, with the old will published and the subscriptions gone; an old
pod's `Unsubscribe` and `Close` then go to a closed connection. `Shutdown` gets a
context derived from the one the signal has cancelled (`app.go:234`), closes the
listener, and does not wait for requests in flight. `ListenAndServe` looks at its
error the wrong way round (`httpServer.go:198`), so that `main` never learns of a
port it cannot have: `Listen` may never happen.

`main` looks at the error of no `Publish`, `Subscribe`, `Unsubscribe` or `Close`. So
`Announce` may be lost with the connection alive (131), `SubscribeTopics` may get any part
of its topics (249, `handlers.go:260-264`), and so may `UnsubscribeTopics`; the pod goes on.
What the broker did do for each pod is in `granted`, `heard` and `released`, three
histories in which the properties are stated: the owner of the session has just the
subscriptions it was granted (`OwnerKeepsSubscriptions`), and the status of an owner whose
announcement was heard is not "offline" (`StatusSurvivesTakeover`).

`Close` is paho's Disconnect: it sends the packet (`Disconnect`) and then waits for its
goroutines (`Exit`), one of which may be stuck for good in the router (`blocked`, which is
`Transport`'s `BlockOnNilChannel`). The pod then hangs until the kubelet kills it, and
`SignalledPodsExit` says that nothing else keeps it. A crash and the broker's noticing it
are two steps (`Crash`, `LoseBroker`), with anything in between.

The broker's rules (takeover, will, retained message, expiry) are those of MQTT 5 for the
settings in `transport.go:80-113`, but for one: the comment at 91-99 says that with
`CleanStart` and no `WillDelayInterval` the broker may not store the will. MQTT 5 reads
otherwise: the will belongs to the session whether it is clean or not, and without a delay
it is published as soon as the connection is lost. Since the settings alone do not show
which broker is right, both are modelled: `keepsWill` is chosen once at the start.
`OnlineHidesNoCrash` speaks only of a broker that keeps the will, and is false of the other
one; everything else holds with either.

## 3. Runs

| run | instance | shows | states |
|---|---|---|---|
| `transport` | 2 calls, 2 answers each, fair | the safety properties, the inductive invariant, `BlockedForGood`, the refinement of `RpcCalls`, `ReturnsUnlessBlocked` | 64 thousand |
| `transport_hang` | 2 calls, 1 answer, fair | **violated**: a call that never returns | |
| `shared_ids` | 3 calls, 1 struct, 2 answers each | what callers with ids of their own can do to each other and to the router, the inductive invariant | 618 thousand (symmetry) |
| `login` | 2 log-ins, 2 answers each, fair | true endings (`EndingsAreTrue`: page, cut connection, timeout), at most once, the inductive invariant, every log-in ends unless the router blocks | 335 thousand |
| `login_failure` | 2 log-ins | **violated**: a failed log-in without a 5xx status | |
| `http_server` | 2 requests for any route | pages, cookies, the shared context, the log level, the inductive invariant | 76 thousand |
| `topics_exchange` | up to 3 domains of 3 kinds, 2 ids, all shapes | parsing, agreement of the two ends (`AnswersAloneComplete`), the inductive invariant | 1 thousand |
| `topics_returned` | the same | **violated**: a request that returns "" | |
| `logger_alone` | 1 goroutine, 3 calls, 2 levels | own lines, what a call leaks in which `json.Marshal` fails (`OnlyRefusedCallsLeak`), the inductive invariant | 316 thousand |
| `logger_shared` | 2 goroutines, 1 call each | no leftovers under the race, only overlapping calls mix, the inductive invariant | 687 thousand (symmetry) |
| `rollout` | 2 pods, 2 topics, fair | takeover, status, the inductive invariant, a signalled pod exits unless it is stuck | 748 thousand |
| `rollout_ready` | 2 pods | **violated**: ready without a broker | |

**Bounds.** Two calls are enough for the transport because they meet only in the
lock and the receiving goroutine: one call to be abandoned and one to suffer from
it, or two whose answers could be confused; the proofs remove the bound. Two
answers are the first and one too many. Three domains allow the special word
before, between and after others. Three logger calls are one to be refused, one
to be harmed and one to recover; what two racing calls can do to a third, the proofs say.
Two pods are an old one and the one that takes over; that the properties hold for any
number of pods is proved. Three calls with one struct are two
that share it and one that does not, or three in a row. Two requests are one that
acts and one that could suffer, on every pair of routes (`Asks` has one of each
kind of body and of event, and two of the five levels; the proofs have the rest).
`MaxAnswers`, `MaxDomains`,
`MaxCalls` and `MaxInFlight` are the only bounds in guards.

Where a module has an inductive invariant (`IInv`, `LoginIInv`), the run checks that;
it contains the types, and in `transport` what the caller is told
(`CallerAlwaysToldSomething`) and the order of subscription and request
(`SubscribedBeforeRequested`), which are theorems on their own. `logger_alone` checks
the part of `Logger`'s for a lone goroutine, `logger_shared` that for racing ones. With a
Message and a Value, `setLoggerData` assigns each of them twice (381-392), and so does
the model. Of what a call may be given, `AloneInputs` and `SharedInputs` select what makes
a difference to another call.

Every configuration turns deadlock checking off: a process whose calls are all
over, or whose router is blocked with every context over, has nothing left to do.

`HttpServer` and `SharedIds` end likewise when every request or call is over.

**Fairness.** `Transport` and `LoginSystem` assume weak fairness of each call's own
steps (the Go scheduler; paho's Subscribe and Publish end by context or packet
timeout, and `PublishFails` is always possible there), of the end of each context
(`handlers.go:117` gives it 100 ms), and of the receiving goroutine. Nothing is
assumed of the callers, the responder, the users service, or the connection.
`Rollout` assumes it of `main`'s own steps; connecting has timeouts
(`transport.go:53`), HTTP handlers are not assumed to return, and the wait in `Exit` is
over only if the receiving goroutine is not blocked.
`HttpServer` assumes nothing: a body is read for as long as the client likes (267; the
server has no ReadTimeout, 145), and a log-in's call may hang in the transport, so that no
request is bound to end.

## 4. Proofs

`TransportProofs` proves, for any set of calls and any bound on answers:

* `TypeCorrect` and `Invariance`: `Spec => []TypeOK`, `Spec => []IInv`;
* from the invariant `SendsAreSafe`, `AnswersAreOwn`, `CallerIsTold`,
  `AnsweredCallsLeaveNothing`, `SubscribedFirst`, `BlockedOnlyByAbandonedCall`;
* the action property `BlockedIsForGood`;
* the refinement `Implements`: `Spec => ImplementsRpcCalls`.

The assumptions are those of `Transport`: `NoTopic` is no call, `MaxAnswers` is a
natural number.

None of the safety properties is inductive. `CallerAlwaysToldSomething` needs that no
channel is closed while it is empty, since `Receive` takes an empty channel for an
answer that says nothing, as the code does (`ChannelsFilledOnce`). `SendIsSafe` needs to know that a
channel is filled and closed in the step that takes the id out of
`pendingRequests`, and that an id is never pending again (`ChannelsFilledOnce`).
`AnswerIsOwn` needs the same of what is in the channels and on the wire
(`InboxGenuine`), since the test in `handleIncomingPublish` looks at the packet
only: an echo of the request has no "from" (`EchoIsNoAnswer`).
`BlockedByAbandonedCall` needs that an entry is pending without a channel only
when its call has returned (`TablesFollowCalls`), and then that the call had no
answer, since an answer would have cleared the entry (`ResponsesHonest`).
`BrokerFollowsCalls` carries the order of `transport.go:418-428`. `IInv` is their
conjunction, and the run `transport` checks it too.

The refinement maps a call that is under way to `open`, one that has returned to
`closed` with the outcome read from what it sent its caller. Call, Answer, Expire
and Cleanup map to steps, all others to stutters.

`LoginProofs` proves, for any number of log-ins, `PagesAreServed`, `CutOffsAreErrors`,
`GatewayTimeoutsAreTrue` (together `EndingsTrue`), `RequestsServedOnce`,
`LoginTypeCorrect` and the invariant (`LoginInvariance`). The lemma
`StepIsTransportStep` says that each step of the system is a step of the transport or
leaves it alone, so that `IInv` keeps holding. The users service answers a request in
the step that takes it, so none is answered twice and one that waits or was dropped has
no answer (`RequestsHandledOnce`); what a browser gets agrees with what the call of its
log-in gave back and with its deadline (`EndingsHonest`). `LoginIInv` is the
conjunction, and the run `login` checks it too.

`RolloutProofs` proves `OwnerKeepsItsSubscriptions`, `StatusSurvives` and `CrashesShow`
for any number of pods and topics, whichever calls to the broker fail. The three
properties are inductive with the types, with `AnnouncedByAPod` (only a pod that
connected has announced) and with `ConnectsFirst`: what the broker has done for a pod it
did after that pod connected, and the pod with the session is the newest (`IInv`, with
`TypeCorrect` and `Invariance`). `OnlineHidesNoCrash` has the broker that keeps the will
as a hypothesis, which `transport.go:91-99` doubts; the other two do not.

`HttpServerProofs` proves, for any number of concurrent requests and any selection of
what they ask for, the invariants of `HttpServer`: `TypeCorrect`, `CtxNeverWritten`,
`PagesComeWhole`, `CookieWithDashBoard`, `LastLevelStays`. What a finished request
has sent cannot be told from its last step alone, so that the invariant says what
every stage has written before (`WritersFollowStages`: nothing up to the handler,
cookie and status in `dashBoard`). `LastLevelHolds` speaks of requests that are done,
while the level is set a step earlier: `LevelIsOfLast` counts from the moment of
setting, and needs that what was over when a request came stays over
(`BeforeIsOver`). `ProceedKeeps` states once what a handler's step must satisfy, and
`HandlerKeeps` shows it of each handler. The assumption is that requests ask for
what the server has (`Asks \subseteq AllAsks`).

`SharedIdsProofs` proves all invariants of `SharedIds` for any number of calls, structs
and answers: `AnswersBearKeys`, `PanicsTakeTwo`, `BlocksForAReason`,
`BlankIdsStopRouter`, `CarefulReuse`. They rest on where ids come from: an id goes from a
call to its struct and from the struct to other calls with it, never from one struct
to another (`IdsComeFromStructs`). A channel is registered under the key of a call under
way, and a call's own is missing only where somebody else has the same key
(`TableFollowsCalls`); what a channel has held was sent for its key, and a key that is
not shared has then had its one answer (`ChannelsFilledForKey`). The fresh id of a
request whose key is blank is never answered for (`BlankIdsStayPending`). `CarefulReuse`
needs more: of two calls with one struct, one has returned with its own answer, and
each finds its channel registered (`CarefulCallsAlternate`). Assumed is
only that calls, structs, the blank id, `None` and the word "error" are different
things.

`LoggerProofs` proves `NothingIsLeft` and `MixedLinesMet` for any number of racing
goroutines and calls, with every word of every field stored and loaded in any
interleaving, and with `json.Marshal` failing or panicking on any pair of words that is
torn. Nothing can be said of who wrote last; what carries the proof is what a call has
still ahead of it. Its accesses come in four phases, stores, loads, the write, and the
clearing of Message and Value, and nothing of a later phase is missing while an earlier
one is under way (`TodoInOrder`). A word in Message or Value is therefore empty, of a
call in which Marshal failed, or one that its own call will still clear
(`LeftoversAreCleared`), so what a call finds there is of a call under way with it
(`CallsMeet`) or of a failed one. The level is never cleared, but a call loads it only
after it has stored its own (`CallMixes`). The line keeps both (`LinesMix`).

`AloneOwnLine` and `AloneOnlyRefusedLeak` are about processes of a single goroutine
(`Alone`), with any number of calls: `Spec => [](Alone => OwnLine)`. With two goroutines
both are false, which is the data race itself. There, between the last store of a field
and its load, the struct shows what the call was given or what failed calls have left
(`CallShowsOwn`), and the line does from the load to the write (`LinesShowOwn`); nothing
is torn (`CallIsWhole`), so Marshal fails only for a bad Message or Value
(`AtTheWrite`). The sequences of accesses are turned into sets once (`ConcatOf`,
`CallAccesses`, `NextAccess`), so that no induction is needed.

`TopicsProofs` proves `TopicsParse`, `AnswersPass` and `AnswersAskNothing` for topics of
any number of domains, which may be any words, "request", "event", "v1" and the
empty one among them. `TopicSegments` and `TopicTaken` state what `BuildTopic` and
`GetTopicType` compute, `ResponseTopic` why a response topic is never taken for a
request's: its last segment is an id. `RequestIs`, `EventIs` and `AnswerIs` give the
packets. The assumption is that an id is none of "", "event" and "request" (a UUID or
what a caller passes; `publish` treats an empty one as none, 408) nor a name
of a shape of properties. Domains may be equal to ids.

Only model-checked:

* the liveness properties (`ReturnsUnlessBlocked`, `LogInEndsUnlessBlocked`,
  `SignalledPodsExit`), which rest on fairness, and liveness and `ENABLED` are beyond
  TLAPS here;
* the four properties that are violated: they are refuted, not proved.

Every other property that a run checks is a theorem for all values of the constants
(in `Logger`, `OwnLine` and `OnlyRefusedCallsLeak` for all processes of one goroutine).

## 5. What is not modelled

* paho's own state (packet ids, retransmission): the repository uses it as a
  library; its effects at the interface are the steps of `Transport`.
* `lib/rmq` is commented out; `broker/` is a stub that no deployment uses;
  the init containers run once in a straight line; views, scripts and manifests
  have no behaviour of their own.
* `rateLimitter` (`middleWare.go:24-51`) is a sketch over five fixed numbers; nothing
  calls it and no request is limited by it. Dead too are `GetCtx`, `WithTimeout`,
  `GetCookie`, `SetGlobalMiddleWare`, `Put` and `Delete` of `lib/httpServer`.
* CORS headers, the files under `/public/` (served by net/http alone) and the
  Tailwind watcher of development builds.
* Data in redis and Mongo: nothing reads or writes any. How connection strings, ports
  and environment names are put together has no state.

## 6. Plan

Done: all modules of section 2, their runs, and the proofs of every safety property
they check. A composition of `Rollout` with `Transport` adds nothing: what a takeover
of the session does to the calls of the pod that loses it is `Disconnect`.

What is left to do better:

1. Action properties that follow from the invariants at hand: that a line, once written,
   is never changed; that an id, once answered, is never pending again.
2. `Transport` as the special case of `SharedIds` in which no struct is shared, by a
   refinement of what the two have in common.
