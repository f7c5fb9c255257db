----------------------------- MODULE HttpServer -----------------------------
(***************************************************************************)
(* lib/httpServer with the gateway's routes on it (app-gateway/app.go,     *)
(* handlers/handlers.go, handlers/renderers.go).  net/http runs every      *)
(* request in a goroutine of its own; what they share is the server's Ctx  *)
(* (one context map for the whole process) and the logger's level.         *)
(*                                                                         *)
(* A log-in's PublishWithResponse is LoginSystem's matter: here it ends in *)
(* any of the handler's ways, or never.  /ready is in Rollout, and files   *)
(* under /public/ are served by net/http alone.                            *)
(***************************************************************************)
EXTENDS Sequences, FiniteSets

CONSTANTS
  Requests,
  Asks,                \* what a request may ask for: a part of AllAsks
  EnvLevel             \* the environment's LOG_LEVEL

LevelNames == {"INFO", "WARNING", "DEBUG", "ERROR", "FATAL"}

\* The body of POST /log-level: not to be read, no JSON, without a level, or
\* with one; and the event named by a request to the API.
Bodies == {"unreadable", "malformed", "empty", "unknown"} \cup LevelNames
Events == {"logIn", "dashBoard", "getPosts", "getUsers", "other"}

\* token: whether the request's Token cookie is the one Auth looks for.
AllAsks ==
  [route : {"/health", "/", "/dash-board"}, what : {"nothing"}, token : BOOLEAN]
  \cup [route : {"/log-level"}, what : Bodies, token : BOOLEAN]
  \cup [route : {"/api/v1/"}, what : Events, token : BOOLEAN]

ASSUME AsksAssumption == Asks \subseteq AllAsks
ASSUME EnvLevelAssumption == EnvLevel \in STRING

\* No LOG_LEVEL, or one that is no name in capitals, is INFO.
getLogLevel == IF EnvLevel \in LevelNames THEN EnvLevel ELSE "INFO"

VARIABLES
  ctxMap,              \* Ctx.ctxMap: the keys that have a context
  logLevel,            \* Logger.logLevel
  stage,               \* where each request is
  ask,                 \* what it asks for
  chain,               \* the middleware it still has to pass
  resp,                \* its http.ResponseWriter
  gone,                \* requests whose r.Context() is over: the client left
  late,                \* log-ins whose 100 ms are over
  before               \* history: the requests over when this one came

reqVars == <<stage, chain, resp>>
vars == <<ctxMap, logLevel, stage, ask, chain, resp, gone, late, before>>

Stages == {"none", "middleware", "handler", "body", "logIn", "dashBoard",
           "reply", "done", "aborted"}

\* status 0: nothing is written yet; header is still open, sent is what went
\* out with the status.
Writers == [status : {0, 200, 204, 400, 401, 500, 504},
            header : SUBSET {"Token"}, sent : SUBSET {"Token"},
            body : Seq({"page", "error", "level"})]

NewWriter == [status |-> 0, header |-> {}, sent |-> {}, body |-> <<>>]

NoAsk == [route |-> "none", what |-> "nothing", token |-> FALSE]

TypeOK ==
  /\ ctxMap \subseteq {"Token"}
  /\ logLevel \in LevelNames
  /\ stage \in [Requests -> Stages]
  /\ ask \in [Requests -> Asks \cup {NoAsk}]
  /\ chain \in [Requests -> Seq({"RequestValidation", "Auth"})]
  /\ resp \in [Requests -> Writers]
  /\ gone \subseteq Requests /\ late \subseteq Requests
  /\ before \in [Requests -> SUBSET Requests]

Init ==
  /\ ctxMap = {}
  /\ logLevel = getLogLevel
  /\ stage = [r \in Requests |-> "none"]
  /\ ask = [r \in Requests |-> NoAsk]
  /\ chain = [r \in Requests |-> <<>>]
  /\ resp = [r \in Requests |-> NewWriter]
  /\ gone = {}
  /\ late = {}
  /\ before = [r \in Requests |-> {}]

-----------------------------------------------------------------------------
(* http.ResponseWriter: the first status counts and closes the header.     *)

WriteHeader(w, code) ==
  IF w.status = 0 THEN [w EXCEPT !.status = code, !.sent = w.header] ELSE w

Write(w, text) ==
  LET v == WriteHeader(w, 200) IN [v EXCEPT !.body = Append(@, text)]

Set(w, key) == [w EXCEPT !.header = @ \cup {key}]

\* BuildHttpError, marshalled, below its status.
WriteError(w, code) == Write(WriteHeader(w, code), "error")

-----------------------------------------------------------------------------
(* Server.Handler and the middleware.                                      *)

MiddleWareOf(route) ==
  CASE route = "/api/v1/"    -> <<"RequestValidation", "Auth">>
    [] route = "/dash-board" -> <<"Auth">>
    [] OTHER                 -> <<>>

\* The mux has found the route.
Arrive(r, a) ==
  /\ stage[r] = "none"
  /\ ask' = [ask EXCEPT ![r] = a]
  /\ stage' = [stage EXCEPT ![r] = "middleware"]
  /\ chain' = [chain EXCEPT ![r] = MiddleWareOf(a.route)]
  /\ before' = [before EXCEPT ![r] = {s \in Requests : stage[s] \in {"done", "aborted"}}]
  /\ UNCHANGED <<ctxMap, logLevel, resp, gone, late>>

GetCtxValue(key) == key \in ctxMap

\* Mutant of AuthSets: the token is kept before anything is checked.
AuthSetsFirst(r) == ask[r].token

\* Auth's two ways out: with no token in the process's context everybody
\* passes; with one, only a request whose cookie bears it, and sets it again.
AuthError(r) == GetCtxValue("Token") /\ ~ask[r].token
AuthSets(r)  == GetCtxValue("Token") /\ ask[r].token

\* RequestValidation does nothing.  An error of Auth ends the request.
PassMiddleWare(r) ==
  /\ stage[r] = "middleware" /\ chain[r] # <<>>
  /\ LET auth   == Head(chain[r]) = "Auth"
         failed == auth /\ AuthError(r)
     IN /\ chain' = [chain EXCEPT ![r] = IF failed THEN <<>> ELSE Tail(@)]
        /\ stage' = [stage EXCEPT ![r] = IF failed THEN "done" ELSE @]
        /\ resp' = [resp EXCEPT ![r] = IF failed THEN WriteError(@, 401) ELSE @]
        /\ ctxMap' = IF auth /\ AuthSets(r) THEN ctxMap \cup {"Token"} ELSE ctxMap
  /\ UNCHANGED <<logLevel, ask, gone, late, before>>

EnterHandler(r) ==
  /\ stage[r] = "middleware" /\ chain[r] = <<>>
  /\ stage' = [stage EXCEPT ![r] = "handler"]
  /\ UNCHANGED <<ctxMap, logLevel, ask, chain, resp, gone, late, before>>

-----------------------------------------------------------------------------
(* The handlers.                                                           *)

\* A handler is entered for the route, and the API's for the event.
Handles(r, route, what) ==
  stage[r] = "handler" /\ ask[r].route = route /\ ask[r].what \in what

\* It goes on to a stage with its writer in the given state.
Proceed(r, next, writer) ==
  /\ stage' = [stage EXCEPT ![r] = next]
  /\ resp' = [resp EXCEPT ![r] = writer]
  /\ UNCHANGED <<ask, chain, gone, late, before>>

Unshared == UNCHANGED <<ctxMap, logLevel>>

\* Mutant of RenderFails: the page is rendered under the log-in's deadline.
RenderFailsLate(r) == r \in gone \/ r \in late

\* templ renders under r.Context() and fails when that is over.
RenderFails(r) == r \in gone

\* RenderView, with onError: http.Error's status comes too late for a handler
\* that has written one.
RenderView(r, w) == IF RenderFails(r) THEN WriteError(w, 500) ELSE Write(w, "page")

\* ping
Health(r) ==
  /\ Handles(r, "/health", {"nothing"})
  /\ Proceed(r, "done", WriteHeader(resp[r], 200))
  /\ Unshared

Page(r) ==
  /\ Handles(r, "/", {"nothing"}) \/ Handles(r, "/dash-board", {"nothing"})
  /\ Proceed(r, "done", RenderView(r, resp[r]))
  /\ Unshared

\* ProcessRequests: the events without a body; net/http writes the 200.
IdleEvent(r) ==
  /\ Handles(r, "/api/v1/", {"dashBoard", "getPosts", "getUsers"})
  /\ Proceed(r, "done", WriteHeader(resp[r], 200))
  /\ Unshared

\* ProcessRequests' default.
UnknownEvent(r) ==
  /\ Handles(r, "/api/v1/", {"other"})
  /\ Proceed(r, "done", RenderView(r, WriteHeader(resp[r], 200)))
  /\ Unshared

\* setLogLevel reads the body to its end, for as long as the client takes: the
\* server has no ReadTimeout.
ReadBody(r) ==
  /\ Handles(r, "/log-level", Bodies \ {"unreadable"})
  /\ Proceed(r, "body", resp[r])
  /\ Unshared

\* Its first refusal, which a client that leaves before the end meets too.
ReadFails(r) ==
  /\ Handles(r, "/log-level", Bodies)
  /\ ask[r].what = "unreadable" \/ r \in gone
  /\ Proceed(r, "done", WriteError(resp[r], 400))
  /\ Unshared

\* The other two.
RefuseLogLevel(r) ==
  /\ stage[r] = "body"
  /\ ask[r].what \in {"malformed", "empty"}
  /\ Proceed(r, "done", WriteError(resp[r], 400))
  /\ Unshared

\* Mutants of LevelAfter: any level is taken; an unknown one means INFO, as it
\* does in the environment.
LevelAsAsked(level) == level

LevelOrInfo(level) == IF level \in LevelNames THEN level ELSE "INFO"

\* Logger.SetLogLevel, which takes the names in any case, logs an error for an
\* unknown level and keeps its own.
LevelAfter(level) == IF level \in LevelNames THEN level ELSE logLevel

SetLogLevel(r) ==
  /\ stage[r] = "body"
  /\ ask[r].what \in {"unknown"} \cup LevelNames
  /\ logLevel' = LevelAfter(ask[r].what)
  /\ Proceed(r, "reply", resp[r])
  /\ UNCHANGED ctxMap

\* LogLevelResponse: success and the level asked for, whatever became of it.
ReplyLogLevel(r) ==
  /\ stage[r] = "reply"
  /\ Proceed(r, "done", Write(WriteHeader(resp[r], 200), "level"))
  /\ Unshared

-----------------------------------------------------------------------------
(* handleLogIn.                                                            *)

\* The request does not marshal, and nothing is published.
LogInFails(r) ==
  /\ Handles(r, "/api/v1/", {"logIn"})
  /\ Proceed(r, "done", WriteError(resp[r], 500))
  /\ Unshared

LogIn(r) ==
  /\ Handles(r, "/api/v1/", {"logIn"})
  /\ Proceed(r, "logIn", resp[r])
  /\ Unshared

\* Mutant of DashBoardWriter: the cookie comes after the status.
CookieAfterStatus(w) == Set(WriteHeader(w, 200), "Token")

\* SetCookies, then the status: the header goes out with it.
DashBoardWriter(w) == WriteHeader(Set(w, "Token"), 200)

LogInAnswered(r) ==
  /\ stage[r] = "logIn"
  /\ Proceed(r, "dashBoard", DashBoardWriter(resp[r]))
  /\ Unshared

\* RenderView has the request's context, not the one with the deadline.
ShowDashBoard(r) ==
  /\ stage[r] = "dashBoard"
  /\ Proceed(r, "done", RenderView(r, resp[r]))
  /\ Unshared

LogInTimesOut(r) ==
  /\ stage[r] = "logIn"
  /\ r \in late \cup gone
  /\ Proceed(r, "done", WriteError(resp[r], 504))
  /\ Unshared

\* CheckTransportResponseForErrors returns an error, which it does only if the
\* error's own body does not marshal: the status goes out without one.
LogInRefused(r) ==
  /\ stage[r] = "logIn"
  /\ \E code \in {500, 504} : Proceed(r, "done", WriteHeader(resp[r], code))
  /\ Unshared

\* The answer is no list of users: 204, below which net/http takes no body.
LogInUnreadable(r) ==
  /\ stage[r] = "logIn"
  /\ Proceed(r, "done", WriteHeader(resp[r], 204))
  /\ Unshared

\* The panic after a failed call: net/http drops the connection.
LogInAborts(r) ==
  /\ stage[r] = "logIn"
  /\ Proceed(r, "aborted", resp[r])
  /\ Unshared

-----------------------------------------------------------------------------

ClientLeaves(r) ==
  /\ stage[r] \notin {"none", "done", "aborted"}
  /\ r \notin gone
  /\ gone' = gone \cup {r}
  /\ UNCHANGED <<ctxMap, logLevel, reqVars, ask, late, before>>

DeadlinePasses(r) ==
  /\ stage[r] \in {"logIn", "dashBoard"}
  /\ r \notin late
  /\ late' = late \cup {r}
  /\ UNCHANGED <<ctxMap, logLevel, reqVars, ask, gone, before>>

\* What the goroutine of a request does.
Step(r) ==
  \/ PassMiddleWare(r) \/ EnterHandler(r)
  \/ Health(r) \/ Page(r) \/ IdleEvent(r) \/ UnknownEvent(r)
  \/ ReadBody(r) \/ ReadFails(r)
  \/ RefuseLogLevel(r) \/ SetLogLevel(r) \/ ReplyLogLevel(r)
  \/ LogInFails(r) \/ LogIn(r) \/ LogInAnswered(r) \/ ShowDashBoard(r)
  \/ LogInTimesOut(r) \/ LogInRefused(r) \/ LogInUnreadable(r) \/ LogInAborts(r)

Next ==
  \E r \in Requests :
    \/ \E a \in Asks : Arrive(r, a)
    \/ Step(r)
    \/ ClientLeaves(r) \/ DeadlinePasses(r)

\* Nothing says that a body comes, or that PublishWithResponse comes back.
Spec == Init /\ [][Next]_vars

-----------------------------------------------------------------------------
(* What must hold.                                                         *)

\* The context map that all requests share is never written while the process
\* runs: its unlocked readers GetCtx and WithTimeout (httpServer.go:46-53 and
\* 74-83) meet no writer, and no request is turned away for what another one
\* has put there (middleWare.go:69-83).
CtxStaysEmpty ==
  /\ ctxMap = {}
  /\ \A r \in Requests : resp[r].status # 401

AsksForPage(r) ==
  \/ ask[r].route \in {"/", "/dash-board"}
  \/ ask[r].route = "/api/v1/" /\ ask[r].what = "other"

\* A browser that stays gets its page in full and with status 200, a slow
\* log-in's dashboard too: no deadline and no error page cuts into it
\* (handlers.go:117 and 194-197, renderers.go:11-29).
PagesAreWhole ==
  \A r \in Requests :
    /\ stage[r] = "done"
    /\ r \notin gone
    /\ AsksForPage(r) \/ resp[r].sent # {}
    => resp[r].status = 200 /\ resp[r].body = <<"page">>

\* The Token cookie goes out with the dashboard of a log-in, and with nothing
\* else: not with a timeout, and not too late for the header
\* (handlers.go:160-165 and 194-197, httpServer.go:105-120).
CookieComesWithDashBoard ==
  \A r \in Requests : stage[r] = "done" =>
    (resp[r].sent = {"Token"}
       <=> ask[r].what = "logIn" /\ resp[r].status = 200)

SetsLevel(r) ==
  ask[r].route = "/log-level" /\ ask[r].what \in LevelNames

\* A request for a known level that was granted, and that no other such
\* request overlapped or followed, is what the logger goes by: requests that
\* were refused, or named no known level, change nothing, whenever they come
\* (httpServer.go:264-305, logger.go:265-280).
LastLevelHolds ==
  \A r \in Requests :
    /\ stage[r] = "done" /\ resp[r].status = 200
    /\ SetsLevel(r)
    /\ \A s \in Requests \ {r} : SetsLevel(s) => s \in before[r]
    => logLevel = ask[r].what

-----------------------------------------------------------------------------
(* The inductive invariant.                                                *)

\* What a handler has written is what its stage says, and a request is in the
\* stages of its own handler only.
WritersFollowStages ==
  \A r \in Requests :
    /\ stage[r] \in {"none", "middleware", "handler", "body", "logIn", "reply"} =>
         resp[r] = NewWriter
    /\ stage[r] = "dashBoard" => resp[r] = DashBoardWriter(NewWriter)
    /\ stage[r] \in {"logIn", "dashBoard"} => ask[r].what = "logIn"
    /\ stage[r] \in {"body", "reply"} =>
         ask[r].route = "/log-level" /\ ask[r].what # "logIn"

\* The requests that were over when another came are over for good.
BeforeIsOver ==
  \A r \in Requests : \A s \in before[r] : stage[s] \in {"done", "aborted"}

HasSet(r) ==
  /\ SetsLevel(r)
  /\ \/ stage[r] = "reply"
     \/ stage[r] = "done" /\ resp[r].status = 200

\* LastLevelHolds from the moment a level is set.
LevelIsOfLast ==
  \A r \in Requests :
    /\ HasSet(r)
    /\ \A s \in Requests \ {r} : HasSet(s) => s \in before[r]
    => logLevel = ask[r].what

IInv ==
  /\ TypeOK
  /\ CtxStaysEmpty
  /\ WritersFollowStages
  /\ PagesAreWhole
  /\ CookieComesWithDashBoard
  /\ BeforeIsOver
  /\ LevelIsOfLast
=============================================================================
