-------------------------- MODULE HttpServerProofs --------------------------
(***************************************************************************)
(* Proofs about HttpServer, for any number of concurrent requests and any  *)
(* selection of what they ask for.                                         *)
(***************************************************************************)
EXTENDS HttpServer, TLAPS

-----------------------------------------------------------------------------
(* What handlers do to their http.ResponseWriter.                          *)

\* Nothing that a handler writes makes a writer of another kind.
LEMMA WriterTypes ==
  ASSUME NEW w \in Writers
  PROVE  /\ \A code \in {200, 204, 400, 401, 500, 504} :
              /\ WriteHeader(w, code) \in Writers
              /\ WriteError(w, code) \in Writers
         /\ Write(w, "page") \in Writers
         /\ Write(w, "level") \in Writers
         /\ DashBoardWriter(w) \in Writers
<1> DEFINE Status == {0, 200, 204, 400, 401, 500, 504}
           Header == SUBSET {"Token"}
           Body   == Seq({"page", "error", "level"})
<1>0. Writers = [status : Status, header : Header, sent : Header, body : Body]
  BY DEF Writers
<1>1. \A v \in Writers, code \in {200, 204, 400, 401, 500, 504} :
        WriteHeader(v, code) \in Writers
  <2> SUFFICES ASSUME NEW v \in Writers, NEW code \in {200, 204, 400, 401, 500, 504}
               PROVE  WriteHeader(v, code) \in Writers
    OBVIOUS
  <2>1. CASE v.status = 0
    <3>1. code \in Status
      OBVIOUS
    <3> HIDE DEF Status, Header, Body
    <3>2. v.header \in Header /\ v.body \in Body
      BY <1>0
    <3>3. WriteHeader(v, code) = [[v EXCEPT !.status = code] EXCEPT !.sent = v.header]
      BY <2>1 DEF WriteHeader
    <3> DEFINE u == [v EXCEPT !.status = code]
    <3>4. u \in Writers
      BY <1>0, <3>1
    <3> HIDE DEF u
    <3>5. [u EXCEPT !.sent = v.header] \in Writers
      BY <1>0, <3>2, <3>4
    <3> QED BY <3>3, <3>5 DEF u
  <2>2. CASE v.status # 0
    BY <2>2 DEF WriteHeader
  <2> QED BY <2>1, <2>2
<1>2. \A v \in Writers, text \in {"page", "error", "level"} :
        Write(v, text) \in Writers
  <2> SUFFICES ASSUME NEW v \in Writers, NEW text \in {"page", "error", "level"}
               PROVE  Write(v, text) \in Writers
    OBVIOUS
  <2> DEFINE u == WriteHeader(v, 200)
  <2>1. u \in Writers
    BY <1>1
  <2>2. Write(v, text) = [u EXCEPT !.body = Append(u.body, text)]
    BY DEF Write
  <2> HIDE DEF u
  <2>3. u.body \in Body
    BY <1>0, <2>1
  <2>4. Append(u.body, text) \in Body
    BY <2>3
  <2> HIDE DEF Status, Header, Body
  <2> QED BY <1>0, <2>1, <2>2, <2>4
<1>3. Set(w, "Token") \in Writers
  BY DEF Writers, Set
<1> QED BY <1>1, <1>2, <1>3 DEF WriteError, DashBoardWriter

\* Pages and errors on a writer nobody has written to.
LEMMA FirstWrite ==
  /\ NewWriter \in Writers
  /\ NewWriter.status = 0 /\ NewWriter.sent = {}
  /\ LET w == Write(NewWriter, "page")
     IN w.status = 200 /\ w.sent = {} /\ w.body = <<"page">>
  /\ LET w == WriteHeader(NewWriter, 200)
     IN w.status = 200 /\ w.sent = {}
  /\ LET w == Write(WriteHeader(NewWriter, 200), "page")
     IN w.status = 200 /\ w.sent = {} /\ w.body = <<"page">>
  /\ LET w == Write(WriteHeader(NewWriter, 200), "level")
     IN w.status = 200 /\ w.sent = {}
  /\ \A code \in {400, 401, 500, 504} :
       LET w == WriteError(NewWriter, code) IN w.status = code /\ w.sent = {}
  /\ LET w == WriteError(WriteHeader(NewWriter, 200), 500)
     IN w.status = 200 /\ w.sent = {}
BY DEF NewWriter, Writers, Write, WriteHeader, WriteError

\* The dashboard's writer has its cookie in the header that went out, and
\* keeps its status whatever comes after.
LEMMA DashBoardWrite ==
  LET d == DashBoardWriter(NewWriter)
  IN /\ d \in Writers
     /\ d.status = 200 /\ d.sent = {"Token"}
     /\ Write(d, "page").status = 200
     /\ Write(d, "page").sent = {"Token"}
     /\ Write(d, "page").body = <<"page">>
     /\ WriteError(d, 500).status = 200
     /\ WriteError(d, 500).sent = {"Token"}
<1> DEFINE d == DashBoardWriter(NewWriter)
<1>1. d = [status |-> 200, header |-> {"Token"}, sent |-> {"Token"}, body |-> <<>>]
  BY DEF DashBoardWriter, Set, NewWriter, WriteHeader
<1> HIDE DEF d
<1>2. d \in Writers
  BY <1>1 DEF Writers
<1>3. Write(d, "page").status = 200 /\ Write(d, "page").sent = {"Token"}
      /\ Write(d, "page").body = <<"page">>
  BY <1>1 DEF Write, WriteHeader
<1>4. WriteError(d, 500).status = 200 /\ WriteError(d, 500).sent = {"Token"}
  BY <1>1 DEF WriteError, Write, WriteHeader
<1> QED BY <1>1, <1>2, <1>3, <1>4 DEF d

-----------------------------------------------------------------------------
(* The inductive invariant.                                                *)

\* Before the first request nothing is written, and no level is asked for.
LEMMA InitIInv == Init => IInv
<1> SUFFICES ASSUME Init PROVE IInv
  OBVIOUS
<1>1. TypeOK
  <2>1. resp \in [Requests -> Writers]
    BY FirstWrite DEF Init
  <2>2. stage \in [Requests -> Stages]
    BY DEF Init, Stages
  <2>3. ask \in [Requests -> Asks \cup {NoAsk}]
    BY DEF Init
  <2>4. chain \in [Requests -> Seq({"RequestValidation", "Auth"})]
    BY DEF Init
  <2>5. logLevel \in LevelNames
    BY DEF Init, getLogLevel, LevelNames
  <2> QED BY <2>1, <2>2, <2>3, <2>4, <2>5 DEF Init, TypeOK
<1>2. CtxStaysEmpty
  BY FirstWrite DEF Init, CtxStaysEmpty
<1>3. WritersFollowStages
  BY DEF Init, WritersFollowStages
<1>4. PagesAreWhole /\ CookieComesWithDashBoard
  BY DEF Init, PagesAreWhole, CookieComesWithDashBoard
<1>5. BeforeIsOver /\ LevelIsOfLast
  BY DEF Init, BeforeIsOver, LevelIsOfLast, HasSet
<1> QED BY <1>1, <1>2, <1>3, <1>4, <1>5 DEF IInv

\* A step that leaves a request as far from setting the level, or as near.
Unheard(r, next, w) ==
  \/ stage[r] = "reply" /\ next = "done" /\ w.status = 200
  \/ stage[r] = "handler" /\ next = "body"
  \/ stage[r] = "handler" /\ next = "done" /\ w.status # 200

\* A handler's step keeps the invariant if what it writes fits the stage it
\* goes on to, and if it sets the level only when the request is one for it.
LEMMA ProceedKeeps ==
  ASSUME IInv, NEW r \in Requests, NEW w \in Writers,
         NEW next \in {"body", "logIn", "dashBoard", "reply", "done", "aborted"},
         Proceed(r, next, w),
         ctxMap' = ctxMap,
         stage[r] \in {"handler", "body", "logIn", "dashBoard", "reply"},
         w.status # 401,
         next \in {"body", "logIn", "reply"} => w = NewWriter,
         next = "dashBoard" => w = DashBoardWriter(NewWriter),
         next \in {"logIn", "dashBoard"} => ask[r].what = "logIn",
         next \in {"body", "reply"} =>
           ask[r].route = "/log-level" /\ ask[r].what # "logIn",
         next = "done" =>
           /\ r \notin gone /\ (AsksForPage(r) \/ w.sent # {}) =>
                w.status = 200 /\ w.body = <<"page">>
           /\ w.sent = {"Token"} <=> ask[r].what = "logIn" /\ w.status = 200,
         \/ ~SetsLevel(r) /\ logLevel' = logLevel
         \/ SetsLevel(r) /\ Unheard(r, next, w) /\ logLevel' = logLevel
         \/ SetsLevel(r) /\ next = "reply" /\ logLevel' = ask[r].what
  PROVE  IInv'
<1> USE DEF Proceed
<1>0. /\ stage' = [stage EXCEPT ![r] = next] /\ stage \in [Requests -> Stages]
      /\ resp' = [resp EXCEPT ![r] = w] /\ resp \in [Requests -> Writers]
      /\ UNCHANGED <<ask, chain, gone, late, before>>
  BY DEF IInv, TypeOK
<1>1. TypeOK'
  <2>1. logLevel' \in LevelNames
    BY DEF IInv, TypeOK, SetsLevel
  <2>2. next \in Stages
    BY DEF Stages
  <2> QED BY <1>0, <2>1, <2>2 DEF IInv, TypeOK
<1>2. CtxStaysEmpty'
  BY <1>0 DEF IInv, CtxStaysEmpty
<1>3. WritersFollowStages'
  BY <1>0 DEF IInv, WritersFollowStages
<1>4. PagesAreWhole'
  BY <1>0 DEF IInv, PagesAreWhole, AsksForPage
<1>5. CookieComesWithDashBoard'
  BY <1>0 DEF IInv, CookieComesWithDashBoard
<1>6. BeforeIsOver'
  BY <1>0 DEF IInv, BeforeIsOver, TypeOK
<1>7. LevelIsOfLast'
  <2>1. CASE \/ ~SetsLevel(r) /\ logLevel' = logLevel
             \/ SetsLevel(r) /\ Unheard(r, next, w) /\ logLevel' = logLevel
    <3>1. \A s \in Requests : HasSet(s)' <=> HasSet(s)
      BY <1>0, <2>1 DEF HasSet, SetsLevel, Unheard
    <3> QED BY <1>0, <2>1, <3>1 DEF IInv, LevelIsOfLast
  <2>2. CASE SetsLevel(r) /\ next = "reply" /\ logLevel' = ask[r].what
    <3>1. HasSet(r)'
      BY <1>0, <2>2 DEF HasSet, SetsLevel
    <3>2. \A q \in Requests : r \notin before[q]
      BY DEF IInv, BeforeIsOver
    <3> QED BY <1>0, <2>2, <3>1, <3>2 DEF LevelIsOfLast
  <2> QED BY <2>1, <2>2
<1> QED BY <1>1, <1>2, <1>3, <1>4, <1>5, <1>6, <1>7 DEF IInv

\* A level is set by no request that names another kind of body or route.
LEMMA NoLevelAskedFor ==
  ASSUME NEW r \in Requests,
         \/ ask[r].route # "/log-level"
         \/ ask[r].what \in {"unreadable", "malformed", "empty", "unknown"}
  PROVE  ~SetsLevel(r)
BY DEF SetsLevel, LevelNames

\* A log-in names no level and asks for no page but the dashboard.
LEMMA NoLogInLevel == "logIn" \notin LevelNames
BY DEF LevelNames

LEMMA NoLogInPage ==
  ASSUME IInv, NEW r \in Requests, ask[r].what = "logIn"
  PROVE  ~AsksForPage(r)
<1>1. ask[r] \in Asks \cup {NoAsk}
  BY DEF IInv, TypeOK
<1>2. \A a \in AllAsks : a.route \in {"/", "/dash-board"} => a.what = "nothing"
  BY DEF AllAsks
<1> QED BY <1>1, <1>2, AsksAssumption DEF AsksForPage, NoAsk

\* Every step of a handler is one of ProceedKeeps.
LEMMA HandlerKeeps ==
  ASSUME IInv, NEW r \in Requests,
         \/ Health(r) \/ Page(r) \/ IdleEvent(r) \/ UnknownEvent(r)
         \/ ReadBody(r) \/ ReadFails(r)
         \/ RefuseLogLevel(r) \/ SetLogLevel(r) \/ ReplyLogLevel(r)
         \/ LogInFails(r) \/ LogIn(r) \/ LogInAnswered(r) \/ ShowDashBoard(r)
         \/ LogInTimesOut(r) \/ LogInRefused(r) \/ LogInUnreadable(r)
         \/ LogInAborts(r)
  PROVE  IInv'
<1> USE FirstWrite, DashBoardWrite DEF Handles, Unshared
<1>0. /\ stage[r] \in {"handler", "body", "logIn", "reply"} => resp[r] = NewWriter
      /\ stage[r] = "dashBoard" => resp[r] = DashBoardWriter(NewWriter)
      /\ stage[r] \in {"logIn", "dashBoard"} => ask[r].what = "logIn"
      /\ stage[r] \in {"body", "reply"} =>
           ask[r].route = "/log-level" /\ ask[r].what # "logIn"
  BY DEF IInv, WritersFollowStages
<1>1. \A w \in Writers : /\ WriteHeader(w, 200) \in Writers
                         /\ WriteHeader(w, 204) \in Writers
                         /\ WriteHeader(w, 500) \in Writers
                         /\ WriteHeader(w, 504) \in Writers
                         /\ WriteError(w, 400) \in Writers
                         /\ WriteError(w, 500) \in Writers
                         /\ WriteError(w, 504) \in Writers
                         /\ Write(w, "page") \in Writers
                         /\ Write(w, "level") \in Writers
                         /\ DashBoardWriter(w) \in Writers
  BY WriterTypes
<1>2. CASE Health(r)
  <2> DEFINE w == WriteHeader(NewWriter, 200)
  <2>1. w \in Writers /\ w.status = 200 /\ w.sent = {}
    BY <1>1
  <2>2. Proceed(r, "done", w) /\ stage[r] = "handler" /\ ask[r].route = "/health"
        /\ ask[r].what = "nothing"
    BY <1>0, <1>2 DEF Health
  <2>3. ~SetsLevel(r) /\ ~AsksForPage(r)
    BY <2>2 DEF SetsLevel, AsksForPage
  <2> HIDE DEF w
  <2> QED BY <1>2, <2>1, <2>2, <2>3, ProceedKeeps DEF Health
<1>3. CASE Page(r)
  <2> DEFINE w == RenderView(r, NewWriter)
  <2>1. w \in Writers /\ w.sent = {} /\ w.status # 401
        /\ (r \notin gone => w.status = 200 /\ w.body = <<"page">>)
    BY <1>1 DEF RenderView, RenderFails
  <2>2. Proceed(r, "done", w) /\ stage[r] = "handler" /\ ask[r].what = "nothing"
        /\ ask[r].route # "/log-level"
    BY <1>0, <1>3 DEF Page
  <2>3. ~SetsLevel(r)
    BY <2>2 DEF SetsLevel
  <2> HIDE DEF w
  <2> QED BY <1>3, <2>1, <2>2, <2>3, ProceedKeeps DEF Page
<1>4. CASE IdleEvent(r)
  <2> DEFINE w == WriteHeader(NewWriter, 200)
  <2>1. w \in Writers /\ w.status = 200 /\ w.sent = {}
    BY <1>1
  <2>2. Proceed(r, "done", w) /\ stage[r] = "handler" /\ ask[r].route = "/api/v1/"
        /\ ask[r].what \notin {"logIn", "other"}
    BY <1>0, <1>4 DEF IdleEvent
  <2>3. ~SetsLevel(r) /\ ~AsksForPage(r)
    BY <2>2 DEF SetsLevel, AsksForPage
  <2> HIDE DEF w
  <2> QED BY <1>4, <2>1, <2>2, <2>3, ProceedKeeps DEF IdleEvent
<1>5. CASE UnknownEvent(r)
  <2> DEFINE v == WriteHeader(NewWriter, 200)
             w == RenderView(r, v)
  <2>1. w \in Writers /\ w.sent = {} /\ w.status = 200
        /\ (r \notin gone => w.body = <<"page">>)
    BY <1>1 DEF RenderView, RenderFails
  <2>2. Proceed(r, "done", w) /\ stage[r] = "handler" /\ ask[r].what = "other"
        /\ ask[r].route # "/log-level"
    BY <1>0, <1>5 DEF UnknownEvent
  <2>3. ~SetsLevel(r)
    BY <2>2 DEF SetsLevel
  <2> HIDE DEF v, w
  <2> QED BY <1>5, <2>1, <2>2, <2>3, ProceedKeeps DEF UnknownEvent
<1>6. CASE RefuseLogLevel(r)
  <2> DEFINE w == WriteError(NewWriter, 400)
  <2>1. w \in Writers /\ w.status = 400 /\ w.sent = {}
    BY <1>1
  <2>2. Proceed(r, "done", w) /\ stage[r] = "body" /\ ask[r].route = "/log-level"
        /\ ask[r].what \in {"malformed", "empty"}
    BY <1>0, <1>6 DEF RefuseLogLevel
  <2>3. ~SetsLevel(r) /\ ~AsksForPage(r)
    BY <2>2, NoLevelAskedFor DEF AsksForPage
  <2> HIDE DEF w
  <2> QED BY <1>6, <2>1, <2>2, <2>3, ProceedKeeps DEF RefuseLogLevel
<1>7. CASE SetLogLevel(r)
  <2>1. Proceed(r, "reply", NewWriter) /\ stage[r] = "body"
        /\ ask[r].route = "/log-level" /\ ask[r].what \in {"unknown"} \cup LevelNames
    BY <1>0, <1>7 DEF SetLogLevel
  <2>0. ask[r].what # "logIn"
    BY <2>1 DEF LevelNames
  <2>2. \/ ~SetsLevel(r) /\ logLevel' = logLevel
        \/ SetsLevel(r) /\ logLevel' = ask[r].what
    BY <1>7, <2>1 DEF SetLogLevel, LevelAfter, SetsLevel
  <2> QED BY <1>7, <2>0, <2>1, <2>2, ProceedKeeps DEF SetLogLevel
<1>8. CASE ReplyLogLevel(r)
  <2> DEFINE w == Write(WriteHeader(NewWriter, 200), "level")
  <2>1. w \in Writers /\ w.status = 200 /\ w.sent = {}
    BY <1>1
  <2>2. Proceed(r, "done", w) /\ stage[r] = "reply" /\ ask[r].route = "/log-level"
    BY <1>0, <1>8 DEF ReplyLogLevel
  <2>3. ~AsksForPage(r)
    BY <2>2 DEF AsksForPage
  <2>4. ask[r].what # "logIn"
    BY <1>0, <2>2
  <2>5. Unheard(r, "done", w)
    BY <2>1, <2>2 DEF Unheard
  <2> HIDE DEF w
  <2> QED BY <1>8, <2>1, <2>2, <2>3, <2>4, <2>5, ProceedKeeps DEF ReplyLogLevel
<1>9. CASE LogIn(r)
  <2>1. Proceed(r, "logIn", NewWriter) /\ stage[r] = "handler"
        /\ ask[r].route = "/api/v1/" /\ ask[r].what = "logIn"
    BY <1>0, <1>9 DEF LogIn
  <2>2. ~SetsLevel(r)
    BY <2>1 DEF SetsLevel
  <2> QED BY <1>9, <2>1, <2>2, ProceedKeeps DEF LogIn
<1>11. CASE LogInFails(r)
  <2> DEFINE w == WriteError(NewWriter, 500)
  <2>1. w \in Writers /\ w.status = 500 /\ w.sent = {}
    BY <1>1
  <2>2. Proceed(r, "done", w) /\ stage[r] = "handler"
        /\ ask[r].route = "/api/v1/" /\ ask[r].what = "logIn"
    BY <1>0, <1>11 DEF LogInFails
  <2>3. ~SetsLevel(r) /\ ~AsksForPage(r)
    BY <2>2, NoLogInPage DEF SetsLevel
  <2> HIDE DEF w
  <2> QED BY <1>11, <2>1, <2>2, <2>3, ProceedKeeps DEF LogInFails
<1>12. CASE ReadBody(r)
  <2>1. Proceed(r, "body", NewWriter) /\ stage[r] = "handler"
        /\ ask[r].route = "/log-level" /\ ask[r].what \in Bodies
    BY <1>0, <1>12 DEF ReadBody
  <2>2. ask[r].what # "logIn"
    BY <2>1 DEF Bodies, LevelNames
  <2>3. Unheard(r, "body", NewWriter)
    BY <2>1 DEF Unheard
  <2> QED BY <1>12, <2>1, <2>2, <2>3, ProceedKeeps DEF ReadBody
<1>13. CASE ReadFails(r)
  <2> DEFINE w == WriteError(NewWriter, 400)
  <2>1. w \in Writers /\ w.status = 400 /\ w.sent = {}
    BY <1>1
  <2>2. Proceed(r, "done", w) /\ stage[r] = "handler" /\ ask[r].route = "/log-level"
        /\ ask[r].what \in Bodies
    BY <1>0, <1>13 DEF ReadFails
  <2>3. ~AsksForPage(r) /\ ask[r].what # "logIn"
    BY <2>2 DEF AsksForPage, Bodies, LevelNames
  <2>4. Unheard(r, "done", w)
    BY <2>1, <2>2 DEF Unheard
  <2> HIDE DEF w
  <2> QED BY <1>13, <2>1, <2>2, <2>3, <2>4, ProceedKeeps DEF ReadFails
<1>10. CASE stage[r] \in {"logIn", "dashBoard"} /\ Unshared
  <2>1. ~SetsLevel(r)
    BY <1>0, <1>10, NoLogInLevel DEF SetsLevel
  <2>2. CASE LogInAnswered(r)
    <3> DEFINE d == DashBoardWriter(NewWriter)
    <3>1. Proceed(r, "dashBoard", d) /\ d \in Writers /\ d.status = 200
      BY <1>0, <1>1, <2>2 DEF LogInAnswered
    <3> HIDE DEF d
    <3> QED BY <1>0, <1>10, <2>1, <3>1, ProceedKeeps DEF d
  <2>3. CASE ShowDashBoard(r)
    <3> DEFINE w == RenderView(r, DashBoardWriter(NewWriter))
    <3>1. w \in Writers /\ w.sent = {"Token"} /\ w.status = 200
          /\ (r \notin gone => w.body = <<"page">>)
      BY <1>1 DEF RenderView, RenderFails
    <3>2. Proceed(r, "done", w) /\ stage[r] = "dashBoard"
      BY <1>0, <2>3 DEF ShowDashBoard
    <3> HIDE DEF w
    <3> QED BY <1>0, <1>10, <2>1, <3>1, <3>2, ProceedKeeps
  <2>4. CASE LogInTimesOut(r)
    <3> DEFINE w == WriteError(NewWriter, 504)
    <3>1. w \in Writers /\ w.sent = {} /\ w.status = 504
      BY <1>1
    <3>2. Proceed(r, "done", w) /\ stage[r] = "logIn"
      BY <1>0, <2>4 DEF LogInTimesOut
    <3>3. ~AsksForPage(r)
      BY <1>0, <3>2, NoLogInPage
    <3> HIDE DEF w
    <3> QED BY <1>0, <1>10, <2>1, <3>1, <3>2, <3>3, ProceedKeeps
  <2>6. CASE LogInRefused(r) \/ LogInUnreadable(r)
    <3>1. PICK code \in {204, 500, 504} :
            Proceed(r, "done", WriteHeader(NewWriter, code)) /\ stage[r] = "logIn"
      BY <1>0, <2>6 DEF LogInRefused, LogInUnreadable
    <3> DEFINE w == WriteHeader(NewWriter, code)
    <3>2. w \in Writers /\ w.sent = {} /\ w.status = code
      <4>1. w \in Writers
        BY <1>1
      <4>2. w.sent = {}
        BY DEF WriteHeader, NewWriter
      <4>3. w.status = code
        BY DEF WriteHeader, NewWriter
      <4> QED BY <4>1, <4>2, <4>3
    <3>3. ~AsksForPage(r)
      BY <1>0, <3>1, NoLogInPage
    <3>4. Proceed(r, "done", w)
      BY <3>1
    <3> HIDE DEF w
    <3> QED BY <1>0, <1>10, <2>1, <3>1, <3>2, <3>3, <3>4, ProceedKeeps
  <2>5. CASE LogInAborts(r)
    <3>1. Proceed(r, "aborted", NewWriter) /\ stage[r] = "logIn"
      BY <1>0, <2>5 DEF LogInAborts
    <3> QED BY <1>0, <1>10, <2>1, <3>1, ProceedKeeps
  <2>7. stage[r] \in {"logIn", "dashBoard"}
    BY <1>10
  <2>8. CASE Health(r) \/ Page(r) \/ IdleEvent(r) \/ UnknownEvent(r)
             \/ ReadBody(r) \/ ReadFails(r) \/ LogInFails(r) \/ LogIn(r)
    BY <2>7, <2>8 DEF Health, Page, IdleEvent, UnknownEvent, ReadBody, ReadFails,
       LogInFails, LogIn
  <2>9. CASE RefuseLogLevel(r) \/ SetLogLevel(r) \/ ReplyLogLevel(r)
    BY <2>7, <2>9 DEF RefuseLogLevel, SetLogLevel, ReplyLogLevel
  <2> QED BY <2>2, <2>3, <2>4, <2>5, <2>6, <2>8, <2>9
<1> QED BY <1>2, <1>3, <1>4, <1>5, <1>6, <1>7, <1>8, <1>9, <1>10, <1>11, <1>12,
           <1>13 DEF LogInAnswered, ShowDashBoard, LogInTimesOut, LogInRefused,
           LogInUnreadable, LogInAborts

\* A request that comes, and one on its way through the middleware: Auth finds
\* no token in the process's context, so that it neither fails nor sets one.
LEMMA MiddleWareKeeps ==
  ASSUME IInv, NEW r \in Requests,
         \/ \E a \in Asks : Arrive(r, a)
         \/ PassMiddleWare(r)
         \/ EnterHandler(r)
  PROVE  IInv'
<1>0. TypeOK /\ stage[r] \in {"none", "middleware"} /\ resp[r] = NewWriter
  BY DEF IInv, WritersFollowStages, Arrive, PassMiddleWare, EnterHandler
<1>1. ~AuthError(r) /\ ~AuthSets(r)
  BY DEF IInv, CtxStaysEmpty, AuthError, AuthSets, GetCtxValue
<1>2. /\ UNCHANGED <<ctxMap, logLevel, resp, gone, late>>
      /\ \E st \in {"middleware", "handler"} : stage' = [stage EXCEPT ![r] = st]
      /\ \E a \in Asks \cup {ask[r]} : ask' = [ask EXCEPT ![r] = a]
      /\ chain' \in [Requests -> Seq({"RequestValidation", "Auth"})]
      /\ \E b \in SUBSET Requests :
           /\ before' = [before EXCEPT ![r] = b]
           /\ \A s \in b : s \in before[r] \/ stage[s] \in {"done", "aborted"}
  <2>1. ASSUME NEW a \in Asks, Arrive(r, a) PROVE <1>2
    <3>1. MiddleWareOf(a.route) \in Seq({"RequestValidation", "Auth"})
      <4>1. CASE a.route = "/api/v1/"
        BY <4>1 DEF MiddleWareOf
      <4>2. CASE a.route = "/dash-board"
        BY <4>2 DEF MiddleWareOf
      <4>3. CASE a.route \notin {"/api/v1/", "/dash-board"}
        <5>1. MiddleWareOf(a.route) = <<>>
          BY <4>3 DEF MiddleWareOf
        <5> QED BY <5>1
      <4> QED BY <4>1, <4>2, <4>3
    <3>2. chain' \in [Requests -> Seq({"RequestValidation", "Auth"})]
      BY <1>0, <2>1, <3>1 DEF Arrive, TypeOK
    <3> DEFINE over == {s \in Requests : stage[s] \in {"done", "aborted"}}
    <3>3. /\ UNCHANGED <<ctxMap, logLevel, resp, gone, late>>
          /\ stage' = [stage EXCEPT ![r] = "middleware"]
          /\ ask' = [ask EXCEPT ![r] = a]
          /\ before' = [before EXCEPT ![r] = over]
      BY <2>1 DEF Arrive
    <3>4. over \in SUBSET Requests /\ \A s \in over : stage[s] \in {"done", "aborted"}
      OBVIOUS
    <3> HIDE DEF over
    <3> QED BY <3>2, <3>3, <3>4
  <2>2. CASE PassMiddleWare(r)
    <3>0. chain[r] # <<>> /\ UNCHANGED <<logLevel, ask, gone, late, before>>
      BY <2>2 DEF PassMiddleWare
    <3>7. chain' = [chain EXCEPT ![r] = Tail(chain[r])]
      BY <1>1, <2>2 DEF PassMiddleWare
    <3>8. ctxMap' = ctxMap
      BY <1>1, <2>2 DEF PassMiddleWare
    <3>1. chain' = [chain EXCEPT ![r] = Tail(chain[r])] /\ chain[r] # <<>>
          /\ UNCHANGED <<ctxMap, logLevel, ask, gone, late, before>>
      BY <3>0, <3>7, <3>8
    <3>2. stage' = [stage EXCEPT ![r] = stage[r]] /\ stage[r] = "middleware"
      BY <1>1, <2>2 DEF PassMiddleWare
    <3>3. resp' = [resp EXCEPT ![r] = resp[r]]
      BY <1>1, <2>2 DEF PassMiddleWare
    <3>4. resp' = resp
      BY <1>0, <3>3 DEF TypeOK
    <3>5. Tail(chain[r]) \in Seq({"RequestValidation", "Auth"})
      BY <1>0, <3>1 DEF TypeOK
    <3>6. ask' = [ask EXCEPT ![r] = ask[r]] /\ before' = [before EXCEPT ![r] = before[r]]
          /\ before[r] \in SUBSET Requests
      BY <1>0, <3>1 DEF TypeOK
    <3> QED BY <1>0, <3>1, <3>2, <3>4, <3>5, <3>6 DEF TypeOK
  <2>3. CASE EnterHandler(r)
    <3>1. ask' = [ask EXCEPT ![r] = ask[r]] /\ before' = [before EXCEPT ![r] = before[r]]
          /\ before[r] \in SUBSET Requests
      BY <1>0, <2>3 DEF EnterHandler, TypeOK
    <3> QED BY <1>0, <2>3, <3>1 DEF EnterHandler, TypeOK
  <2> QED BY <2>1, <2>2, <2>3
<1>3. PICK st \in {"middleware", "handler"}, a \in Asks \cup {ask[r]},
           b \in SUBSET Requests :
        /\ stage' = [stage EXCEPT ![r] = st]
        /\ ask' = [ask EXCEPT ![r] = a]
        /\ before' = [before EXCEPT ![r] = b]
        /\ \A s \in b : s \in before[r] \/ stage[s] \in {"done", "aborted"}
  BY <1>2
<1>4. TypeOK'
  BY <1>0, <1>2, <1>3 DEF TypeOK, Stages
<1>5. CtxStaysEmpty' /\ WritersFollowStages'
  BY <1>0, <1>2, <1>3 DEF IInv, TypeOK, CtxStaysEmpty, WritersFollowStages
<1>6. PagesAreWhole' /\ CookieComesWithDashBoard'
  BY <1>0, <1>2, <1>3 DEF IInv, TypeOK, PagesAreWhole, AsksForPage,
     CookieComesWithDashBoard
<1>7. BeforeIsOver'
  BY <1>0, <1>3 DEF IInv, TypeOK, BeforeIsOver
<1>8. LevelIsOfLast'
  <2>1. ~HasSet(r) /\ ~HasSet(r)'
    BY <1>0, <1>2, <1>3 DEF HasSet, TypeOK
  <2>2. \A q \in Requests \ {r} : /\ HasSet(q)' <=> HasSet(q)
                                  /\ ask'[q] = ask[q]
                                  /\ before'[q] = before[q]
    BY <1>0, <1>2, <1>3 DEF HasSet, SetsLevel, TypeOK
  <2> QED BY <1>2, <2>1, <2>2 DEF IInv, LevelIsOfLast
<1> QED BY <1>4, <1>5, <1>6, <1>7, <1>8 DEF IInv

\* Clients leave before their request is over, deadlines decide nothing that
\* is written already.
LEMMA ContextsKeep ==
  ASSUME IInv,
         \/ \E r \in Requests : ClientLeaves(r) \/ DeadlinePasses(r)
         \/ UNCHANGED vars
  PROVE  IInv'
<1>0. /\ UNCHANGED <<ctxMap, logLevel, stage, ask, chain, resp, before>>
      /\ gone' \subseteq Requests /\ late' \subseteq Requests
      /\ gone \subseteq gone'
  BY DEF ClientLeaves, DeadlinePasses, vars, reqVars, IInv, TypeOK
<1>1. TypeOK' /\ CtxStaysEmpty' /\ WritersFollowStages'
  BY <1>0 DEF IInv, TypeOK, CtxStaysEmpty, WritersFollowStages
<1>2. PagesAreWhole' /\ CookieComesWithDashBoard'
  BY <1>0 DEF IInv, PagesAreWhole, AsksForPage, CookieComesWithDashBoard
<1>3. BeforeIsOver'
  BY <1>0 DEF IInv, BeforeIsOver
<1>4. LevelIsOfLast'
  BY <1>0 DEF IInv, LevelIsOfLast, HasSet, SetsLevel
<1> QED BY <1>1, <1>2, <1>3, <1>4 DEF IInv

LEMMA StepIInv == IInv /\ [Next]_vars => IInv'
BY HandlerKeeps, MiddleWareKeeps, ContextsKeep DEF Next, Step

\* The invariant holds of every reachable state of the server.
THEOREM Invariance == Spec => []IInv
BY InitIInv, StepIInv, PTL DEF Spec

-----------------------------------------------------------------------------
(* The results.                                                            *)

\* Every variable of the server keeps its type (httpServer.go:141-158 and
\* 211-306).
THEOREM TypeCorrect == Spec => []TypeOK
<1>1. IInv => TypeOK
  BY DEF IInv
<1> QED BY <1>1, Invariance, PTL

\* The process-wide context map is never written (middleWare.go:67-85).
THEOREM CtxNeverWritten == Spec => []CtxStaysEmpty
<1>1. IInv => CtxStaysEmpty
  BY DEF IInv
<1> QED BY <1>1, Invariance, PTL

\* A browser that stays gets its page in full (renderers.go:11-29).
THEOREM PagesComeWhole == Spec => []PagesAreWhole
<1>1. IInv => PagesAreWhole
  BY DEF IInv
<1> QED BY <1>1, Invariance, PTL

\* Cookie and dashboard come together (handlers.go:194-197).
THEOREM CookieWithDashBoard == Spec => []CookieComesWithDashBoard
<1>1. IInv => CookieComesWithDashBoard
  BY DEF IInv
<1> QED BY <1>1, Invariance, PTL

\* The level asked for last is the logger's (httpServer.go:264-305).
THEOREM LastLevelStays == Spec => []LastLevelHolds
<1>1. IInv => LastLevelHolds
  BY DEF IInv, LevelIsOfLast, HasSet, LastLevelHolds
<1> QED BY <1>1, Invariance, PTL
=============================================================================
