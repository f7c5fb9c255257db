--------------------------- MODULE MCHttpServer ----------------------------
(***************************************************************************)
(* HttpServer for TLC: every route and event, two known levels, and the    *)
(* token where Auth looks for it.  A cookie with another value, such as    *)
(* the one SetCookies gives, counts as none.                               *)
(***************************************************************************)
EXTENDS HttpServer

Ask(route, what, token) == [route |-> route, what |-> what, token |-> token]

MCAsks ==
  {Ask("/health", "nothing", FALSE), Ask("/", "nothing", FALSE)}
  \cup {Ask("/dash-board", "nothing", t) : t \in BOOLEAN}
  \cup {Ask("/log-level", b, FALSE) :
          b \in {"unreadable", "malformed", "empty", "unknown", "DEBUG", "ERROR"}}
  \cup {Ask("/api/v1/", e, t) : e \in {"logIn", "getUsers", "other"}, t \in BOOLEAN}
=============================================================================
