------------------------------- MODULE Logger -------------------------------
(***************************************************************************)
(* lib/logger/logger.go: every goroutine of a process logs through one     *)
(* Logger, whose single loggerMessage a call fills in (setLoggerData),     *)
(* marshals, writes and clears (writeToFile), with no lock around any of   *)
(* it.                                                                     *)
(*                                                                         *)
(* A string or an interface is two machine words, loaded and stored one    *)
(* after the other, so that a race can leave the halves of two values in   *)
(* one field: json.Marshal then takes whatever the build makes of it,      *)
(* refuses it or panics, which ends the call where net/http recovers it.   *)
(* The fields FileName and Method are treated as Message is, Time as Level *)
(* is, and Source never changes; they are left out.                        *)
(***************************************************************************)
EXTENDS Integers, Sequences, SequencesExt, FiniteSets

CONSTANTS
  Goroutines,
  Levels,              \* the levels in use, a set of numbers
  Inputs,              \* what a call may be given: a part of Payloads
  MaxCalls             \* bound: the calls one goroutine makes

ASSUME LevelsAssumption == Levels \subseteq Nat /\ 0 \in Levels
ASSUME MaxCallsAssumption == MaxCalls \in Nat

\* A call is named by its goroutine and its number there; the words a call
\* stores are named by the call.
CallIds == Goroutines \X (1..MaxCalls)
Empty == <<>>
Words == CallIds \cup {Empty}

\* What a call is given: its level, and a Message and a Value, each of them
\* missing, or taken or refused by json.Marshal: a Message that is not UTF-8, a
\* Value that is a channel.
Payloads == [level   : Levels,
             message : {"none", "good", "bad"},
             value   : {"none", "good", "bad"}]

ASSUME InputsAssumption == Inputs \subseteq Payloads

Fields == {"level", "message", "value"}

VARIABLES
  logLevel,            \* Logger.logLevel
  loggerMessage,       \* the shared struct: two words for each field
  payload,             \* what each call so far was given
  made,                \* how many calls each goroutine has begun
  todo,                \* the accesses left in each goroutine's call
  line,                \* the words a goroutine has marshalled
  file,                \* the log: the lines written, each with its call
  admitted,            \* history: the calls that passed the level
  met,                 \* history: the pairs of calls that were under way at once
  failed               \* the calls whose json.Marshal failed

vars == <<logLevel, loggerMessage, payload, made, todo, line, file, admitted,
          met, failed>>

NoLine == [f \in Fields |-> <<Empty, Empty>>]

Lines == [Fields -> Words \X Words]

TypeOK ==
  /\ logLevel \in Levels
  /\ loggerMessage \in Lines
  /\ DOMAIN payload \subseteq CallIds
  /\ \A c \in DOMAIN payload : payload[c] \in Inputs
  /\ made \in [Goroutines -> 0..MaxCalls]
  /\ DOMAIN todo = Goroutines
  /\ line \in [Goroutines -> Lines]
  /\ \A l \in file : l.call \in CallIds /\ l.line \in Lines
  /\ admitted \subseteq CallIds
  /\ met \subseteq SUBSET CallIds
  /\ failed \subseteq admitted

\* NewLogger, with createDir's file and getLogLevel's level.
Init ==
  /\ logLevel \in Levels
  /\ loggerMessage = NoLine
  /\ payload = <<>>
  /\ made = [g \in Goroutines |-> 0]
  /\ todo = [g \in Goroutines |-> <<>>]
  /\ line = [g \in Goroutines |-> NoLine]
  /\ file = {}
  /\ admitted = {}
  /\ met = {}
  /\ failed = {}

-----------------------------------------------------------------------------
(* What a call does to the struct, word by word.                           *)

Store(f, w) == << <<"store", f, 1, w>>, <<"store", f, 2, w>> >>
Load(f)     == << <<"load", f, 1>>, <<"load", f, 2>> >>
When(b, s)  == IF b THEN s ELSE <<>>

\* Mutants of SetLoggerData: a Value takes the Message's place; a payload with
\* nothing in it sets nothing.
SetOneOfThem(c, p) ==
  Store("level", c)
  \o IF p.value # "none" THEN Store("value", c) ELSE Store("message", c)

SetIfAny(c, p) ==
  When(p.value # "none", Store("level", c) \o Store("value", c))
  \o When(p.message # "none", Store("level", c) \o Store("message", c))

\* setLoggerData: with a Value and a Message, both are assigned twice.
SetLoggerData(c, p) ==
  Store("level", c)
  \o When(p.value # "none",
          Store("value", c) \o When(p.message # "none", Store("message", c)))
  \o When(p.message # "none",
          Store("message", c) \o When(p.value # "none", Store("value", c)))

\* json.Marshal, the write, and the clearing of Value and Message.
Marshal    == Load("level") \o Load("message") \o Load("value")

\* Mutant of ClearFields: the Value stays.
ClearMessageOnly == Store("message", Empty)

ClearFields == Store("value", Empty) \o Store("message", Empty)
WriteToFile == Marshal \o << <<"write">> >> \o ClearFields

current(g) == <<g, made[g]>>
underWay == {current(g) : g \in {h \in Goroutines : todo[h] # <<>>}}

-----------------------------------------------------------------------------

isLogLevelAllowed(level) == level >= logLevel

\* One of the Log functions; the level is looked at first.
Begin(g, p) ==
  /\ todo[g] = <<>>
  /\ made[g] < MaxCalls
  /\ LET c == <<g, made[g] + 1>>
     IN /\ made' = [made EXCEPT ![g] = @ + 1]
        /\ payload' = [d \in DOMAIN payload \cup {c} |->
                         IF d = c THEN p ELSE payload[d]]
        /\ todo' = [todo EXCEPT ![g] =
                      When(isLogLevelAllowed(p.level),
                           SetLoggerData(c, p) \o WriteToFile)]
        /\ admitted' = admitted \cup {d \in {c} : isLogLevelAllowed(p.level)}
        /\ met' = met \cup {{c, d} : d \in underWay}
  /\ UNCHANGED <<logLevel, loggerMessage, line, file, failed>>

\* The struct's field, one word of it.
StoreWord(g) ==
  /\ todo[g] # <<>> /\ Head(todo[g])[1] = "store"
  /\ LET op == Head(todo[g])
     IN loggerMessage' = [loggerMessage EXCEPT ![op[2]][op[3]] = op[4]]
  /\ todo' = [todo EXCEPT ![g] = Tail(@)]
  /\ UNCHANGED <<logLevel, payload, made, line, file, admitted, met, failed>>

LoadWord(g) ==
  /\ todo[g] # <<>> /\ Head(todo[g])[1] = "load"
  /\ LET op == Head(todo[g])
     IN line' = [line EXCEPT ![g][op[2]][op[3]] = loggerMessage[op[2]][op[3]]]
  /\ todo' = [todo EXCEPT ![g] = Tail(@)]
  /\ UNCHANGED <<logLevel, loggerMessage, payload, made, file, admitted, met,
                 failed>>

\* What json.Marshal refuses of a call, and what it may fail at or not: a
\* field with the words of two calls.
BadIn(c, f) == f # "level" /\ payload[c][f] = "bad"

\* Mutant of Refused: a field that nobody has set is refused as well.
RefusesNone(l) ==
  \E f \in Fields, w \in Words :
    l[f] = <<w, w>> /\ (w = Empty \/ BadIn(w, f))

Refused(l) ==
  \E f \in Fields, w \in Words \ {Empty} : l[f] = <<w, w>> /\ BadIn(w, f)

Torn(l) == \E f \in Fields : l[f][1] # l[f][2]

Appended(l) == file \cup {l}

\* The line goes to the console and to the file.  The error of the write is
\* not looked at; there always is one after Close, which main calls while
\* handlers may still be logging.
WriteLine(g) ==
  /\ todo[g] # <<>> /\ Head(todo[g])[1] = "write"
  /\ ~Refused(line[g])
  /\ file' \in {file, Appended([call |-> current(g), line |-> line[g]])}
  /\ line' = [line EXCEPT ![g] = NoLine]
  /\ todo' = [todo EXCEPT ![g] = Tail(@)]
  /\ UNCHANGED <<logLevel, loggerMessage, payload, made, admitted, met, failed>>

\* writeToFile returns on an error, or panics, before it clears the struct.
MarshalFails(g) ==
  /\ todo[g] # <<>> /\ Head(todo[g])[1] = "write"
  /\ Refused(line[g]) \/ Torn(line[g])
  /\ failed' = failed \cup {current(g)}
  /\ todo' = [todo EXCEPT ![g] = <<>>]
  /\ line' = [line EXCEPT ![g] = NoLine]
  /\ UNCHANGED <<logLevel, loggerMessage, payload, made, file, admitted, met>>

\* Mutant of SetLogLevel: an unknown level is taken.
SetUnknownLevel(level) ==
  /\ logLevel' = 0 - 1 - level
  /\ UNCHANGED <<loggerMessage, payload, made, todo, line, file, admitted,
                 met, failed>>

\* POST on the log-level endpoint.  An unknown level is logged as an error,
\* a call like any other.
SetLogLevel(level) ==
  /\ logLevel' = level
  /\ UNCHANGED <<loggerMessage, payload, made, todo, line, file, admitted,
                 met, failed>>

Next ==
  \/ \E g \in Goroutines :
       \/ \E p \in Inputs : Begin(g, p)
       \/ StoreWord(g) \/ LoadWord(g) \/ WriteLine(g) \/ MarshalFails(g)
  \/ \E level \in Levels : SetLogLevel(level)

Spec == Init /\ [][Next]_vars

-----------------------------------------------------------------------------
(* What must hold.                                                         *)

Running(c) == \E g \in Goroutines : c = current(g) /\ todo[g] # <<>>

WordsOf(l, fields) ==
  (UNION {{l[f][1], l[f][2]} : f \in fields}) \ {Empty}

\* However calls interleave, Message and Value of the shared struct hold
\* nothing of a call that is over, unless json.Marshal failed in it
\* (logger.go:372-412: each call clears what it has set).
NoLeftovers ==
  \A c \in WordsOf(loggerMessage, {"message", "value"}) : Running(c) \/ c \in failed

\* Races mix lines, but only those of calls that were under way at once: of a
\* call that was over before it began, a call writes nothing, not even half a
\* level, unless json.Marshal failed in the other
\* (logger.go:372-374 and 395-412).
MixedLinesOverlap ==
  \A l \in file : \A c \in WordsOf(l.line, Fields) \ {l.call} :
    {l.call, c} \in met \/ c \in failed

\* Without a second goroutine, a line is made of its own call's words, and
\* lacks none of them, unless json.Marshal failed in an earlier call
\* (logger.go:372-412).
OwnLine ==
  failed = {} => \A l \in file :
    LET p == payload[l.call]
    IN /\ WordsOf(l.line, Fields) = {l.call}
       /\ l.line["level"] = <<l.call, l.call>>
       /\ p.message # "none" <=> l.line["message"] = <<l.call, l.call>>
       /\ p.value # "none" <=> l.line["value"] = <<l.call, l.call>>

\* What call c is given for field f.
Given(c, f) == f = "level" \/ payload[c][f] # "none"

\* Without a second goroutine, what a line shows of another call, json.Marshal
\* had failed in that call, which left it behind (logger.go:397-400).
ForeignWordsWereRefused ==
  \A l \in file : WordsOf(l.line, Fields) \ {l.call} \subseteq failed

\* Without a second goroutine, json.Marshal fails in a call for a Message or a
\* Value of its own, or, where it has none, for one that an earlier failure left
\* behind: one bad Value keeps later lines out of the log until a call brings
\* another (logger.go:381-386 and 397-400).
RefusedForAReason ==
  \A c \in failed : \E f \in Fields :
    \/ BadIn(c, f)
    \/ /\ ~Given(c, f)
       /\ \E d \in failed : d[2] < c[2] /\ BadIn(d, f)

\* Without a second goroutine, a call reaches into a later one only if
\* json.Marshal has failed in it: into its line, or by failing there as well
\* (logger.go:372-412).
OnlyRefusedCallsLeak == ForeignWordsWereRefused /\ RefusedForAReason

-----------------------------------------------------------------------------
(* The inductive invariant.                                                *)

\* Calls are numbered as they begin, and a line has an admitted call.
CallsAreNumbered ==
  /\ DOMAIN payload = {c \in CallIds : c[2] <= made[c[1]]}
  /\ admitted \subseteq DOMAIN payload
  /\ \A g \in Goroutines : todo[g] # <<>> => current(g) \in admitted
  /\ \A l \in file : l.call \in admitted

\* The accesses of a call c: it stores words of its own, loads, writes, and
\* clears.
Stores(c) == {<<"store", f, i, c>> : f \in Fields, i \in {1, 2}}
Loads == {<<"load", f, i>> : f \in Fields, i \in {1, 2}}
Write == <<"write">>
Clears == {<<"store", f, i, Empty>> : f \in {"message", "value"}, i \in {1, 2}}
Accesses(c) == Stores(c) \cup Loads \cup {Write} \cup Clears

Phase(op) ==
  IF op[1] = "load" THEN 2
  ELSE IF op[1] = "write" THEN 3
  ELSE IF op[4] = Empty THEN 4 ELSE 1

\* The accesses that goroutine g has ahead of it.
Ahead(g) == ToSet(todo[g])

\* What is left of a call is in order, with one write, and nothing is missing of
\* the phases it has not reached.
Before(o, p) == Phase(o) < Phase(p) \/ (Phase(o) = Phase(p) /\ o # Write)
Ordered(s) == \A j, k \in 1..Len(s) : j < k => Before(s[j], s[k])
TodoInOrder ==
  \A g \in Goroutines :
    /\ todo[g] \in Seq(Accesses(current(g)))
    /\ Ordered(todo[g])
    /\ \A o \in Ahead(g), p \in Loads \cup {Write} \cup Clears :
         Phase(o) < Phase(p) => p \in Ahead(g)

\* A word in Message or Value will be cleared by its call, or was refused.
LeftoversAreCleared ==
  \A f \in {"message", "value"}, i \in {1, 2} :
    LET c == loggerMessage[f][i]
    IN \/ c \in failed \cup {Empty}
       \/ \E g \in Goroutines :
            c = current(g) /\ <<"store", f, i, Empty>> \in Ahead(g)

\* What a line shows of other calls is of calls that were under way with its
\* own, or that failed; the level too, which nobody clears, because a call has
\* stored its own before it loads it.
Overlaps(c, w) == w = c \/ {c, w} \in met
Explained(c, w) == w \in failed \cup {Empty} \/ Overlaps(c, w)

CallsMeet ==
  \A g, h \in Goroutines :
    todo[g] # <<>> /\ todo[h] # <<>> /\ g # h => {current(g), current(h)} \in met

CallMixes(g) ==
  \A i \in {1, 2} :
    LET c == current(g)
    IN /\ <<"load", "level", i>> \in Ahead(g) =>
            \/ <<"store", "level", i, c>> \in Ahead(g)
            \/ Explained(c, loggerMessage["level"][i])
       /\ \A f \in Fields : Write \in Ahead(g) =>
            \/ <<"load", f, i>> \in Ahead(g)
            \/ Explained(c, line[g][f][i])

LinesMix ==
  \A l \in file, f \in Fields, i \in {1, 2} : Explained(l.call, l.line[f][i])

\* What call c may show in field f when no other call runs beside it: its own
\* words, or, where it is given none, what failed calls have left.
Shown(c, f) == IF Given(c, f) THEN {c} ELSE failed \cup {Empty}

Alone == \E g \in Goroutines : Goroutines = {g}

\* The struct shows what goroutine g's call may show from the last store to the
\* load, and the line from the load to the write.
CallShowsOwn(g) ==
  \A f \in Fields, i \in {1, 2} :
    LET c == current(g)
    IN /\ <<"store", f, i, c>> \in Ahead(g) => Given(c, f)
       /\ <<"load", f, i>> \in Ahead(g) =>
            \/ <<"store", f, i, c>> \in Ahead(g)
            \/ loggerMessage[f][i] \in Shown(c, f)
       /\ Write \in Ahead(g) =>
            \/ <<"load", f, i>> \in Ahead(g)
            \/ line[g][f][i] \in Shown(c, f)

\* And nothing is torn there: between two calls every field is whole, a call
\* writes both words of what it is given, and clears both words of the rest.
Whole(f) == loggerMessage[f][1] = loggerMessage[f][2]

CallIsWhole(g) ==
  \A f \in Fields :
    /\ Write \in Ahead(g) =>
         /\ ~Given(current(g), f) => Whole(f)
         /\ \A i \in {1, 2} : \/ <<"load", f, i>> \in Ahead(g)
                             \/ line[g][f][i] = loggerMessage[f][i]
    /\ f = "level" /\ Write \notin Ahead(g) => Whole(f)
    /\ f # "level" /\ Write \notin Ahead(g) /\ todo[g] # <<>> =>
         \A i \in {1, 2} : \/ <<"store", f, i, Empty>> \in Ahead(g)
                           \/ loggerMessage[f][i] = Empty
    /\ todo[g] = <<>> => Whole(f)

LinesShowOwn ==
  \A l \in file, f \in Fields, i \in {1, 2} : l.line[f][i] \in Shown(l.call, f)

AloneShowsOwn ==
  Alone =>
    /\ \A g \in Goroutines : CallShowsOwn(g) /\ CallIsWhole(g)
    /\ LinesShowOwn
    /\ RefusedForAReason

IInv ==
  /\ TypeOK
  /\ CallsAreNumbered
  /\ TodoInOrder
  /\ LeftoversAreCleared
  /\ CallsMeet
  /\ \A g \in Goroutines : CallMixes(g)
  /\ LinesMix
  /\ AloneShowsOwn
=============================================================================
