---------------------------- MODULE LoggerProofs ----------------------------
(***************************************************************************)
(* Proofs about Logger, for any number of goroutines and of calls.         *)
(***************************************************************************)
EXTENDS Logger, TLAPS, SequenceTheorems

-----------------------------------------------------------------------------
(* Sequences.                                                              *)

\* What is left of a sequence after its first element.
LEMMA TailOf ==
  ASSUME NEW S, NEW s \in Seq(S), s # <<>>
  PROVE  /\ Head(s) \in S
         /\ Tail(s) \in Seq(S)
         /\ ToSet(s) = {Head(s)} \cup ToSet(Tail(s))
<1>1. /\ Len(s) \in Nat \ {0} /\ Head(s) = s[1] /\ Head(s) \in S
      /\ Tail(s) \in Seq(S) /\ Len(Tail(s)) = Len(s) - 1
      /\ \A k \in 1..(Len(s) - 1) : Tail(s)[k] = s[k + 1]
      /\ DOMAIN s = 1..Len(s) /\ DOMAIN Tail(s) = 1..(Len(s) - 1)
  OBVIOUS
<1>2. ToSet(s) \subseteq {Head(s)} \cup ToSet(Tail(s))
  <2> SUFFICES ASSUME NEW k \in 1..Len(s), k # 1
               PROVE  s[k] \in ToSet(Tail(s))
    BY <1>1 DEF ToSet
  <2>1. k - 1 \in DOMAIN Tail(s) /\ Tail(s)[k - 1] = s[k]
    BY <1>1
  <2> QED BY <2>1 DEF ToSet
<1>3. {Head(s)} \cup ToSet(Tail(s)) \subseteq ToSet(s)
  BY <1>1 DEF ToSet
<1> QED BY <1>1, <1>2, <1>3

\* A concatenation has the elements of both parts.
LEMMA ConcatOf ==
  ASSUME NEW S, NEW s \in Seq(S), NEW t \in Seq(S)
  PROVE  s \o t \in Seq(S) /\ ToSet(s \o t) = ToSet(s) \cup ToSet(t)
<1>1. /\ s \o t \in Seq(S) /\ Len(s \o t) = Len(s) + Len(t)
      /\ Len(s) \in Nat /\ Len(t) \in Nat
      /\ \A k \in 1..(Len(s) + Len(t)) :
           (s \o t)[k] = IF k <= Len(s) THEN s[k] ELSE t[k - Len(s)]
      /\ DOMAIN s = 1..Len(s) /\ DOMAIN t = 1..Len(t)
      /\ DOMAIN (s \o t) = 1..(Len(s) + Len(t))
  OBVIOUS
<1>2. ToSet(s \o t) \subseteq ToSet(s) \cup ToSet(t)
  BY <1>1 DEF ToSet
<1>3. ToSet(s) \subseteq ToSet(s \o t)
  BY <1>1 DEF ToSet
<1>4. ASSUME NEW k \in 1..Len(t) PROVE t[k] \in ToSet(s \o t)
  <2>1. k + Len(s) \in DOMAIN (s \o t) /\ (s \o t)[k + Len(s)] = t[k]
    BY <1>1
  <2> QED BY <2>1 DEF ToSet
<1> QED BY <1>1, <1>2, <1>3, <1>4 DEF ToSet

\* One phase after another.
LEMMA OrderedConcat ==
  ASSUME NEW S, NEW s \in Seq(S), NEW t \in Seq(S), Ordered(s), Ordered(t),
         \A o \in ToSet(s), p \in ToSet(t) : Before(o, p)
  PROVE  Ordered(s \o t)
<1>1. /\ Len(s \o t) = Len(s) + Len(t)
      /\ Len(s) \in Nat /\ Len(t) \in Nat
      /\ \A k \in 1..(Len(s) + Len(t)) :
           (s \o t)[k] = IF k <= Len(s) THEN s[k] ELSE t[k - Len(s)]
      /\ DOMAIN s = 1..Len(s) /\ DOMAIN t = 1..Len(t)
  OBVIOUS
<1> SUFFICES ASSUME NEW j \in 1..Len(s \o t), NEW k \in 1..Len(s \o t), j < k
             PROVE  Before((s \o t)[j], (s \o t)[k])
  BY DEF Ordered
<1>2. CASE k <= Len(s)
  BY <1>1, <1>2 DEF Ordered
<1>3. CASE j > Len(s)
  <2>1. /\ j - Len(s) \in 1..Len(t) /\ k - Len(s) \in 1..Len(t)
        /\ j - Len(s) < k - Len(s)
    BY <1>1, <1>3
  <2>2. (s \o t)[j] = t[j - Len(s)] /\ (s \o t)[k] = t[k - Len(s)]
    BY <1>1, <1>3, <2>1
  <2> QED BY <2>1, <2>2 DEF Ordered
<1>4. CASE j <= Len(s) /\ k > Len(s)
  <2>1. (s \o t)[j] \in ToSet(s)
    BY <1>1, <1>4 DEF ToSet
  <2>2. (s \o t)[k] = t[k - Len(s)] /\ k - Len(s) \in 1..Len(t)
    BY <1>1, <1>4
  <2>3. (s \o t)[k] \in ToSet(t)
    BY <1>1, <2>2 DEF ToSet
  <2> QED BY <2>1, <2>3
<1> QED BY <1>1, <1>2, <1>3, <1>4

-----------------------------------------------------------------------------
(* The accesses of a call.                                                 *)

\* Stores come before loads, loads before the write, clears last
\* (logger.go:372-412).
LEMMA Phases ==
  ASSUME NEW c \in CallIds
  PROVE  /\ c # Empty
         /\ \A o \in Stores(c) : Phase(o) = 1 /\ o[1] = "store"
         /\ \A o \in Loads : Phase(o) = 2 /\ o[1] = "load"
         /\ Phase(Write) = 3 /\ Write[1] = "write"
         /\ \A o \in Clears : Phase(o) = 4 /\ o[1] = "store"
<1>1. c # Empty
  BY DEF CallIds, Empty
<1>2. \A o \in Stores(c) : Phase(o) = 1 /\ o[1] = "store"
  BY <1>1 DEF Stores, Phase
<1>3. \A o \in Loads : Phase(o) = 2 /\ o[1] = "load"
  BY DEF Loads, Phase
<1>4. Phase(Write) = 3 /\ Write[1] = "write"
  BY DEF Write, Phase
<1>5. \A o \in Clears : Phase(o) = 4 /\ o[1] = "store"
  BY DEF Clears, Phase
<1> QED BY <1>1, <1>2, <1>3, <1>4, <1>5

\* A field is stored word by word.
LEMMA StoreOf ==
  ASSUME NEW S, NEW f, NEW w,
         {<<"store", f, 1, w>>, <<"store", f, 2, w>>} \subseteq S
  PROVE  /\ Store(f, w) \in Seq(S)
         /\ ToSet(Store(f, w)) = {<<"store", f, 1, w>>, <<"store", f, 2, w>>}
BY DEF Store, ToSet

\* A field is loaded word by word.
LEMMA LoadOf ==
  ASSUME NEW S, NEW f, {<<"load", f, 1>>, <<"load", f, 2>>} \subseteq S
  PROVE  /\ Load(f) \in Seq(S)
         /\ ToSet(Load(f)) = {<<"load", f, 1>>, <<"load", f, 2>>}
BY DEF Load, ToSet

\* A part of a call that depends on what it is given.
LEMMA WhenOf ==
  ASSUME NEW S, NEW b \in BOOLEAN, NEW s \in Seq(S)
  PROVE  /\ When(b, s) \in Seq(S)
         /\ ToSet(When(b, s)) = IF b THEN ToSet(s) ELSE {}
<1>1. CASE b
  BY <1>1 DEF When
<1>2. CASE ~b
  BY <1>2 DEF When, ToSet
<1> QED BY <1>1, <1>2

\* Within one phase any order will do, but for the write.
LEMMA OnePhase ==
  ASSUME NEW S, NEW s \in Seq(S), \A o, p \in S : Before(o, p)
  PROVE  Ordered(s)
BY DEF Ordered

\* setLoggerData stores the call's words in the fields it is given
\* (logger.go:372-394).
LEMMA SetLoggerDataStores ==
  ASSUME NEW c \in CallIds, NEW p \in Payloads
  PROVE  /\ SetLoggerData(c, p) \in Seq(Stores(c))
         /\ \A f \in Fields, i \in {1, 2} :
              <<"store", f, i, c>> \in ToSet(SetLoggerData(c, p)) <=>
                f = "level" \/ p[f] # "none"
<1> DEFINE L == Store("level", c)
           V == Store("value", c)
           M == Store("message", c)
           hasV == p.value # "none"
           hasM == p.message # "none"
           VM == When(hasV, V \o When(hasM, M))
           MV == When(hasM, M \o When(hasV, V))
<1>1. hasV \in BOOLEAN /\ hasM \in BOOLEAN
  OBVIOUS
<1>2. \A f \in Fields :
        /\ Store(f, c) \in Seq(Stores(c))
        /\ ToSet(Store(f, c)) = {<<"store", f, 1, c>>, <<"store", f, 2, c>>}
  <2> TAKE f \in Fields
  <2>1. {<<"store", f, 1, c>>, <<"store", f, 2, c>>} \subseteq Stores(c)
    BY DEF Stores
  <2> QED BY <2>1, StoreOf
<1>3. /\ L \in Seq(Stores(c)) /\ V \in Seq(Stores(c)) /\ M \in Seq(Stores(c))
      /\ ToSet(L) = {<<"store", "level", 1, c>>, <<"store", "level", 2, c>>}
      /\ ToSet(V) = {<<"store", "value", 1, c>>, <<"store", "value", 2, c>>}
      /\ ToSet(M) = {<<"store", "message", 1, c>>, <<"store", "message", 2, c>>}
  BY <1>2 DEF Fields
<1>4. SetLoggerData(c, p) = (L \o VM) \o MV
  BY DEF SetLoggerData
<1> HIDE DEF L, V, M, hasV, hasM
<1>5. /\ VM \in Seq(Stores(c))
      /\ ToSet(VM) = IF hasV THEN ToSet(V) \cup (IF hasM THEN ToSet(M) ELSE {})
                             ELSE {}
  <2>1. /\ When(hasM, M) \in Seq(Stores(c))
        /\ ToSet(When(hasM, M)) = IF hasM THEN ToSet(M) ELSE {}
    BY <1>1, <1>3, WhenOf
  <2>2. /\ V \o When(hasM, M) \in Seq(Stores(c))
        /\ ToSet(V \o When(hasM, M)) = ToSet(V) \cup ToSet(When(hasM, M))
    BY <1>3, <2>1, ConcatOf
  <2> QED BY <1>1, <2>1, <2>2, WhenOf
<1>6. /\ MV \in Seq(Stores(c))
      /\ ToSet(MV) = IF hasM THEN ToSet(M) \cup (IF hasV THEN ToSet(V) ELSE {})
                             ELSE {}
  <2>1. /\ When(hasV, V) \in Seq(Stores(c))
        /\ ToSet(When(hasV, V)) = IF hasV THEN ToSet(V) ELSE {}
    BY <1>1, <1>3, WhenOf
  <2>2. /\ M \o When(hasV, V) \in Seq(Stores(c))
        /\ ToSet(M \o When(hasV, V)) = ToSet(M) \cup ToSet(When(hasV, V))
    BY <1>3, <2>1, ConcatOf
  <2> QED BY <1>1, <2>1, <2>2, WhenOf
<1> HIDE DEF VM, MV
<1> DEFINE LVM == L \o VM
<1>7. LVM \in Seq(Stores(c)) /\ ToSet(LVM) = ToSet(L) \cup ToSet(VM)
  BY <1>3, <1>5, ConcatOf
<1>8. SetLoggerData(c, p) = LVM \o MV
  BY <1>4
<1> HIDE DEF LVM
<1>9. /\ LVM \o MV \in Seq(Stores(c))
      /\ ToSet(LVM \o MV) = ToSet(LVM) \cup ToSet(MV)
  BY <1>6, <1>7, ConcatOf
<1> DEFINE all == ToSet(SetLoggerData(c, p))
<1>10. all = ToSet(L) \cup (IF hasV THEN ToSet(V) ELSE {})
                     \cup (IF hasM THEN ToSet(M) ELSE {})
  BY <1>1, <1>5, <1>6, <1>7, <1>8, <1>9
<1> HIDE DEF all
<1>11. ASSUME NEW i \in {1, 2}
       PROVE  /\ <<"store", "level", i, c>> \in all
              /\ <<"store", "message", i, c>> \in all <=> hasM
              /\ <<"store", "value", i, c>> \in all <=> hasV
  BY <1>3, <1>10
<1> QED BY <1>8, <1>9, <1>11 DEF all, hasV, hasM, Fields

\* writeToFile loads every field, writes, and clears Message and Value
\* (logger.go:396-412).
LEMMA WriteToFileAccesses ==
  LET S == Loads \cup {Write} \cup Clears
  IN WriteToFile \in Seq(S) /\ ToSet(WriteToFile) = S /\ Ordered(WriteToFile)
<1> DEFINE S == Loads \cup {Write} \cup Clears
           W == <<Write>>
           LM == Load("level") \o Load("message")
           MW == Marshal \o W
<1>1. /\ \A f \in Fields :
           /\ Load(f) \in Seq(Loads)
           /\ ToSet(Load(f)) = {<<"load", f, 1>>, <<"load", f, 2>>}
      /\ {"level", "message", "value"} = Fields
  <2> SUFFICES ASSUME NEW f \in Fields
               PROVE  /\ Load(f) \in Seq(Loads)
                      /\ ToSet(Load(f)) = {<<"load", f, 1>>, <<"load", f, 2>>}
    BY DEF Fields
  <2>1. {<<"load", f, 1>>, <<"load", f, 2>>} \subseteq Loads
    BY DEF Loads
  <2> QED BY <2>1, LoadOf
<1>2. Marshal \in Seq(Loads) /\ ToSet(Marshal) = Loads
  <2>1. /\ LM \in Seq(Loads)
        /\ ToSet(LM) = ToSet(Load("level")) \cup ToSet(Load("message"))
    BY <1>1, ConcatOf
  <2>2. Marshal = LM \o Load("value")
    BY DEF Marshal
  <2> HIDE DEF LM
  <2>3. Marshal \in Seq(Loads) /\ ToSet(Marshal) = ToSet(LM) \cup ToSet(Load("value"))
    BY <1>1, <2>1, <2>2, ConcatOf
  <2>4. ToSet(Marshal) = {<<"load", "level", 1>>, <<"load", "level", 2>>,
                         <<"load", "message", 1>>, <<"load", "message", 2>>,
                         <<"load", "value", 1>>, <<"load", "value", 2>>}
    BY <1>1, <2>1, <2>3
  <2> QED BY <2>3, <2>4 DEF Loads, Fields
<1>3. \A f \in {"message", "value"} :
           /\ Store(f, Empty) \in Seq(Clears)
           /\ ToSet(Store(f, Empty)) = {<<"store", f, 1, Empty>>, <<"store", f, 2, Empty>>}
  <2> TAKE f \in {"message", "value"}
  <2>1. {<<"store", f, 1, Empty>>, <<"store", f, 2, Empty>>} \subseteq Clears
    BY DEF Clears
  <2> QED BY <2>1, StoreOf
<1>4. ClearFields \in Seq(Clears) /\ ToSet(ClearFields) = Clears
  <2>1. /\ ClearFields \in Seq(Clears)
        /\ ToSet(ClearFields) =
             ToSet(Store("value", Empty)) \cup ToSet(Store("message", Empty))
    BY <1>3, ConcatOf DEF ClearFields
  <2>2. ToSet(ClearFields) =
          {<<"store", "value", 1, Empty>>, <<"store", "value", 2, Empty>>,
           <<"store", "message", 1, Empty>>, <<"store", "message", 2, Empty>>}
    BY <1>3, <2>1
  <2> QED BY <2>1, <2>2 DEF Clears
<1>5. W \in Seq({Write}) /\ ToSet(W) = {Write}
  BY DEF ToSet
<1>6. /\ \A o \in Loads : Phase(o) = 2
      /\ Phase(Write) = 3
      /\ \A o \in Clears : Phase(o) = 4
  BY DEF Loads, Clears, Phase, Write
<1>7. Ordered(Marshal) /\ Ordered(W) /\ Ordered(ClearFields)
  <2>1. Ordered(Marshal)
    BY <1>2, <1>6, OnePhase DEF Before
  <2>2. Ordered(W)
    BY DEF Ordered
  <2>3. Ordered(ClearFields)
    BY <1>4, <1>6, OnePhase DEF Before
  <2> QED BY <2>1, <2>2, <2>3
<1>8. WriteToFile = MW \o ClearFields
  BY DEF WriteToFile, Write
<1>9. Marshal \in Seq(S) /\ W \in Seq(S) /\ ClearFields \in Seq(S)
  BY <1>2, <1>4, <1>5
<1> HIDE DEF W, S
<1>10. MW \in Seq(S) /\ ToSet(MW) = Loads \cup {Write} /\ Ordered(MW)
  <2>1. \A o \in ToSet(Marshal), q \in ToSet(W) : Before(o, q)
    BY <1>2, <1>5, <1>6 DEF Before
  <2> QED BY <1>2, <1>5, <1>7, <1>9, <2>1, ConcatOf, OrderedConcat
<1> HIDE DEF MW
<1>11. WriteToFile \in Seq(S) /\ ToSet(WriteToFile) = S
  BY <1>4, <1>8, <1>9, <1>10, ConcatOf DEF S
<1>12. Ordered(WriteToFile)
  <2>1. \A o \in ToSet(MW), q \in ToSet(ClearFields) : Before(o, q)
    BY <1>4, <1>6, <1>10 DEF Before
  <2> QED BY <1>7, <1>8, <1>9, <1>10, <2>1, OrderedConcat
<1> QED BY <1>11, <1>12 DEF S

\* What a call that passes the level has before it.
LEMMA CallAccesses ==
  ASSUME NEW c \in CallIds, NEW p \in Payloads
  PROVE  LET s == SetLoggerData(c, p) \o WriteToFile
         IN /\ s \in Seq(Accesses(c))
            /\ Ordered(s)
            /\ Loads \cup {Write} \cup Clears \subseteq ToSet(s)
            /\ \A f \in Fields, i \in {1, 2} :
                 <<"store", f, i, c>> \in ToSet(s) <=>
                   f = "level" \/ p[f] # "none"
<1> DEFINE D == SetLoggerData(c, p)
           S == Loads \cup {Write} \cup Clears
<1>1. /\ D \in Seq(Stores(c))
      /\ \A f \in Fields, i \in {1, 2} :
           <<"store", f, i, c>> \in ToSet(D) <=>
             f = "level" \/ p[f] # "none"
  BY SetLoggerDataStores
<1>2. WriteToFile \in Seq(S) /\ ToSet(WriteToFile) = S /\ Ordered(WriteToFile)
  BY WriteToFileAccesses
<1>3. ToSet(D) \subseteq Stores(c)
  BY <1>1 DEF ToSet
<1>4. \A o \in Stores(c), q \in S : Phase(o) = 1 /\ Phase(q) \in {2, 3, 4}
  BY Phases
<1>5. Ordered(D)
  BY <1>1, <1>4, Phases, OnePhase DEF Before
<1> HIDE DEF D
<1>6. D \in Seq(Accesses(c)) /\ WriteToFile \in Seq(Accesses(c))
  BY <1>1, <1>2 DEF Accesses
<1>7. /\ D \o WriteToFile \in Seq(Accesses(c))
      /\ ToSet(D \o WriteToFile) = ToSet(D) \cup S
  BY <1>2, <1>6, ConcatOf
<1>8. Ordered(D \o WriteToFile)
  <2>1. \A o \in ToSet(D), q \in ToSet(WriteToFile) : Before(o, q)
    BY <1>2, <1>3, <1>4 DEF Before
  <2> QED BY <1>2, <1>5, <1>6, <2>1, OrderedConcat
<1>9. ASSUME NEW f \in Fields, NEW i \in {1, 2} PROVE <<"store", f, i, c>> \notin S
  <2>1. <<"store", f, i, c>> \in Stores(c)
    BY DEF Stores
  <2> QED BY <2>1, <1>4
<1> QED BY <1>1, <1>7, <1>8, <1>9 DEF D

\* One word of a line changes.
LEMMA WordUpdate ==
  ASSUME NEW l \in Lines, NEW f \in Fields, NEW i \in {1, 2}, NEW w \in Words
  PROVE  LET m == [l EXCEPT ![f][i] = w]
         IN /\ m \in Lines
            /\ m[f][i] = w
            /\ \A e \in Fields, j \in {1, 2} :
                 e # f \/ j # i => m[e][j] = l[e][j]
<1> DEFINE m == [l EXCEPT ![f][i] = w]
           pair == [l[f] EXCEPT ![i] = w]
<1>1. l[f] \in Words \X Words /\ l = [e \in Fields |-> l[e]]
  BY DEF Lines
<1>2. /\ pair \in Words \X Words
      /\ pair[i] = w
      /\ \A j \in {1, 2} : j # i => pair[j] = l[f][j]
  <2>1. PICK a \in Words, b \in Words : l[f] = <<a, b>>
    BY <1>1
  <2>2. CASE i = 1
    <3>1. pair = <<w, b>>
      BY <2>1, <2>2
    <3> QED BY <2>1, <2>2, <3>1
  <2>3. CASE i = 2
    <3>1. pair = <<a, w>>
      BY <2>1, <2>3
    <3> QED BY <2>1, <2>3, <3>1
  <2> QED BY <2>2, <2>3
<1>3. m = [l EXCEPT ![f] = pair]
  OBVIOUS
<1> HIDE DEF m, pair
<1> QED BY <1>1, <1>2, <1>3 DEF Lines, m

-----------------------------------------------------------------------------
(* The invariant is inductive.                                             *)

USE LevelsAssumption, MaxCallsAssumption

\* A logger that nobody has called yet (logger.go:208-234).
LEMMA InitIInv == Init => IInv
<1> SUFFICES ASSUME Init PROVE IInv
  OBVIOUS
<1> USE DEF Init
<1>1. TypeOK
  <2>1. NoLine \in Lines
    BY DEF NoLine, Lines, Words
  <2> QED BY <2>1 DEF TypeOK
<1>2. \A g \in Goroutines : todo[g] = <<>> /\ Ahead(g) = {}
  BY DEF Ahead, ToSet
<1>3. CallsAreNumbered
  BY <1>2 DEF CallsAreNumbered, CallIds
<1>4. TodoInOrder
  BY <1>2 DEF TodoInOrder, Ordered
<1>5. LeftoversAreCleared
  BY DEF LeftoversAreCleared, NoLine, Fields
<1>6. CallsMeet /\ LinesMix /\ \A g \in Goroutines : CallMixes(g)
  BY <1>2 DEF CallsMeet, CallMixes, LinesMix
<1>7. AloneShowsOwn
  <2>1. \A f \in Fields : Whole(f)
    BY DEF Whole, NoLine
  <2> QED BY <1>2, <2>1 DEF AloneShowsOwn, CallShowsOwn, CallIsWhole,
             LinesShowOwn, RefusedForAReason
<1> QED BY <1>1, <1>3, <1>4, <1>5, <1>6, <1>7 DEF IInv

\* A goroutine that is in a call makes the next of its accesses: no later phase
\* has lost any of its own.
LEMMA NextAccess ==
  ASSUME IInv, NEW g \in Goroutines, todo[g] # <<>>,
         todo' = [todo EXCEPT ![g] = Tail(@)], UNCHANGED made
  PROVE  LET o == Head(todo[g])
             c == current(g)
         IN /\ c \in CallIds /\ c \in admitted /\ o \in Accesses(c)
            /\ o \in Ahead(g)
            /\ Ahead(g) = {o} \cup Ahead(g)'
            /\ \A p \in Ahead(g) : p \in Accesses(c) /\ Phase(o) <= Phase(p)
            /\ o = Write => Write \notin Ahead(g)'
            /\ \A p \in Loads \cup {Write} \cup Clears :
                 Phase(o) < Phase(p) => p \in Ahead(g)'
            /\ \A h \in Goroutines : current(h)' = current(h)
            /\ \A h \in Goroutines \ {g} : todo'[h] = todo[h] /\ Ahead(h)' = Ahead(h)
            /\ TodoInOrder'
<1> DEFINE s == todo[g]
           c == current(g)
           o == Head(s)
<1>1. c \in CallIds /\ c \in admitted
  BY DEF IInv, CallsAreNumbered
<1>2. /\ s \in Seq(Accesses(c)) /\ Ordered(s) /\ s # <<>>
      /\ \A a \in ToSet(s), p \in Loads \cup {Write} \cup Clears :
           Phase(a) < Phase(p) => p \in ToSet(s)
  BY DEF IInv, TodoInOrder, Ahead
<1>3. /\ todo'[g] = Tail(s)
      /\ \A h \in Goroutines \ {g} : todo'[h] = todo[h]
      /\ \A h \in Goroutines : current(h)' = current(h)
  BY DEF IInv, TypeOK, current
<1>4. /\ Ahead(g) = ToSet(s) /\ Ahead(g)' = ToSet(Tail(s))
      /\ \A h \in Goroutines \ {g} : Ahead(h)' = Ahead(h)
  BY <1>3 DEF Ahead
<1>5. \A p \in Accesses(c) : Phase(p) \in 1..4
  BY <1>1, Phases DEF Accesses
<1> HIDE DEF s, c, o
<1>6. /\ o \in Accesses(c) /\ Tail(s) \in Seq(Accesses(c))
      /\ ToSet(s) = {o} \cup ToSet(Tail(s))
  BY <1>2, TailOf DEF o
<1>7. /\ Len(s) \in Nat \ {0} /\ o = s[1] /\ Len(Tail(s)) = Len(s) - 1
      /\ \A k \in 1..(Len(s) - 1) : Tail(s)[k] = s[k + 1]
      /\ DOMAIN s = 1..Len(s) /\ \A k \in 1..Len(s) : s[k] \in Accesses(c)
  BY <1>2 DEF o
<1>8. \A p \in ToSet(s) : p \in Accesses(c) /\ Phase(o) <= Phase(p)
  <2> SUFFICES ASSUME NEW k \in 1..Len(s)
               PROVE  s[k] \in Accesses(c) /\ Phase(o) <= Phase(s[k])
    BY <1>7 DEF ToSet
  <2> QED BY <1>2, <1>5, <1>7 DEF Ordered, Before
<1>12. o = Write => Write \notin ToSet(Tail(s))
  <2> SUFFICES ASSUME o = Write, NEW k \in 1..(Len(s) - 1), s[k + 1] = Write
               PROVE  FALSE
    BY <1>2, <1>7 DEF ToSet
  <2>1. 1 \in 1..Len(s) /\ k + 1 \in 1..Len(s) /\ 1 < k + 1
    BY <1>7
  <2>2. Before(s[1], s[k + 1])
    BY <1>2, <2>1 DEF Ordered
  <2> QED BY <1>1, <1>7, <2>2, Phases DEF Before
<1>9. \A a \in ToSet(s), p \in Loads \cup {Write} \cup Clears :
        Phase(a) < Phase(p) => p \in ToSet(Tail(s))
  <2> SUFFICES ASSUME NEW a \in ToSet(s), NEW p \in Loads \cup {Write} \cup Clears,
                      Phase(a) < Phase(p)
               PROVE  p \in ToSet(Tail(s))
    OBVIOUS
  <2>1. p \in ToSet(s)
    BY <1>2
  <2>2. Phase(o) <= Phase(a) /\ p \in Accesses(c) /\ a \in Accesses(c)
    BY <1>8, <2>1
  <2>3. p # o
    BY <1>5, <1>6, <2>2
  <2> QED BY <1>6, <2>1, <2>3
<1>10. Ordered(Tail(s))
  <2> SUFFICES ASSUME NEW j \in 1..Len(Tail(s)), NEW k \in 1..Len(Tail(s)), j < k
               PROVE  Before(Tail(s)[j], Tail(s)[k])
    BY DEF Ordered
  <2>1. j + 1 \in 1..Len(s) /\ k + 1 \in 1..Len(s) /\ j + 1 < k + 1
    BY <1>7
  <2> QED BY <1>2, <1>7, <2>1 DEF Ordered
<1>11. TodoInOrder'
  <2> SUFFICES ASSUME NEW h \in Goroutines
               PROVE  /\ todo'[h] \in Seq(Accesses(current(h)'))
                      /\ Ordered(todo'[h])
                      /\ \A a \in Ahead(h)', p \in Loads \cup {Write} \cup Clears :
                           Phase(a) < Phase(p) => p \in Ahead(h)'
    BY DEF TodoInOrder, Phase, Write
  <2>1. CASE h = g
    BY <1>3, <1>4, <1>6, <1>9, <1>10, <2>1 DEF c
  <2>2. CASE h # g
    BY <1>3, <1>4, <2>2 DEF IInv, TodoInOrder
  <2> QED BY <2>1, <2>2
<1> QED BY <1>1, <1>3, <1>4, <1>6, <1>8, <1>9, <1>11, <1>12 DEF s, c, o

\* A goroutine with accesses left is under way.
LEMMA AheadMeans ==
  ASSUME NEW g, NEW o \in Ahead(g)
  PROVE  todo[g] # <<>>
BY DEF Ahead, ToSet

\* Calls that are under way have met.
LEMMA UnderWayMeet ==
  ASSUME IInv, NEW g \in Goroutines, NEW h \in Goroutines,
         todo[g] # <<>>, todo[h] # <<>>
  PROVE  Overlaps(current(g), current(h))
BY DEF IInv, CallsMeet, Overlaps

\* What a call finds in Message and Value is of one that it has met or that
\* failed.
LEMMA FieldsExplained ==
  ASSUME IInv, NEW g \in Goroutines, todo[g] # <<>>,
         NEW f \in {"message", "value"}, NEW i \in {1, 2}
  PROVE  Explained(current(g), loggerMessage[f][i])
<1>1. CASE loggerMessage[f][i] \in failed \cup {Empty}
  BY <1>1 DEF Explained
<1>2. CASE loggerMessage[f][i] \notin failed \cup {Empty}
  <2>1. PICK h \in Goroutines : /\ loggerMessage[f][i] = current(h)
                                /\ <<"store", f, i, Empty>> \in Ahead(h)
    BY <1>2 DEF IInv, LeftoversAreCleared
  <2> QED BY <2>1, AheadMeans, UnderWayMeet DEF Explained
<1> QED BY <1>1, <1>2

\* The struct's words come and go with a call's stores; no step of a call but
\* its end takes it out of those that are still to clear them.
LEMMA StoreWordKeeps ==
  ASSUME IInv, NEW g \in Goroutines, StoreWord(g)
  PROVE  IInv'
<1> DEFINE c == current(g)
           op == Head(todo[g])
<1>0. /\ todo[g] # <<>> /\ op[1] = "store"
      /\ loggerMessage' = [loggerMessage EXCEPT ![op[2]][op[3]] = op[4]]
      /\ todo' = [todo EXCEPT ![g] = Tail(@)]
      /\ UNCHANGED <<logLevel, payload, made, line, file, admitted, met, failed>>
  BY DEF StoreWord
<1>1. /\ c \in CallIds /\ c \in admitted /\ op \in Accesses(c)
      /\ op \in Ahead(g)
      /\ Ahead(g) = {op} \cup Ahead(g)'
      /\ \A p \in Ahead(g) : p \in Accesses(c) /\ Phase(op) <= Phase(p)
      /\ \A p \in Loads \cup {Write} \cup Clears :
           Phase(op) < Phase(p) => p \in Ahead(g)'
      /\ \A h \in Goroutines : current(h)' = current(h)
      /\ \A h \in Goroutines \ {g} : todo'[h] = todo[h] /\ Ahead(h)' = Ahead(h)
      /\ TodoInOrder'
  BY <1>0, NextAccess
<1>2. PICK f \in Fields, i \in {1, 2}, w \in {c, Empty} :
        /\ op = <<"store", f, i, w>>
        /\ w = c \/ (f \in {"message", "value"} /\ op \in Clears)
  <2>1. op \in Stores(c) \/ op \in Clears
    BY <1>0, <1>1, Phases DEF Accesses
  <2> QED BY <2>1 DEF Stores, Clears, Fields
<1> HIDE DEF op
<1>3. loggerMessage \in Lines /\ w \in Words
  BY <1>1, <1>2 DEF IInv, TypeOK, Words
<1>4. /\ loggerMessage' \in Lines
      /\ loggerMessage'[f][i] = w
      /\ \A e \in Fields, j \in {1, 2} :
           e # f \/ j # i => loggerMessage'[e][j] = loggerMessage[e][j]
  <2> DEFINE m == [loggerMessage EXCEPT ![f][i] = w]
  <2>1. loggerMessage' = m
    BY <1>0, <1>2
  <2>2. /\ m \in Lines
        /\ m[f][i] = w
        /\ \A e \in Fields, j \in {1, 2} :
             e # f \/ j # i => m[e][j] = loggerMessage[e][j]
    BY <1>3, WordUpdate
  <2> HIDE DEF m
  <2> QED BY <2>1, <2>2
<1>5. op # Write /\ op \notin Loads
  BY <1>0, <1>1, Phases
<1> HIDE DEF c
<1>6. TypeOK'
  BY <1>0, <1>4 DEF IInv, TypeOK, CallIds, Lines, Words
<1>7. CallsAreNumbered'
  <2>1. \A h \in Goroutines : todo'[h] # <<>> => current(h)' \in admitted
    BY <1>0, <1>1 DEF IInv, CallsAreNumbered, c
  <2> QED BY <1>0, <2>1 DEF IInv, CallsAreNumbered, CallIds
<1>8. LeftoversAreCleared'
  <2> SUFFICES ASSUME NEW e \in {"message", "value"}, NEW j \in {1, 2},
                      loggerMessage'[e][j] \notin failed \cup {Empty}
               PROVE  \E h \in Goroutines :
                        /\ loggerMessage'[e][j] = current(h)'
                        /\ <<"store", e, j, Empty>> \in Ahead(h)'
    BY <1>0 DEF LeftoversAreCleared
  <2>1. <<"store", e, j, Empty>> \in Clears
    BY DEF Clears
  <2>2. CASE e = f /\ j = i
    <3>1. w = c /\ w # Empty
      BY <1>2, <1>4, <2>2
    <3>2. Phase(op) = 1 /\ Phase(<<"store", e, j, Empty>>) = 4
      BY <1>2, <2>1, <3>1 DEF Phase
    <3>3. <<"store", e, j, Empty>> \in Ahead(g)'
      BY <1>1, <2>1, <3>2
    <3> QED BY <1>1, <1>4, <2>2, <3>1, <3>3 DEF c
  <2>3. CASE e # f \/ j # i
    <3>1. loggerMessage'[e][j] = loggerMessage[e][j]
      BY <1>4, <2>3 DEF Fields
    <3>2. PICK h \in Goroutines : /\ loggerMessage[e][j] = current(h)
                                  /\ <<"store", e, j, Empty>> \in Ahead(h)
      BY <3>1 DEF IInv, LeftoversAreCleared
    <3>3. <<"store", e, j, Empty>> # op
      BY <1>2, <2>3
    <3> QED BY <1>1, <3>1, <3>2, <3>3
  <2> QED BY <2>2, <2>3
<1>9. CallsMeet' /\ LinesMix'
  <2>1. \A h \in Goroutines : todo'[h] # <<>> => todo[h] # <<>>
    BY <1>0, <1>1
  <2> QED BY <1>0, <1>1, <2>1
             DEF IInv, CallsMeet, LinesMix, Explained, Overlaps
<1>11. ASSUME NEW h \in Goroutines
       PROVE  CallMixes(h)'
  <2>1. Ahead(h)' \subseteq Ahead(h)
    BY <1>1
  <2>2. ASSUME NEW j \in {1, 2}, <<"load", "level", j>> \in Ahead(h)'
        PROVE  \/ <<"store", "level", j, current(h)>> \in Ahead(h)'
               \/ Explained(current(h), loggerMessage'["level"][j])
    <3>1. CASE f = "level" /\ j = i
      <4>1. loggerMessage'["level"][j] = current(g)
        BY <1>2, <1>4, <3>1 DEF c
      <4>2. todo[h] # <<>>
        BY <2>1, <2>2, AheadMeans
      <4> QED BY <1>0, <4>1, <4>2, UnderWayMeet DEF Explained
    <3>2. CASE f # "level" \/ j # i
      <4>1. loggerMessage'["level"][j] = loggerMessage["level"][j]
        BY <1>4, <3>2 DEF Fields
      <4>2. <<"store", "level", j, current(h)>> # op
        BY <1>2, <3>2
      <4> QED BY <1>1, <2>1, <2>2, <4>1, <4>2 DEF IInv, CallMixes
    <3> QED BY <3>1, <3>2
  <2>3. ASSUME NEW j \in {1, 2}, NEW e \in Fields, Write \in Ahead(h)',
               <<"load", e, j>> \notin Ahead(h)'
        PROVE  Explained(current(h), line[h][e][j])
    <3>1. <<"load", e, j>> \in Loads
      BY DEF Loads
    <3> QED BY <1>1, <1>5, <2>1, <2>3, <3>1 DEF IInv, CallMixes
  <2>4. current(h)' = current(h) /\ UNCHANGED <<met, failed, line>>
    BY <1>0, <1>1
  <2> QED BY <2>2, <2>3, <2>4 DEF CallMixes, Explained, Overlaps
<1>10. AloneShowsOwn'
  <2> SUFFICES ASSUME Alone
               PROVE  /\ CallShowsOwn(g)' /\ CallIsWhole(g)'
                      /\ LinesShowOwn' /\ RefusedForAReason'
    BY DEF AloneShowsOwn, Alone
  <2>1. /\ \A e \in Fields, j \in {1, 2} :
             /\ <<"store", e, j, c>> \in Ahead(g) => Given(c, e)
             /\ <<"load", e, j>> \in Ahead(g) =>
                  \/ <<"store", e, j, c>> \in Ahead(g)
                  \/ loggerMessage[e][j] \in Shown(c, e)
             /\ Write \in Ahead(g) =>
                  \/ <<"load", e, j>> \in Ahead(g)
                  \/ line[g][e][j] \in Shown(c, e)
        /\ LinesShowOwn /\ RefusedForAReason
    BY DEF IInv, AloneShowsOwn, CallShowsOwn, c
  <2>2. UNCHANGED line
    BY <1>0
  <2>4. ASSUME NEW e \in Fields, NEW j \in {1, 2}, <<"load", e, j>> \in Ahead(g)',
               <<"store", e, j, c>> \notin Ahead(g)'
        PROVE  loggerMessage'[e][j] \in Shown(c, e)
    <3>1. <<"load", e, j>> \in Loads /\ Phase(<<"load", e, j>>) = 2
      BY DEF Loads, Phase
    <3>2. op \notin Clears
      BY <1>1, <2>4, <3>1, Phases
    <3>3. w = c
      BY <1>2, <3>2
    <3>4. CASE e = f /\ j = i
      BY <1>1, <1>2, <1>4, <2>1, <3>3, <3>4 DEF Shown
    <3>5. CASE e # f \/ j # i
      BY <1>1, <1>2, <1>4, <2>1, <2>4, <3>5
    <3> QED BY <3>4, <3>5
  <2>5. ASSUME NEW e \in Fields, NEW j \in {1, 2}, Write \in Ahead(g)',
               <<"load", e, j>> \notin Ahead(g)'
        PROVE  line[g][e][j] \in Shown(c, e)
    <3>1. <<"load", e, j>> \in Loads
      BY DEF Loads
    <3> QED BY <1>1, <1>5, <2>1, <2>5, <3>1
  <2>6. \A e \in Fields, j \in {1, 2} :
          /\ <<"store", e, j, c>> \in Ahead(g)' => Given(c, e)
          /\ <<"load", e, j>> \in Ahead(g)' =>
               \/ <<"store", e, j, c>> \in Ahead(g)'
               \/ loggerMessage'[e][j] \in Shown(c, e)
          /\ Write \in Ahead(g)' =>
               \/ <<"load", e, j>> \in Ahead(g)'
               \/ line'[g][e][j] \in Shown(c, e)
    <3> TAKE e \in Fields, j \in {1, 2}
    <3>1. <<"store", e, j, c>> \in Ahead(g)' => Given(c, e)
      BY <1>1, <2>1
    <3>2. <<"load", e, j>> \in Ahead(g)' =>
            \/ <<"store", e, j, c>> \in Ahead(g)'
            \/ loggerMessage'[e][j] \in Shown(c, e)
      BY <2>4
    <3>3. Write \in Ahead(g)' =>
            \/ <<"load", e, j>> \in Ahead(g)'
            \/ line'[g][e][j] \in Shown(c, e)
      BY <2>2, <2>5
    <3> QED BY <3>1, <3>2, <3>3
  <2>7. CallShowsOwn(g)'
    <3>1. current(g)' = c /\ UNCHANGED <<payload, failed>>
      BY <1>0, <1>1 DEF c
    <3> QED BY <2>6, <3>1 DEF CallShowsOwn, Given, Shown
  <2>8. LinesShowOwn' /\ RefusedForAReason'
    <3>1. UNCHANGED <<payload, failed, file>>
      BY <1>0
    <3>2. LinesShowOwn'
      BY <2>1, <3>1 DEF LinesShowOwn, Given, Shown
    <3>3. RefusedForAReason'
      BY <2>1, <3>1 DEF RefusedForAReason, Given, BadIn
    <3> QED BY <3>2, <3>3
  <2>9. CallIsWhole(g)'
    <3>1. CASE w = c
      <4>1. Phase(op) = 1
        BY <1>1, <1>2, <3>1, Phases DEF Phase
      <4>2. Loads \cup {Write} \subseteq Ahead(g)'
        BY <1>1, <4>1, Phases
      <4>3. Given(c, f) /\ Write \in Ahead(g) /\ todo'[g] # <<>>
        <5>1. todo'[g] # <<>>
          BY <4>2 DEF Ahead, ToSet
        <5> QED BY <1>1, <1>2, <2>1, <3>1, <4>2, <5>1
      <4>4. ASSUME NEW e \in Fields, ~Given(c, e)
            PROVE  Whole(e)'
        BY <1>4, <4>3, <4>4 DEF IInv, AloneShowsOwn, CallIsWhole, Whole, c
      <4>5. \A e \in Fields, j \in {1, 2} : <<"load", e, j>> \in Ahead(g)'
        BY <4>2 DEF Loads
      <4>6. current(g)' = c /\ UNCHANGED payload
        BY <1>0, <1>1 DEF c
      <4> QED BY <4>2, <4>3, <4>4, <4>5, <4>6 DEF CallIsWhole, Given
    <3>2. CASE w # c
      <4>1. w = Empty /\ op \in Clears /\ f \in {"message", "value"} /\ Phase(op) = 4
        BY <1>1, <1>2, <3>2, Phases
      <4>2. Write \notin Ahead(g) /\ Write \notin Ahead(g)'
        BY <1>1, <4>1, Phases
      <4>3. Whole("level")'
        BY <1>4, <4>1, <4>2 DEF IInv, AloneShowsOwn, CallIsWhole, Whole, Fields
      <4>4. ASSUME NEW e \in {"message", "value"}, NEW j \in {1, 2}
            PROVE  \/ <<"store", e, j, Empty>> \in Ahead(g)'
                   \/ loggerMessage'[e][j] = Empty
        <5>1. CASE e = f /\ j = i
          BY <1>4, <4>1, <5>1
        <5>2. CASE e # f \/ j # i
          <6>1. <<"store", e, j, Empty>> # op
            BY <1>2, <5>2
          <6>2. loggerMessage'[e][j] = loggerMessage[e][j]
            BY <1>4, <5>2 DEF Fields
          <6>3. \/ <<"store", e, j, Empty>> \in Ahead(g)
                \/ loggerMessage[e][j] = Empty
            BY <1>0, <4>2 DEF IInv, AloneShowsOwn, CallIsWhole, Fields
          <6> QED BY <1>1, <6>1, <6>2, <6>3
        <5> QED BY <5>1, <5>2
      <4>5. todo'[g] = <<>> => Ahead(g)' = {}
        BY DEF Ahead, ToSet
      <4> QED BY <4>2, <4>3, <4>4, <4>5 DEF CallIsWhole, Whole, Fields
    <3> QED BY <3>1, <3>2
  <2> QED BY <2>7, <2>8, <2>9
<1> QED BY <1>1, <1>6, <1>7, <1>8, <1>9, <1>10, <1>11 DEF IInv

\* A load reads what its call has stored, when no other call has stored since
\* (logger.go:397).
LEMMA LoadWordKeeps ==
  ASSUME IInv, NEW g \in Goroutines, LoadWord(g)
  PROVE  IInv'
<1> DEFINE c == current(g)
           op == Head(todo[g])
<1>0. /\ todo[g] # <<>> /\ op[1] = "load"
      /\ line' = [line EXCEPT ![g][op[2]][op[3]] = loggerMessage[op[2]][op[3]]]
      /\ todo' = [todo EXCEPT ![g] = Tail(@)]
      /\ UNCHANGED <<logLevel, loggerMessage, payload, made, file, admitted, met,
                      failed>>
  BY DEF LoadWord
<1>1. /\ c \in CallIds /\ c \in admitted /\ op \in Accesses(c)
      /\ op \in Ahead(g)
      /\ Ahead(g) = {op} \cup Ahead(g)'
      /\ \A p \in Ahead(g) : p \in Accesses(c) /\ Phase(op) <= Phase(p)
      /\ \A p \in Loads \cup {Write} \cup Clears :
           Phase(op) < Phase(p) => p \in Ahead(g)'
      /\ \A h \in Goroutines : current(h)' = current(h)
      /\ \A h \in Goroutines \ {g} : todo'[h] = todo[h] /\ Ahead(h)' = Ahead(h)
      /\ TodoInOrder'
  BY <1>0, NextAccess
<1>2. op \in Loads /\ op # Write /\ op \notin Clears /\ op \notin Stores(c)
  BY <1>0, <1>1, Phases DEF Accesses
<1>3. PICK f \in Fields, i \in {1, 2} : op = <<"load", f, i>>
  BY <1>2 DEF Loads
<1> HIDE DEF op
<1>4. loggerMessage \in Lines /\ line \in [Goroutines -> Lines]
  BY DEF IInv, TypeOK
<1>5. loggerMessage[f][i] \in Words
  BY <1>4 DEF Lines
<1>6. /\ line' \in [Goroutines -> Lines]
      /\ line'[g][f][i] = loggerMessage[f][i]
      /\ \A e \in Fields, j \in {1, 2} :
           e # f \/ j # i => line'[g][e][j] = line[g][e][j]
      /\ \A h \in Goroutines \ {g} : line'[h] = line[h]
  <2> DEFINE w == loggerMessage[f][i]
             m == [line[g] EXCEPT ![f][i] = w]
  <2>1. line' = [line EXCEPT ![g] = m]
    BY <1>0, <1>3
  <2>2. line[g] \in Lines
    BY <1>4
  <2> HIDE DEF w
  <2>3. /\ m \in Lines
        /\ m[f][i] = w
        /\ \A e \in Fields, j \in {1, 2} : e # f \/ j # i => m[e][j] = line[g][e][j]
    BY <1>5, <2>2, WordUpdate DEF w
  <2> HIDE DEF m
  <2>4. line'[g] = m /\ line' \in [Goroutines -> Lines]
    BY <1>4, <2>1, <2>3
  <2>5. \A h \in Goroutines \ {g} : line'[h] = line[h]
    BY <1>4, <2>1
  <2> QED BY <2>3, <2>4, <2>5 DEF w
<1> HIDE DEF c
<1>7. TypeOK'
  BY <1>0, <1>6 DEF IInv, TypeOK, CallIds, Lines, Words
<1>8. CallsAreNumbered'
  <2>1. \A h \in Goroutines : todo'[h] # <<>> => current(h)' \in admitted
    BY <1>0, <1>1 DEF IInv, CallsAreNumbered, c
  <2> QED BY <1>0, <2>1 DEF IInv, CallsAreNumbered, CallIds
<1>9. LeftoversAreCleared'
  <2> SUFFICES ASSUME NEW e \in {"message", "value"}, NEW j \in {1, 2},
                      loggerMessage[e][j] \notin failed \cup {Empty}
               PROVE  \E h \in Goroutines :
                        /\ loggerMessage[e][j] = current(h)'
                        /\ <<"store", e, j, Empty>> \in Ahead(h)'
    BY <1>0 DEF LeftoversAreCleared
  <2>1. PICK h \in Goroutines : /\ loggerMessage[e][j] = current(h)
                                /\ <<"store", e, j, Empty>> \in Ahead(h)
    BY DEF IInv, LeftoversAreCleared
  <2>2. <<"store", e, j, Empty>> \in Clears
    BY DEF Clears
  <2> QED BY <1>1, <1>2, <2>1, <2>2
<1>10. CallsMeet' /\ LinesMix'
  <2>1. \A h \in Goroutines : todo'[h] # <<>> => todo[h] # <<>>
    BY <1>0, <1>1
  <2> QED BY <1>0, <1>1, <2>1
             DEF IInv, CallsMeet, LinesMix, Explained, Overlaps
<1>12. ASSUME NEW h \in Goroutines
       PROVE  CallMixes(h)'
  <2>0. current(h)' = current(h) /\ UNCHANGED <<met, failed, loggerMessage>>
    BY <1>0, <1>1
  <2> SUFFICES ASSUME NEW j \in {1, 2}
               PROVE  /\ <<"load", "level", j>> \in Ahead(h)' =>
                           \/ <<"store", "level", j, current(h)>> \in Ahead(h)'
                           \/ Explained(current(h), loggerMessage["level"][j])
                      /\ \A e \in Fields : Write \in Ahead(h)' =>
                           \/ <<"load", e, j>> \in Ahead(h)'
                           \/ Explained(current(h), line'[h][e][j])
    BY <2>0 DEF CallMixes, Explained, Overlaps
  <2>1. /\ <<"load", "level", j>> \in Ahead(h) =>
             \/ <<"store", "level", j, current(h)>> \in Ahead(h)
             \/ Explained(current(h), loggerMessage["level"][j])
        /\ \A e \in Fields : Write \in Ahead(h) =>
             \/ <<"load", e, j>> \in Ahead(h)
             \/ Explained(current(h), line[h][e][j])
    BY DEF IInv, CallMixes
  <2>2. CASE h # g
    BY <1>1, <1>6, <2>1, <2>2
  <2>3. CASE h = g
    <3>1. <<"store", "level", j, c>> \notin Ahead(g)
      <4>1. <<"store", "level", j, c>> \in Stores(c)
        BY DEF Stores, Fields
      <4> QED BY <1>1, <1>2, <4>1, Phases
    <3>2. ASSUME NEW e \in Fields, Write \in Ahead(g)', <<"load", e, j>> \notin Ahead(g)'
          PROVE  Explained(current(g), line'[g][e][j])
      <4>1. CASE e = f /\ j = i
        <5>1. CASE f = "level"
          BY <1>1, <1>3, <1>6, <2>1, <2>3, <3>1, <4>1, <5>1 DEF c
        <5>2. CASE f # "level"
          BY <1>0, <1>6, <4>1, <5>2, FieldsExplained DEF Fields
        <5> QED BY <5>1, <5>2
      <4>2. CASE e # f \/ j # i
        BY <1>1, <1>3, <1>6, <2>1, <2>3, <3>2, <4>2
      <4> QED BY <4>1, <4>2
    <3> QED BY <1>1, <2>1, <2>3, <3>1, <3>2 DEF c
  <2> QED BY <2>2, <2>3
<1>11. AloneShowsOwn'
  <2> SUFFICES ASSUME Alone
               PROVE  /\ CallShowsOwn(g)' /\ CallIsWhole(g)'
                      /\ LinesShowOwn' /\ RefusedForAReason'
    BY DEF AloneShowsOwn, Alone
  <2>1. /\ \A e \in Fields, j \in {1, 2} :
             /\ <<"store", e, j, c>> \in Ahead(g) => Given(c, e)
             /\ <<"load", e, j>> \in Ahead(g) =>
                  \/ <<"store", e, j, c>> \in Ahead(g)
                  \/ loggerMessage[e][j] \in Shown(c, e)
             /\ Write \in Ahead(g) =>
                  \/ <<"load", e, j>> \in Ahead(g)
                  \/ line[g][e][j] \in Shown(c, e)
        /\ LinesShowOwn /\ RefusedForAReason
    BY DEF IInv, AloneShowsOwn, CallShowsOwn, c
  <2>2. UNCHANGED loggerMessage
    BY <1>0
  <2>4. \A e \in Fields, j \in {1, 2} : <<"store", e, j, c>> \notin Ahead(g)
    <3> TAKE e \in Fields, j \in {1, 2}
    <3>1. <<"store", e, j, c>> \in Stores(c)
      BY DEF Stores
    <3> QED BY <1>1, <1>2, <3>1, Phases
  <2>5. ASSUME NEW e \in Fields, NEW j \in {1, 2}, Write \in Ahead(g)',
               <<"load", e, j>> \notin Ahead(g)'
        PROVE  line'[g][e][j] \in Shown(c, e)
    <3>1. CASE e = f /\ j = i
      BY <1>1, <1>3, <1>6, <2>1, <2>4, <3>1
    <3>2. CASE e # f \/ j # i
      BY <1>1, <1>3, <1>6, <2>1, <2>5, <3>2
    <3> QED BY <3>1, <3>2
  <2>6. \A e \in Fields, j \in {1, 2} :
          /\ <<"store", e, j, c>> \in Ahead(g)' => Given(c, e)
          /\ <<"load", e, j>> \in Ahead(g)' =>
               \/ <<"store", e, j, c>> \in Ahead(g)'
               \/ loggerMessage'[e][j] \in Shown(c, e)
          /\ Write \in Ahead(g)' =>
               \/ <<"load", e, j>> \in Ahead(g)'
               \/ line'[g][e][j] \in Shown(c, e)
    <3> TAKE e \in Fields, j \in {1, 2}
    <3>1. <<"store", e, j, c>> \in Ahead(g)' => Given(c, e)
      BY <1>1, <2>1
    <3>2. <<"load", e, j>> \in Ahead(g)' =>
            \/ <<"store", e, j, c>> \in Ahead(g)'
            \/ loggerMessage'[e][j] \in Shown(c, e)
      BY <1>1, <2>1, <2>2, <2>4
    <3>3. Write \in Ahead(g)' =>
            \/ <<"load", e, j>> \in Ahead(g)'
            \/ line'[g][e][j] \in Shown(c, e)
      BY <2>5
    <3> QED BY <3>1, <3>2, <3>3
  <2>7. CallShowsOwn(g)'
    <3>1. current(g)' = c /\ UNCHANGED <<payload, failed>>
      BY <1>0, <1>1 DEF c
    <3> QED BY <2>6, <3>1 DEF CallShowsOwn, Given, Shown
  <2>8. LinesShowOwn' /\ RefusedForAReason'
    <3>1. UNCHANGED <<payload, failed, file>>
      BY <1>0
    <3>2. LinesShowOwn'
      BY <2>1, <3>1 DEF LinesShowOwn, Given, Shown
    <3>3. RefusedForAReason'
      BY <2>1, <3>1 DEF RefusedForAReason, Given, BadIn
    <3> QED BY <3>2, <3>3
  <2>9. CallIsWhole(g)'
    <3>1. Write \in Ahead(g)' /\ Write \in Ahead(g)
      BY <1>1, <1>2, Phases
    <3>2. todo'[g] # <<>>
      BY <3>1 DEF Ahead, ToSet
    <3>3. ASSUME NEW e \in Fields, NEW j \in {1, 2}, <<"load", e, j>> \notin Ahead(g)'
          PROVE  line'[g][e][j] = loggerMessage[e][j]
      <4>1. CASE e = f /\ j = i
        BY <1>6, <4>1
      <4>2. CASE e # f \/ j # i
        <5>1. <<"load", e, j>> # op
          BY <1>3, <4>2
        <5>2. \/ <<"load", e, j>> \in Ahead(g)
              \/ line[g][e][j] = loggerMessage[e][j]
          BY <3>1 DEF IInv, AloneShowsOwn, CallIsWhole
        <5> QED BY <1>1, <1>6, <3>3, <4>2, <5>1, <5>2
      <4> QED BY <4>1, <4>2
    <3>4. \A e \in Fields : ~Given(c, e) => Whole(e)
      BY <3>1 DEF IInv, AloneShowsOwn, CallIsWhole, c
    <3>5. current(g)' = c /\ UNCHANGED <<payload, loggerMessage>>
      BY <1>0, <1>1 DEF c
    <3> QED BY <3>1, <3>2, <3>3, <3>4, <3>5 DEF CallIsWhole, Given, Whole
  <2> QED BY <2>7, <2>8, <2>9
<1> QED BY <1>1, <1>7, <1>8, <1>9, <1>10, <1>11, <1>12 DEF IInv

\* What a call writes is what it has loaded of the struct; from the write on
\* only its clears are left (logger.go:402-412).
LEMMA AtTheWrite ==
  ASSUME IInv, NEW g \in Goroutines, todo[g] # <<>>, Head(todo[g])[1] = "write"
  PROVE  /\ current(g) \in CallIds /\ current(g) \in admitted
         /\ Write \in Ahead(g)
         /\ \A e \in Fields, j \in {1, 2} :
              /\ <<"store", e, j, current(g)>> \notin Ahead(g)
              /\ <<"load", e, j>> \notin Ahead(g)
<1> DEFINE c == current(g)
           s == todo[g]
           op == Head(s)
<1>1. c \in CallIds /\ c \in admitted
  BY DEF IInv, CallsAreNumbered
<1>2. s \in Seq(Accesses(c)) /\ s # <<>> /\ op[1] = "write" /\ Ordered(s)
  BY DEF IInv, TodoInOrder
<1> HIDE DEF c, s
<1>3. op \in Accesses(c) /\ ToSet(s) = {op} \cup ToSet(Tail(s))
  BY <1>2, TailOf
<1>4. /\ Len(s) \in Nat \ {0} /\ op = s[1]
      /\ DOMAIN s = 1..Len(s) /\ \A k \in 1..Len(s) : s[k] \in Accesses(c)
  BY <1>2
<1> HIDE DEF op
<1>5. op = Write
  BY <1>1, <1>2, <1>3, Phases DEF Accesses
<1>6. \A p \in ToSet(s) : p = Write \/ Phase(p) > 3
  <2> SUFFICES ASSUME NEW k \in 1..Len(s), s[k] # Write
               PROVE  Phase(s[k]) > 3
    BY <1>4 DEF ToSet
  <2>0. s[1] = Write /\ Len(s) \in Nat \ {0}
    BY <1>4, <1>5
  <2>1. k # 1 /\ 1 \in 1..Len(s) /\ 1 < k
    BY <2>0
  <2>2. Before(s[1], s[k]) /\ s[1] = Write
    BY <1>2, <1>4, <1>5, <2>1 DEF Ordered
  <2>3. Phase(s[k]) \in {1, 2, 3, 4}
    BY <1>1, <1>4, Phases DEF Accesses
  <2> QED BY <1>1, <2>2, <2>3, Phases DEF Before
<1>7. ASSUME NEW e \in Fields, NEW j \in {1, 2}
      PROVE  <<"store", e, j, c>> \notin ToSet(s) /\ <<"load", e, j>> \notin ToSet(s)
  <2>1. <<"store", e, j, c>> \in Stores(c) /\ <<"load", e, j>> \in Loads
    BY DEF Stores, Loads
  <2>2. /\ Phase(<<"store", e, j, c>>) = 1 /\ <<"store", e, j, c>> # Write
        /\ Phase(<<"load", e, j>>) = 2 /\ <<"load", e, j>> # Write
    BY <1>1, <2>1, Phases
  <2> QED BY <1>6, <2>2
<1>8. Ahead(g) = ToSet(s)
  BY DEF Ahead, s
<1> QED BY <1>1, <1>3, <1>5, <1>7, <1>8 DEF c

\* The line that a call writes shows what it has loaded (logger.go:402-406).
LEMMA WriteLineKeeps ==
  ASSUME IInv, NEW g \in Goroutines, WriteLine(g)
  PROVE  IInv'
<1> DEFINE c == current(g)
           op == Head(todo[g])
           new == [call |-> c, line |-> line[g]]
<1>0. /\ todo[g] # <<>> /\ op[1] = "write"
      /\ file' = file \/ file' = file \cup {new}
      /\ line' = [line EXCEPT ![g] = NoLine]
      /\ todo' = [todo EXCEPT ![g] = Tail(@)]
      /\ UNCHANGED <<logLevel, loggerMessage, payload, made, admitted, met, failed>>
  BY DEF WriteLine, Appended
<1>1. /\ op \in Accesses(c)
      /\ Ahead(g) = {op} \cup Ahead(g)'
      /\ op = Write => Write \notin Ahead(g)'
      /\ \A p \in Loads \cup {Write} \cup Clears :
           Phase(op) < Phase(p) => p \in Ahead(g)'
      /\ \A h \in Goroutines : current(h)' = current(h)
      /\ \A h \in Goroutines \ {g} : todo'[h] = todo[h] /\ Ahead(h)' = Ahead(h)
      /\ TodoInOrder'
  BY <1>0, NextAccess
<1>2. /\ c \in CallIds /\ c \in admitted /\ Write \in Ahead(g)
      /\ \A e \in Fields, j \in {1, 2} :
           /\ <<"store", e, j, c>> \notin Ahead(g)
           /\ <<"load", e, j>> \notin Ahead(g)
  BY <1>0, AtTheWrite
<1>3. op = Write /\ op \notin Clears
  BY <1>0, <1>1, <1>2, Phases DEF Accesses
<1>4. line[g] \in Lines /\ line \in [Goroutines -> Lines]
  BY DEF IInv, TypeOK
<1>5. /\ line' \in [Goroutines -> Lines]
      /\ \A h \in Goroutines \ {g} : line'[h] = line[h]
  <2>1. NoLine \in Lines
    BY DEF NoLine, Lines, Words
  <2> QED BY <1>0, <1>4, <2>1
<1> HIDE DEF c, op
<1>6. TypeOK'
  <2>1. \A l \in file' : l.call \in CallIds /\ l.line \in Lines
    BY <1>0, <1>2, <1>4 DEF IInv, TypeOK
  <2> QED BY <1>0, <1>5, <2>1 DEF IInv, TypeOK, CallIds, Lines, Words
<1>7. CallsAreNumbered'
  <2>1. \A h \in Goroutines : todo'[h] # <<>> => current(h)' \in admitted
    BY <1>0, <1>1, <1>2 DEF IInv, CallsAreNumbered, c
  <2>2. \A l \in file' : l.call \in admitted
    BY <1>0, <1>2 DEF IInv, CallsAreNumbered
  <2> QED BY <1>0, <2>1, <2>2 DEF IInv, CallsAreNumbered, CallIds
<1>8. LeftoversAreCleared'
  <2> SUFFICES ASSUME NEW e \in {"message", "value"}, NEW j \in {1, 2},
                      loggerMessage[e][j] \notin failed \cup {Empty}
               PROVE  \E h \in Goroutines :
                        /\ loggerMessage[e][j] = current(h)'
                        /\ <<"store", e, j, Empty>> \in Ahead(h)'
    BY <1>0 DEF LeftoversAreCleared
  <2>1. PICK h \in Goroutines : /\ loggerMessage[e][j] = current(h)
                                /\ <<"store", e, j, Empty>> \in Ahead(h)
    BY DEF IInv, LeftoversAreCleared
  <2>2. <<"store", e, j, Empty>> \in Clears
    BY DEF Clears
  <2> QED BY <1>1, <1>3, <2>1, <2>2
<1>9. CallsMeet'
  <2>1. \A h \in Goroutines : todo'[h] # <<>> => todo[h] # <<>>
    BY <1>0, <1>1
  <2> QED BY <1>0, <1>1, <2>1 DEF IInv, CallsMeet
<1>10. ASSUME NEW h \in Goroutines
       PROVE  CallMixes(h)'
  <2>1. current(h)' = current(h) /\ UNCHANGED <<met, failed, loggerMessage>>
    BY <1>0, <1>1
  <2>2. CASE h = g
    <3>1. Write \notin Ahead(h)' /\ \A j \in {1, 2} : <<"load", "level", j>> \notin Ahead(h)'
      BY <1>1, <1>2, <1>3, <2>2 DEF Fields
    <3> QED BY <3>1 DEF CallMixes
  <2>3. CASE h # g
    <3>1. Ahead(h)' = Ahead(h) /\ line'[h] = line[h]
      BY <1>1, <1>5, <2>3
    <3>2. CallMixes(h)
      BY DEF IInv
    <3> QED BY <2>1, <3>1, <3>2 DEF CallMixes, Explained, Overlaps
  <2> QED BY <2>2, <2>3
<1>11. LinesMix'
  <2>1. \A e \in Fields, j \in {1, 2} : Explained(c, line[g][e][j])
    BY <1>2 DEF IInv, CallMixes, c
  <2>2. \A l \in file', e \in Fields, j \in {1, 2} : Explained(l.call, l.line[e][j])
    BY <1>0, <2>1 DEF IInv, LinesMix
  <2>3. UNCHANGED <<met, failed>>
    BY <1>0
  <2> QED BY <2>2, <2>3 DEF LinesMix, Explained, Overlaps
<1>12. AloneShowsOwn'
  <2> SUFFICES ASSUME Alone
               PROVE  /\ CallShowsOwn(g)' /\ CallIsWhole(g)'
                      /\ LinesShowOwn' /\ RefusedForAReason'
    BY DEF AloneShowsOwn, Alone
  <2>1. CallShowsOwn(g) /\ CallIsWhole(g) /\ LinesShowOwn /\ RefusedForAReason
    BY DEF IInv, AloneShowsOwn
  <2>2. /\ Write \notin Ahead(g)'
        /\ \A e \in Fields, j \in {1, 2} :
             /\ <<"store", e, j, c>> \notin Ahead(g)'
             /\ <<"load", e, j>> \notin Ahead(g)'
        /\ current(g)' = c
    BY <1>1, <1>2, <1>3 DEF c
  <2>3. UNCHANGED <<payload, failed, loggerMessage>>
    BY <1>0
  <2>4. CallShowsOwn(g)'
    BY <2>2 DEF CallShowsOwn
  <2>5. LinesShowOwn'
    <3>1. \A e \in Fields, j \in {1, 2} : line[g][e][j] \in Shown(c, e)
      BY <1>2, <2>1 DEF CallShowsOwn, c
    <3>2. \A l \in file', e \in Fields, j \in {1, 2} :
            l.line[e][j] \in Shown(l.call, e)
      BY <1>0, <2>1, <3>1 DEF LinesShowOwn
    <3> QED BY <2>3, <3>2 DEF LinesShowOwn, Given, Shown
  <2>6. RefusedForAReason'
    BY <2>1, <2>3 DEF RefusedForAReason, Given, BadIn
  <2>7. CallIsWhole(g)'
    <3>1. Whole("level")
      <4>1. \A j \in {1, 2} : line[g]["level"][j] = loggerMessage["level"][j]
        BY <1>2, <2>1 DEF CallIsWhole, Fields
      <4>2. \A j \in {1, 2} : line[g]["level"][j] = c
        BY <1>2, <2>1 DEF CallShowsOwn, Shown, Given, Fields, c
      <4> QED BY <4>1, <4>2 DEF Whole
    <3>2. \A p \in Clears : p \in Ahead(g)'
      BY <1>1, <1>2, <1>3, Phases
    <3>3. \A e \in {"message", "value"}, j \in {1, 2} :
            <<"store", e, j, Empty>> \in Ahead(g)'
      BY <3>2 DEF Clears
    <3>4. todo'[g] # <<>>
      BY <3>3 DEF Ahead, ToSet
    <3> QED BY <2>2, <2>3, <3>1, <3>3, <3>4 DEF CallIsWhole, Whole, Fields
  <2> QED BY <2>4, <2>5, <2>6, <2>7
<1> QED BY <1>1, <1>6, <1>7, <1>8, <1>9, <1>10, <1>11, <1>12 DEF IInv

\* A call in which json.Marshal fails leaves its words behind, and is over; when
\* it is alone, that is for a word of its own or one that a failed call has left
\* (logger.go:397-400).
LEMMA MarshalFailsKeeps ==
  ASSUME IInv, NEW g \in Goroutines, MarshalFails(g)
  PROVE  IInv'
<1> DEFINE c == current(g)
           m == line[g]
<1>0. /\ todo[g] # <<>> /\ Head(todo[g])[1] = "write"
      /\ Refused(m) \/ Torn(m)
      /\ failed' = failed \cup {c}
      /\ todo' = [todo EXCEPT ![g] = <<>>]
      /\ line' = [line EXCEPT ![g] = NoLine]
      /\ UNCHANGED <<logLevel, loggerMessage, payload, made, file, admitted, met>>
  BY DEF MarshalFails
<1>1. /\ c \in CallIds /\ c \in admitted /\ Write \in Ahead(g)
      /\ \A e \in Fields, j \in {1, 2} :
           /\ <<"store", e, j, c>> \notin Ahead(g)
           /\ <<"load", e, j>> \notin Ahead(g)
  BY <1>0, AtTheWrite
<1>2. /\ \A h \in Goroutines : current(h)' = current(h)
      /\ \A h \in Goroutines \ {g} : todo'[h] = todo[h] /\ Ahead(h)' = Ahead(h)
      /\ todo'[g] = <<>> /\ Ahead(g)' = {}
  BY <1>0 DEF IInv, TypeOK, current, Ahead, ToSet
<1>3. /\ line' \in [Goroutines -> Lines]
      /\ \A h \in Goroutines \ {g} : line'[h] = line[h]
  <2>1. NoLine \in Lines /\ line \in [Goroutines -> Lines]
    BY DEF IInv, TypeOK, NoLine, Lines, Words
  <2> QED BY <1>0, <2>1
<1>4. failed' = failed \cup {c} /\ UNCHANGED <<payload, loggerMessage, file, met, made>>
  BY <1>0
<1> HIDE DEF c, m
<1>5. TypeOK'
  BY <1>0, <1>1, <1>3 DEF IInv, TypeOK, CallIds, Lines, Words
<1>6. CallsAreNumbered'
  <2>1. \A h \in Goroutines : todo'[h] # <<>> => current(h)' \in admitted
    BY <1>2 DEF IInv, CallsAreNumbered
  <2> QED BY <1>0, <2>1 DEF IInv, CallsAreNumbered, CallIds
<1>7. TodoInOrder'
  <2> SUFFICES ASSUME NEW h \in Goroutines
               PROVE  /\ todo'[h] \in Seq(Accesses(current(h)'))
                      /\ Ordered(todo'[h])
                      /\ \A a \in Ahead(h)', p \in Loads \cup {Write} \cup Clears :
                           Phase(a) < Phase(p) => p \in Ahead(h)'
    BY DEF TodoInOrder, Phase
  <2>1. CASE h = g
    <3>1. Ordered(<<>>) /\ <<>> \in Seq(Accesses(current(h)'))
      BY DEF Ordered
    <3> QED BY <1>2, <2>1, <3>1
  <2>2. CASE h # g
    BY <1>2, <2>2 DEF IInv, TodoInOrder
  <2> QED BY <2>1, <2>2
<1>8. LeftoversAreCleared'
  <2> SUFFICES ASSUME NEW e \in {"message", "value"}, NEW j \in {1, 2},
                      loggerMessage[e][j] \notin failed \cup {c, Empty}
               PROVE  \E h \in Goroutines :
                        /\ loggerMessage[e][j] = current(h)'
                        /\ <<"store", e, j, Empty>> \in Ahead(h)'
    BY <1>4 DEF LeftoversAreCleared
  <2>1. PICK h \in Goroutines : /\ loggerMessage[e][j] = current(h)
                                /\ <<"store", e, j, Empty>> \in Ahead(h)
    BY DEF IInv, LeftoversAreCleared
  <2>2. h # g
    BY <2>1 DEF c
  <2> QED BY <1>2, <2>1, <2>2
<1>9. CallsMeet'
  <2>1. \A h \in Goroutines : todo'[h] # <<>> => todo[h] # <<>>
    BY <1>2
  <2> QED BY <1>2, <1>4, <2>1 DEF IInv, CallsMeet
<1>10. ASSUME NEW h \in Goroutines
       PROVE  CallMixes(h)'
  <2>1. current(h)' = current(h)
    BY <1>2
  <2>2. CASE h = g
    BY <1>2, <2>2 DEF CallMixes
  <2>3. CASE h # g
    <3>1. Ahead(h)' = Ahead(h) /\ line'[h] = line[h]
      BY <1>2, <1>3, <2>3
    <3>2. CallMixes(h)
      BY DEF IInv
    <3> QED BY <1>4, <2>1, <3>1, <3>2 DEF CallMixes, Explained, Overlaps
  <2> QED BY <2>2, <2>3
<1>11. LinesMix'
  BY <1>4 DEF IInv, LinesMix, Explained, Overlaps
<1>12. AloneShowsOwn'
  <2> SUFFICES ASSUME Alone
               PROVE  /\ CallShowsOwn(g)' /\ CallIsWhole(g)'
                      /\ LinesShowOwn' /\ RefusedForAReason'
    BY DEF AloneShowsOwn, Alone
  <2>1. CallShowsOwn(g) /\ CallIsWhole(g) /\ LinesShowOwn /\ RefusedForAReason
    BY DEF IInv, AloneShowsOwn
  <2>2. CallShowsOwn(g)'
    BY <1>2 DEF CallShowsOwn
  <2>3. LinesShowOwn'
    BY <1>4, <2>1 DEF LinesShowOwn, Given, Shown
  <2>4. \A e \in Fields, j \in {1, 2} : /\ m[e][j] \in Shown(c, e)
                                        /\ m[e][j] = loggerMessage[e][j]
    BY <1>1, <2>1 DEF CallShowsOwn, CallIsWhole, c, m
  <2>5. \A e \in Fields : Whole(e)
    <3> SUFFICES ASSUME NEW e \in Fields PROVE Whole(e)
      OBVIOUS
    <3>1. CASE Given(c, e)
      BY <2>4, <3>1 DEF Whole, Shown
    <3>2. CASE ~Given(c, e)
      BY <1>1, <2>1, <3>2 DEF CallIsWhole, c
    <3> QED BY <3>1, <3>2
  <2>6. CallIsWhole(g)'
    BY <1>2, <1>4, <2>5 DEF CallIsWhole, Whole
  <2>7. ~Torn(m)
    BY <2>4, <2>5 DEF Torn, Whole
  <2>8. PICK f \in Fields, w \in Words \ {Empty} : m[f] = <<w, w>> /\ BadIn(w, f)
    BY <1>0, <2>7 DEF Refused, m
  <2>9. \/ w = c
        \/ ~Given(c, f) /\ w \in failed
    BY <2>4, <2>8 DEF Shown
  <2>10. \/ BadIn(c, f)
         \/ /\ ~Given(c, f)
            /\ \E d \in failed' : d[2] < c[2] /\ BadIn(d, f)
    <3>1. CASE w = c
      BY <2>8, <3>1
    <3>2. CASE w # c
      <4>1. ~Given(c, f) /\ w \in failed /\ BadIn(w, f)
        BY <2>8, <2>9, <3>2
      <4>2. w \in CallIds /\ w[2] <= made[w[1]]
        BY <4>1 DEF IInv, TypeOK, CallsAreNumbered
      <4>3. w[1] = g /\ c = <<g, made[g]>> /\ made[g] \in Nat
        BY <4>2 DEF Alone, CallIds, IInv, TypeOK, c, current
      <4>4. w[2] # c[2] /\ w[2] \in Nat
        BY <3>2, <4>2, <4>3 DEF CallIds
      <4>5. w[2] < c[2]
        BY <4>2, <4>3, <4>4
      <4> QED BY <1>4, <4>1, <4>5
    <3> QED BY <3>1, <3>2
  <2>11. RefusedForAReason'
    <3> HIDE DEF BadIn, Given
    <3>1. \A d \in failed' : \E e \in Fields :
            \/ BadIn(d, e)
            \/ /\ ~Given(d, e)
               /\ \E b \in failed' : b[2] < d[2] /\ BadIn(b, e)
      <4>1. ASSUME NEW d \in failed
            PROVE  \E e \in Fields :
                     \/ BadIn(d, e)
                     \/ /\ ~Given(d, e)
                        /\ \E b \in failed' : b[2] < d[2] /\ BadIn(b, e)
        BY <1>4, <2>1 DEF RefusedForAReason
      <4> QED BY <1>4, <2>10, <4>1
    <3> QED BY <1>4, <3>1 DEF RefusedForAReason, BadIn, Given
  <2> QED BY <2>2, <2>3, <2>6, <2>11
<1> QED BY <1>5, <1>6, <1>7, <1>8, <1>9, <1>10, <1>11, <1>12 DEF IInv

\* The level changes nothing of what calls have stored (logger.go:259-263).
LEMMA EnvironmentKeeps ==
  ASSUME IInv, (\E level \in Levels : SetLogLevel(level)) \/ UNCHANGED vars
  PROVE  IInv'
<1>0. /\ logLevel' \in Levels
      /\ UNCHANGED <<loggerMessage, payload, made, todo, line, file, admitted,
                      met, failed>>
  <2>1. logLevel \in Levels
    BY DEF IInv, TypeOK
  <2>2. CASE \E level \in Levels : SetLogLevel(level)
    BY <2>1, <2>2 DEF SetLogLevel
  <2>3. CASE UNCHANGED vars
    BY <2>1, <2>3 DEF vars
  <2> QED BY <2>2, <2>3
<1>1. \A g \in Goroutines : current(g)' = current(g) /\ Ahead(g)' = Ahead(g)
  BY <1>0 DEF current, Ahead
<1>2. TypeOK'
  BY <1>0 DEF IInv, TypeOK, CallIds, Lines, Words
<1>3. CallsAreNumbered'
  BY <1>0, <1>1 DEF IInv, CallsAreNumbered, CallIds
<1>4. TodoInOrder'
  BY <1>0, <1>1 DEF IInv, TodoInOrder, Ordered, Phase
<1>5. LeftoversAreCleared'
  BY <1>0, <1>1 DEF IInv, LeftoversAreCleared
<1>6. CallsMeet' /\ LinesMix'
  BY <1>0, <1>1 DEF IInv, CallsMeet, LinesMix, Explained, Overlaps
<1>7. \A g \in Goroutines : CallMixes(g)'
  BY <1>0, <1>1 DEF IInv, CallMixes, Explained, Overlaps
<1>8. AloneShowsOwn'
  <2>1. \A g \in Goroutines : CallShowsOwn(g)' <=> CallShowsOwn(g)
    BY <1>0, <1>1 DEF CallShowsOwn, Given, Shown
  <2>2. \A g \in Goroutines : CallIsWhole(g)' <=> CallIsWhole(g)
    BY <1>0, <1>1 DEF CallIsWhole, Given, Whole
  <2>3. LinesShowOwn' <=> LinesShowOwn
    BY <1>0 DEF LinesShowOwn, Given, Shown
  <2>4. RefusedForAReason' <=> RefusedForAReason
    BY <1>0 DEF RefusedForAReason, Given, BadIn
  <2> QED BY <2>1, <2>2, <2>3, <2>4 DEF IInv, AloneShowsOwn, Alone
<1> QED BY <1>2, <1>3, <1>4, <1>5, <1>6, <1>7, <1>8 DEF IInv

\* A call that begins finds nothing of calls that are over but what the failed
\* ones have left (logger.go:284-290 and 415-420).
LEMMA BeginKeeps ==
  ASSUME IInv, NEW g \in Goroutines, NEW p \in Inputs, Begin(g, p)
  PROVE  IInv'
<1> DEFINE c == <<g, made[g] + 1>>
           allowed == isLogLevelAllowed(p.level)
           all == SetLoggerData(c, p) \o WriteToFile
<1>0. /\ todo[g] = <<>> /\ made[g] < MaxCalls
      /\ made' = [made EXCEPT ![g] = @ + 1]
      /\ payload' = [d \in DOMAIN payload \cup {c} |->
                       IF d = c THEN p ELSE payload[d]]
      /\ todo' = [todo EXCEPT ![g] = When(allowed, all)]
      /\ admitted' = admitted \cup {d \in {c} : allowed}
      /\ met' = met \cup {{c, d} : d \in underWay}
      /\ UNCHANGED <<logLevel, loggerMessage, line, file, failed>>
  BY DEF Begin
<1>1. /\ made \in [Goroutines -> 0..MaxCalls] /\ DOMAIN todo = Goroutines
      /\ DOMAIN payload = {d \in CallIds : d[2] <= made[d[1]]}
      /\ admitted \subseteq DOMAIN payload /\ failed \subseteq admitted
  BY DEF IInv, TypeOK, CallsAreNumbered
<1>2. /\ c \in CallIds /\ c \notin DOMAIN payload
      /\ current(g)' = c
      /\ \A h \in Goroutines \ {g} : /\ current(h)' = current(h)
                                     /\ todo'[h] = todo[h]
                                     /\ Ahead(h)' = Ahead(h)
      /\ todo'[g] = When(allowed, all)
      /\ Ahead(g) = {}
  BY <1>0, <1>1 DEF CallIds, current, Ahead, ToSet
<1>3. /\ all \in Seq(Accesses(c)) /\ Ordered(all)
      /\ Loads \cup {Write} \cup Clears \subseteq ToSet(all)
      /\ \A f \in Fields, i \in {1, 2} :
           <<"store", f, i, c>> \in ToSet(all) <=>
             f = "level" \/ p[f] # "none"
  BY <1>2, CallAccesses, InputsAssumption
<1> HIDE DEF c, all, allowed
<1>4. \/ /\ allowed /\ todo'[g] = all /\ Ahead(g)' = ToSet(all)
         /\ admitted' = admitted \cup {c}
      \/ /\ ~allowed /\ todo'[g] = <<>> /\ Ahead(g)' = {}
         /\ admitted' = admitted
  <2>1. CASE allowed
    BY <1>0, <1>2, <2>1 DEF When, Ahead
  <2>2. CASE ~allowed
    BY <1>0, <1>2, <2>2 DEF When, Ahead, ToSet
  <2> QED BY <2>1, <2>2
<1>5. \A d \in admitted : d # c /\ payload'[d] = payload[d]
  BY <1>0, <1>1, <1>2
<1>12. \A h \in Goroutines \ {g} : todo[h] # <<>> => {c, current(h)} \in met'
  BY <1>0 DEF underWay
<1>13. met \subseteq met' /\ met' \subseteq SUBSET CallIds
  <2>1. underWay \subseteq CallIds
    BY DEF IInv, TypeOK, CallsAreNumbered, underWay
  <2> QED BY <1>0, <1>2, <2>1 DEF IInv, TypeOK
<1>6. TypeOK'
  <2>1. /\ DOMAIN payload' \subseteq CallIds
        /\ \A d \in DOMAIN payload' : payload'[d] \in Inputs
    BY <1>0, <1>2 DEF IInv, TypeOK
  <2>2. made' \in [Goroutines -> 0..MaxCalls] /\ DOMAIN todo' = Goroutines
    BY <1>0, <1>1
  <2>3. admitted' \subseteq CallIds /\ failed \subseteq admitted'
    BY <1>2, <1>4 DEF IInv, TypeOK
  <2>4. /\ CallIds' = CallIds /\ Lines' = Lines
        /\ UNCHANGED <<logLevel, loggerMessage, line, file, failed>>
    BY <1>0 DEF CallIds, Lines, Words
  <2> QED BY <1>13, <2>1, <2>2, <2>3, <2>4 DEF IInv, TypeOK
<1>7. CallsAreNumbered'
  <2>1. DOMAIN payload' = {d \in CallIds : d[2] <= made'[d[1]]}
    <3>1. DOMAIN payload' = DOMAIN payload \cup {c}
      BY <1>0
    <3>2. ASSUME NEW d \in CallIds
          PROVE  d[2] <= made'[d[1]] <=> d[2] <= made[d[1]] \/ d = c
      BY <1>0, <1>1 DEF CallIds, c
    <3> QED BY <1>1, <1>2, <3>1, <3>2
  <2>2. admitted' \subseteq DOMAIN payload'
    BY <1>0, <1>1, <1>4
  <2>3. \A h \in Goroutines : todo'[h] # <<>> => current(h)' \in admitted'
    BY <1>2, <1>4 DEF IInv, CallsAreNumbered
  <2>4. \A l \in file' : l.call \in admitted'
    BY <1>0, <1>4 DEF IInv, CallsAreNumbered
  <2> QED BY <2>1, <2>2, <2>3, <2>4 DEF CallsAreNumbered, CallIds
<1>8. TodoInOrder'
  <2> SUFFICES ASSUME NEW h \in Goroutines
               PROVE  /\ todo'[h] \in Seq(Accesses(current(h)'))
                      /\ Ordered(todo'[h])
                      /\ \A a \in Ahead(h)', o \in Loads \cup {Write} \cup Clears :
                           Phase(a) < Phase(o) => o \in Ahead(h)'
    BY DEF TodoInOrder, Phase
  <2>1. CASE h = g
    <3>1. Ordered(<<>>) /\ <<>> \in Seq(Accesses(current(h)'))
      BY DEF Ordered
    <3> QED BY <1>2, <1>3, <1>4, <2>1, <3>1
  <2>2. CASE h # g
    BY <1>2, <2>2 DEF IInv, TodoInOrder
  <2> QED BY <2>1, <2>2
<1>9. LeftoversAreCleared'
  <2> SUFFICES ASSUME NEW e \in {"message", "value"}, NEW j \in {1, 2},
                      loggerMessage[e][j] \notin failed \cup {Empty}
               PROVE  \E h \in Goroutines :
                        /\ loggerMessage[e][j] = current(h)'
                        /\ <<"store", e, j, Empty>> \in Ahead(h)'
    BY <1>0 DEF LeftoversAreCleared
  <2>1. PICK h \in Goroutines : /\ loggerMessage[e][j] = current(h)
                                /\ <<"store", e, j, Empty>> \in Ahead(h)
    BY DEF IInv, LeftoversAreCleared
  <2> QED BY <1>2, <2>1
<1>10. CallsMeet' /\ LinesMix'
  <2>1. ASSUME NEW h \in Goroutines, NEW k \in Goroutines,
               todo'[h] # <<>>, todo'[k] # <<>>, h # k
        PROVE  {current(h)', current(k)'} \in met'
    <3>1. CASE h = g
      BY <1>2, <1>12, <2>1, <3>1
    <3>2. CASE k = g
      <4>1. {c, current(h)} \in met'
        BY <1>2, <1>12, <2>1, <3>2
      <4>2. {current(h), c} = {c, current(h)}
        OBVIOUS
      <4> QED BY <1>2, <2>1, <3>2, <4>1, <4>2
    <3>3. CASE h # g /\ k # g
      BY <1>2, <1>13, <2>1, <3>3 DEF IInv, CallsMeet
    <3> QED BY <3>1, <3>2, <3>3
  <2>2. LinesMix'
    <3>1. UNCHANGED <<file, failed>>
      BY <1>0
    <3> QED BY <1>13, <3>1 DEF IInv, LinesMix, Explained, Overlaps
  <2> QED BY <2>1, <2>2 DEF CallsMeet
<1>14. ASSUME NEW h \in Goroutines
       PROVE  CallMixes(h)'
  <2>1. UNCHANGED <<loggerMessage, line, failed>>
    BY <1>0
  <2>2. CASE h = g
    <3>1. \A j \in {1, 2}, e \in Fields :
            /\ <<"store", "level", j, c>> \in ToSet(all)
            /\ <<"load", e, j>> \in ToSet(all)
      <4>1. "level" \in Fields /\ \A j \in {1, 2}, e \in Fields : <<"load", e, j>> \in Loads
        BY DEF Fields, Loads
      <4> QED BY <1>3, <4>1
    <3>2. current(h)' = c /\ (Ahead(h)' = ToSet(all) \/ Ahead(h)' = {})
      BY <1>2, <1>4, <2>2
    <3>3. ASSUME NEW j \in {1, 2}
          PROVE  /\ <<"load", "level", j>> \in Ahead(h)' =>
                      <<"store", "level", j, c>> \in Ahead(h)'
                 /\ \A e \in Fields : Write \in Ahead(h)' =>
                      <<"load", e, j>> \in Ahead(h)'
      <4>1. CASE Ahead(h)' = ToSet(all)
        BY <3>1, <4>1 DEF Fields
      <4>2. CASE Ahead(h)' = {}
        BY <4>2
      <4> QED BY <3>2, <4>1, <4>2
    <3> QED BY <3>2, <3>3 DEF CallMixes
  <2>3. CASE h # g
    <3>1. Ahead(h)' = Ahead(h) /\ current(h)' = current(h)
      BY <1>2, <2>3
    <3>2. CallMixes(h)
      BY DEF IInv
    <3> QED BY <1>13, <2>1, <3>1, <3>2 DEF CallMixes, Explained, Overlaps
  <2> QED BY <2>2, <2>3
<1>11. AloneShowsOwn'
  <2> SUFFICES ASSUME Alone
               PROVE  /\ CallShowsOwn(g)' /\ CallIsWhole(g)'
                      /\ LinesShowOwn' /\ RefusedForAReason'
    BY DEF AloneShowsOwn, Alone
  <2>1. LinesShowOwn /\ RefusedForAReason
    BY DEF IInv, AloneShowsOwn
  <2>2. payload'[c] = p
    BY <1>0
  <2>3. \A e \in {"message", "value"}, j \in {1, 2} :
          loggerMessage[e][j] \in failed \cup {Empty}
    BY <1>2 DEF IInv, LeftoversAreCleared, Alone
  <2>4. CallShowsOwn(g)'
    <3>1. UNCHANGED <<loggerMessage, failed>>
      BY <1>0
    <3>2. ASSUME NEW e \in Fields, NEW j \in {1, 2}
          PROVE  <<"load", e, j>> \in ToSet(all)
      BY <1>3 DEF Loads
    <3> DEFINE given(e) == \/ e = "level"
                           \/ p[e] # "none"
    <3>3. \A e \in Fields : Given(current(g), e)' <=> given(e)
      BY <1>2, <2>2 DEF Given
    <3>4. ASSUME NEW e \in Fields, NEW j \in {1, 2}
          PROVE  /\ <<"store", e, j, c>> \in Ahead(g)' => given(e)
                 /\ <<"load", e, j>> \in Ahead(g)' =>
                      \/ <<"store", e, j, c>> \in Ahead(g)'
                      \/ ~given(e) /\ loggerMessage'[e][j] \in failed' \cup {Empty}
                 /\ Write \in Ahead(g)' => <<"load", e, j>> \in Ahead(g)'
      <4>1. ~given(e) => loggerMessage'[e][j] \in failed' \cup {Empty}
        BY <2>3, <3>1 DEF Fields
      <4> QED BY <1>3, <1>4, <3>2, <4>1
    <3> HIDE DEF given
    <3> QED BY <1>2, <3>3, <3>4 DEF CallShowsOwn, Shown
  <2>5. LinesShowOwn'
    <3>1. \A l \in file : l.call \in admitted
      BY DEF IInv, CallsAreNumbered
    <3>2. \A l \in file : payload'[l.call] = payload[l.call]
      BY <1>5, <3>1
    <3>3. UNCHANGED <<file, failed>>
      BY <1>0
    <3> QED BY <2>1, <3>2, <3>3 DEF LinesShowOwn, Given, Shown
  <2>6. RefusedForAReason'
    <3>1. \A d \in failed : payload'[d] = payload[d]
      BY <1>1, <1>5
    <3>2. UNCHANGED failed
      BY <1>0
    <3> QED BY <2>1, <3>1, <3>2 DEF RefusedForAReason, Given, BadIn
  <2>7. CallIsWhole(g)'
    <3>1. UNCHANGED loggerMessage
      BY <1>0
    <3>2. \A e \in Fields : Whole(e)'
      BY <1>0, <3>1 DEF IInv, AloneShowsOwn, CallIsWhole, Whole
    <3>3. CASE Ahead(g)' = {} /\ todo'[g] = <<>>
      BY <3>2, <3>3 DEF CallIsWhole
    <3>4. CASE Ahead(g)' = ToSet(all)
      <4>0. Write \in Ahead(g)'
        BY <1>3, <3>4
      <4>1. Write \in Ahead(g)' /\ todo'[g] # <<>>
        BY <4>0 DEF Ahead, ToSet
      <4>2. \A e \in Fields, j \in {1, 2} : <<"load", e, j>> \in Ahead(g)'
        BY <1>3, <3>4 DEF Loads
      <4> QED BY <3>2, <4>1, <4>2 DEF CallIsWhole
    <3> QED BY <1>4, <3>3, <3>4
  <2> QED BY <2>4, <2>5, <2>6, <2>7
<1> QED BY <1>6, <1>7, <1>8, <1>9, <1>10, <1>11, <1>14 DEF IInv

\* Every step keeps the invariant.
LEMMA StepIInv == IInv /\ [Next]_vars => IInv'
BY BeginKeeps, StoreWordKeeps, LoadWordKeeps, WriteLineKeeps,
   MarshalFailsKeeps, EnvironmentKeeps
   DEF Next

\* The invariant holds of every reachable state of the logger.
THEOREM Invariance == Spec => []IInv
BY InitIInv, StepIInv, PTL DEF Spec

-----------------------------------------------------------------------------
(* The results.                                                            *)

\* Every variable keeps its type (logger.go:372-412).
THEOREM TypeCorrect == Spec => []TypeOK
<1>1. IInv => TypeOK
  BY DEF IInv
<1> QED BY <1>1, Invariance, PTL

\* The words of some fields of a line, one by one.
LEMMA WordsAre ==
  ASSUME NEW l, NEW F, NEW c
  PROVE  c \in WordsOf(l, F) <=>
           c # Empty /\ \E f \in F, i \in {1, 2} : c = l[f][i]
<1> DEFINE words(f) == {l[f][1], l[f][2]}
<1>1. c \in WordsOf(l, F) <=> c # Empty /\ \E f \in F : c \in words(f)
  <2> DEFINE S == {words(f) : f \in F}
  <2>1. WordsOf(l, F) = (UNION S) \ {Empty}
    BY DEF WordsOf
  <2>2. (\E x \in S : c \in x) <=> \E f \in F : c \in words(f)
    OBVIOUS
  <2> HIDE DEF S, words
  <2>3. c \in UNION S <=> \E x \in S : c \in x
    OBVIOUS
  <2> QED BY <2>1, <2>2, <2>3
<1>2. \A f : c \in {l[f][1], l[f][2]} <=> \E i \in {1, 2} : c = l[f][i]
  OBVIOUS
<1> QED BY <1>1, <1>2

\* However many goroutines log at once, Message and Value hold nothing of a
\* call that is over, unless json.Marshal failed in it (logger.go:372-412).
THEOREM NothingIsLeft == Spec => []NoLeftovers
<1>1. IInv => NoLeftovers
  <2> SUFFICES ASSUME IInv, NEW f \in {"message", "value"}, NEW i \in {1, 2},
                      loggerMessage[f][i] \notin failed \cup {Empty}
               PROVE  Running(loggerMessage[f][i])
    BY WordsAre DEF NoLeftovers
  <2>1. PICK g \in Goroutines : /\ loggerMessage[f][i] = current(g)
                                /\ <<"store", f, i, Empty>> \in Ahead(g)
    BY DEF IInv, LeftoversAreCleared
  <2>2. todo[g] # <<>>
    BY <2>1 DEF Ahead, ToSet
  <2> QED BY <2>1, <2>2 DEF Running
<1> QED BY <1>1, Invariance, PTL

\* However many goroutines log at once, a line mixes its own call's words only
\* with those of calls that were under way with it, or whose json.Marshal failed
\* (logger.go:372-374 and 395-412).
THEOREM MixedLinesMet == Spec => []MixedLinesOverlap
<1>1. IInv => MixedLinesOverlap
  <2> SUFFICES ASSUME IInv, NEW l \in file,
                      NEW c \in WordsOf(l.line, Fields), c # l.call
               PROVE  {l.call, c} \in met \/ c \in failed
    BY DEF MixedLinesOverlap
  <2>1. c # Empty /\ \E f \in Fields, i \in {1, 2} : c = l.line[f][i]
    BY WordsAre
  <2> QED BY <2>1 DEF IInv, LinesMix, Explained, Overlaps
<1> QED BY <1>1, Invariance, PTL

\* In a process of one goroutine, a line is made of its own call's words, and
\* lacks none, until json.Marshal fails in a call (logger.go:372-412).
THEOREM AloneOwnLine == Spec => [](Alone => OwnLine)
<1>1. IInv /\ Alone => OwnLine
  <2> SUFFICES ASSUME IInv, Alone, failed = {}, NEW l \in file
               PROVE  LET p == payload[l.call]
                      IN /\ WordsOf(l.line, Fields) = {l.call}
                         /\ l.line["level"] = <<l.call, l.call>>
                         /\ p.message # "none" <=> l.line["message"] = <<l.call, l.call>>
                         /\ p.value # "none" <=> l.line["value"] = <<l.call, l.call>>
    BY DEF OwnLine
  <2> DEFINE c == l.call
             m == l.line
  <2>1. c \in CallIds /\ m \in Lines /\ c # Empty
    BY Phases DEF IInv, TypeOK
  <2>2. \A f \in Fields, i \in {1, 2} :
          m[f][i] = IF Given(c, f) THEN c ELSE Empty
    BY DEF IInv, AloneShowsOwn, LinesShowOwn, Shown
  <2>3. \A f \in Fields : m[f] = <<m[f][1], m[f][2]>>
    BY <2>1 DEF Lines
  <2> HIDE DEF c, m
  <2>4. \A f \in Fields : Given(c, f) <=> m[f] = <<c, c>>
    BY <2>1, <2>2, <2>3
  <2>5. WordsOf(m, Fields) = {c}
    <3>1. Given(c, "level") /\ "level" \in Fields
      BY DEF Given, Fields
    <3> QED BY <2>1, <2>2, <3>1, WordsAre
  <2> QED BY <2>4, <2>5 DEF Given, Fields, c, m
<1> QED BY <1>1, Invariance, PTL

\* In a process of one goroutine, a call reaches into a later one only if
\* json.Marshal has failed in it (logger.go:397-400).
THEOREM AloneOnlyRefusedLeak == Spec => [](Alone => OnlyRefusedCallsLeak)
<1>1. IInv /\ Alone => OnlyRefusedCallsLeak
  <2> SUFFICES ASSUME IInv, Alone, NEW l \in file,
                      NEW w \in WordsOf(l.line, Fields), w # l.call
               PROVE  w \in failed
    BY DEF OnlyRefusedCallsLeak, ForeignWordsWereRefused, IInv, AloneShowsOwn
  <2>1. w # Empty
    BY WordsAre
  <2>2. PICK f \in Fields, i \in {1, 2} : w = l.line[f][i]
    BY WordsAre
  <2>3. l.line[f][i] \in Shown(l.call, f)
    BY DEF IInv, AloneShowsOwn, LinesShowOwn
  <2> QED BY <2>1, <2>2, <2>3 DEF Shown
<1> QED BY <1>1, Invariance, PTL
=============================================================================
