--------------------------- MODULE ListenersProofs ---------------------------
(***************************************************************************)
(* TLAPS proofs about waiting for and listening to messages, for any set   *)
(* of waiters, listeners, message types and payload types, on any of the   *)
(* three clients.                                                          *)
(***************************************************************************)
EXTENDS Listeners, TLAPS

USE ListenerAssumption

Owners == Waiters \cup Listeners

Distinct(hs) == \A i, j \in DOMAIN hs : hs[i].who = hs[j].who => i = j
HandlersOK ==
  /\ handlers \in [Outer -> Seq(Handlers)]
  /\ \A o \in Outer : Distinct(handlers[o])

-----------------------------------------------------------------------------
(* The emitter's dictionary of handlers *)

\* Adding a handler keeps the others, and keeps them apart.
LEMMA WithFacts ==
  ASSUME NEW hs \in Seq(Handlers), Distinct(hs), NEW x \in Owners, NEW b \in BOOLEAN,
         \A h \in Entries(hs) : h.who # x
  PROVE  /\ With(hs, x, b) \in Seq(Handlers)
         /\ Distinct(With(hs, x, b))
         /\ Entries(With(hs, x, b)) = Entries(hs) \cup {[who |-> x, once |-> b]}
<1> DEFINE h == [who |-> x, once |-> b]
           n == Len(hs)
<1>1. h \in Handlers /\ h.who = x
  BY DEF Handlers, Owners
<1>2. With(hs, x, b) = Append(hs, h)
  BY DEF With
<1> HIDE DEF h
<1>3. /\ Append(hs, h) \in Seq(Handlers)
      /\ n \in Nat /\ DOMAIN hs = 1 .. n
      /\ DOMAIN Append(hs, h) = 1 .. n + 1
      /\ Append(hs, h)[n + 1] = h
      /\ \A i \in 1 .. n : Append(hs, h)[i] = hs[i]
  BY <1>1
<1>4. \A i \in 1 .. n : hs[i].who # x
  BY <1>3 DEF Entries
<1>5. Distinct(Append(hs, h))
  <2> SUFFICES ASSUME NEW i \in 1 .. n + 1, NEW j \in 1 .. n + 1,
                      Append(hs, h)[i].who = Append(hs, h)[j].who
               PROVE  i = j
    BY <1>3 DEF Distinct
  <2>1. CASE i \in 1 .. n /\ j \in 1 .. n
    BY <1>3, <2>1 DEF Distinct
  <2>2. CASE i = n + 1 \/ j = n + 1
    <3>1. (i = n + 1 /\ j \in 1 .. n) \/ (j = n + 1 /\ i \in 1 .. n) \/ (i = n + 1 /\ j = n + 1)
      BY <1>3, <2>2
    <3> QED BY <1>1, <1>3, <1>4, <3>1
  <2> QED BY <1>3, <2>1, <2>2
<1>6. Entries(Append(hs, h)) = Entries(hs) \cup {h}
  <2>1. \A e \in Entries(Append(hs, h)) : e \in Entries(hs) \cup {h}
    <3> SUFFICES ASSUME NEW i \in 1 .. n + 1 PROVE Append(hs, h)[i] \in Entries(hs) \cup {h}
      BY <1>3 DEF Entries
    <3>1. i = n + 1 \/ i \in 1 .. n
      BY <1>3
    <3> QED BY <1>3, <3>1 DEF Entries
  <2>2. \A e \in Entries(hs) : e \in Entries(Append(hs, h))
    <3> SUFFICES ASSUME NEW i \in 1 .. n PROVE hs[i] \in Entries(Append(hs, h))
      BY <1>3 DEF Entries
    <3>1. i \in 1 .. n + 1 /\ Append(hs, h)[i] = hs[i]
      BY <1>3
    <3> QED BY <1>3, <3>1 DEF Entries
  <2>3. h \in Entries(Append(hs, h))
    <3>1. n + 1 \in 1 .. n + 1
      BY <1>3
    <3> QED BY <1>3, <3>1 DEF Entries
  <2> QED BY <2>1, <2>2, <2>3
<1> QED BY <1>2, <1>3, <1>5, <1>6 DEF h

\* Removing a handler removes exactly that one.
LEMMA WithoutFacts ==
  ASSUME NEW hs \in Seq(Handlers), Distinct(hs), NEW x
  PROVE  /\ Without(hs, x) \in Seq(Handlers)
         /\ Distinct(Without(hs, x))
         /\ Entries(Without(hs, x)) = {h \in Entries(hs) : h.who # x}
<1> DEFINE n == Len(hs)
           p == PlaceOf(hs, x)
           rest == [i \in 1 .. n - 1 |-> IF i < p THEN hs[i] ELSE hs[i + 1]]
<1>1. n \in Nat /\ DOMAIN hs = 1 .. n /\ \A i \in 1 .. n : hs[i] \in Handlers
  OBVIOUS
<1>2. CASE ~\E i \in DOMAIN hs : hs[i].who = x
  <2>1. Without(hs, x) = hs
    BY <1>2 DEF Without
  <2>2. \A h \in Entries(hs) : h.who # x
    BY <1>2 DEF Entries
  <2> QED BY <2>1, <2>2
<1>3. CASE \E i \in DOMAIN hs : hs[i].who = x
  <2>1. Without(hs, x) = rest
    BY <1>3 DEF Without
  <2>2. p \in 1 .. n /\ hs[p].who = x
    BY <1>1, <1>3 DEF PlaceOf
  <2>3. \A i \in 1 .. n : hs[i].who = x => i = p
    BY <1>1, <2>2 DEF Distinct
  <2> HIDE DEF p
  <2>4. n - 1 \in Nat /\ DOMAIN rest = 1 .. n - 1
    BY <1>1, <2>2
  <2>5. \A i \in 1 .. n - 1 :
          /\ i \in 1 .. n /\ i + 1 \in 1 .. n
          /\ rest[i] = IF i < p THEN hs[i] ELSE hs[i + 1]
    BY <1>1
  <2>6. rest \in Seq(Handlers)
    <3>1. \A i \in 1 .. n - 1 : rest[i] \in Handlers
      BY <1>1, <2>5
    <3>2. rest \in [1 .. n - 1 -> Handlers]
      BY <3>1
    <3> HIDE DEF rest
    <3> QED BY <2>4, <3>2
  <2>7. Distinct(rest)
    <3> SUFFICES ASSUME NEW i \in 1 .. n - 1, NEW j \in 1 .. n - 1, rest[i].who = rest[j].who
                 PROVE  i = j
      BY <2>4 DEF Distinct
    <3> DEFINE a == IF i < p THEN i ELSE i + 1
               b == IF j < p THEN j ELSE j + 1
    <3>1. a \in 1 .. n /\ b \in 1 .. n /\ rest[i] = hs[a] /\ rest[j] = hs[b]
      BY <2>5
    <3>2. a = b
      BY <1>1, <3>1 DEF Distinct
    <3> QED BY <1>1, <2>2, <3>2
  <2>8. \A e \in Entries(rest) : e \in Entries(hs) /\ e.who # x
    <3> SUFFICES ASSUME NEW i \in 1 .. n - 1 PROVE rest[i] \in Entries(hs) /\ rest[i].who # x
      BY <2>4 DEF Entries
    <3> DEFINE a == IF i < p THEN i ELSE i + 1
    <3>1. a \in 1 .. n /\ a # p /\ rest[i] = hs[a]
      BY <1>1, <2>2, <2>5
    <3> QED BY <1>1, <2>3, <3>1 DEF Entries
  <2>9. \A e \in Entries(hs) : e.who # x => e \in Entries(rest)
    <3> SUFFICES ASSUME NEW i \in 1 .. n, hs[i].who # x PROVE hs[i] \in Entries(rest)
      BY <1>1 DEF Entries
    <3>1. i # p
      BY <2>2
    <3> DEFINE a == IF i < p THEN i ELSE i - 1
    <3>2. a \in 1 .. n - 1 /\ rest[a] = hs[i]
      BY <1>1, <2>2, <2>5, <3>1
    <3> HIDE DEF rest, a
    <3> QED BY <2>4, <3>2 DEF Entries
  <2> HIDE DEF rest
  <2> QED BY <2>1, <2>6, <2>7, <2>8, <2>9
<1> QED BY <1>2, <1>3

LEMMA TailFacts ==
  ASSUME NEW hs \in Seq(Handlers), hs # << >>
  PROVE  /\ Tail(hs) \in Seq(Handlers)
         /\ Head(hs) \in Handlers /\ Head(hs) \in Entries(hs)
         /\ Entries(Tail(hs)) \subseteq Entries(hs)
         /\ Entries(hs) = Entries(Tail(hs)) \cup {Head(hs)}
<1> DEFINE n == Len(hs)
<1>1. /\ n \in Nat \ {0} /\ DOMAIN hs = 1 .. n /\ Head(hs) = hs[1]
      /\ Tail(hs) \in Seq(Handlers) /\ DOMAIN Tail(hs) = 1 .. n - 1
      /\ \A i \in 1 .. n - 1 : Tail(hs)[i] = hs[i + 1] /\ i + 1 \in 1 .. n
  OBVIOUS
<1>2. Head(hs) \in Handlers /\ Head(hs) \in Entries(hs)
  BY <1>1 DEF Entries
<1>3. Entries(Tail(hs)) \subseteq Entries(hs)
  BY <1>1 DEF Entries
<1>4. \A e \in Entries(hs) : e \in Entries(Tail(hs)) \cup {Head(hs)}
  <2> SUFFICES ASSUME NEW i \in 1 .. n PROVE hs[i] \in Entries(Tail(hs)) \cup {Head(hs)}
    BY <1>1 DEF Entries
  <2>1. CASE i = 1
    BY <1>1, <2>1
  <2>2. CASE i # 1
    <3>1. i - 1 \in 1 .. n - 1 /\ Tail(hs)[i - 1] = hs[i]
      BY <1>1, <2>2
    <3> QED BY <1>1, <3>1 DEF Entries
  <2> QED BY <2>1, <2>2
<1> QED BY <1>1, <1>2, <1>3, <1>4

LEMMA RegisteredFacts ==
  ASSUME NEW o, NEW x
  PROVE  Registered(o, x) <=> \E h \in Entries(handlers[o]) : h.who = x
BY DEF Registered, Entries

\* What registering and removing a handler does to the emitter.
Adds(o, x) ==
  /\ \A p \in Outer : \A h \in Entries(handlers'[p]) :
       h \in Entries(handlers[p]) \/ (p = o /\ h.who = x)
  /\ \A p \in Outer, y \in Owners : Registered(p, y)' <=> Registered(p, y) \/ (p = o /\ y = x)

Removes(o, x) ==
  /\ \A p \in Outer : \A h \in Entries(handlers'[p]) : h \in Entries(handlers[p])
  /\ \A p \in Outer, y \in Owners : Registered(p, y)' <=> Registered(p, y) /\ ~(p = o /\ y = x)

LEMMA AddHandler ==
  ASSUME HandlersOK, NEW o \in Outer, NEW x \in Owners, NEW b \in BOOLEAN,
         ~Registered(o, x),
         handlers' = [handlers EXCEPT ![o] = With(handlers[o], x, b)]
  PROVE  /\ HandlersOK'
         /\ Adds(o, x)
         /\ \A p \in Outer : \A h \in Entries(handlers'[p]) :
              h \in Entries(handlers[p]) \/ (p = o /\ h = [who |-> x, once |-> b])
<1>1. handlers[o] \in Seq(Handlers) /\ Distinct(handlers[o])
  BY DEF HandlersOK
<1>2. \A h \in Entries(handlers[o]) : h.who # x
  BY RegisteredFacts
<1> DEFINE new == With(handlers[o], x, b)
           e == [who |-> x, once |-> b]
<1>3. /\ new \in Seq(Handlers) /\ Distinct(new)
      /\ Entries(new) = Entries(handlers[o]) \cup {e}
  BY <1>1, <1>2, WithFacts
<1> HIDE DEF new
<1>4. /\ handlers' \in [Outer -> Seq(Handlers)]
      /\ handlers'[o] = new
      /\ \A p \in Outer \ {o} : handlers'[p] = handlers[p]
  BY <1>3 DEF HandlersOK, new
<1>5. HandlersOK'
  <2>1. \A p \in Outer : Distinct(handlers'[p])
    BY <1>3, <1>4 DEF HandlersOK
  <2> QED BY <1>4, <2>1 DEF HandlersOK
<1>6. \A p \in Outer : Entries(handlers'[p]) = Entries(handlers[p]) \cup IF p = o THEN {e} ELSE {}
  BY <1>3, <1>4
<1>7. \A p \in Outer, y \in Owners : Registered(p, y)' <=> Registered(p, y) \/ (p = o /\ y = x)
  <2> TAKE p \in Outer, y \in Owners
  <2>1. Registered(p, y)' <=> \E h \in Entries(handlers'[p]) : h.who = y
    BY DEF Registered, Entries
  <2>2. e.who = x
    OBVIOUS
  <2> HIDE DEF e
  <2> QED BY <1>6, <2>1, <2>2, RegisteredFacts
<1> QED BY <1>5, <1>6, <1>7 DEF Adds

LEMMA RemoveHandler ==
  ASSUME HandlersOK, NEW o \in Outer, NEW x \in Owners,
         handlers' = [handlers EXCEPT ![o] = Without(handlers[o], x)]
  PROVE  HandlersOK' /\ Removes(o, x)
<1>1. handlers[o] \in Seq(Handlers) /\ Distinct(handlers[o])
  BY DEF HandlersOK
<1> DEFINE new == Without(handlers[o], x)
<1>2. /\ new \in Seq(Handlers) /\ Distinct(new)
      /\ Entries(new) = {h \in Entries(handlers[o]) : h.who # x}
  BY <1>1, WithoutFacts
<1> HIDE DEF new
<1>3. /\ handlers' \in [Outer -> Seq(Handlers)]
      /\ handlers'[o] = new
      /\ \A p \in Outer \ {o} : handlers'[p] = handlers[p]
  BY <1>2 DEF HandlersOK, new
<1>4. HandlersOK'
  <2>1. \A p \in Outer : Distinct(handlers'[p])
    BY <1>2, <1>3 DEF HandlersOK
  <2> QED BY <1>3, <2>1 DEF HandlersOK
<1>5. \A p \in Outer : \A h : h \in Entries(handlers'[p]) <=>
        h \in Entries(handlers[p]) /\ (p = o => h.who # x)
  BY <1>2, <1>3
<1>6. \A p \in Outer, y \in Owners : Registered(p, y)' <=> Registered(p, y) /\ ~(p = o /\ y = x)
  <2> TAKE p \in Outer, y \in Owners
  <2>1. Registered(p, y)' <=> \E h \in Entries(handlers'[p]) : h.who = y
    BY DEF Registered, Entries
  <2> QED BY <1>5, <2>1, RegisteredFacts
<1> QED BY <1>4, <1>5, <1>6 DEF Removes

LEMMA SameHandlers ==
  ASSUME UNCHANGED handlers
  PROVE  /\ \A p, y : Registered(p, y)' <=> Registered(p, y)
         /\ \A p : Entries(handlers'[p]) = Entries(handlers[p])
         /\ HandlersOK => HandlersOK'
BY DEF Registered, HandlersOK

\* PassOver: out, and in again at the end of the line.
LEMMA PassOverHandler ==
  ASSUME HandlersOK, NEW l \in Listeners, msg.outer \in Outer, Registered(msg.outer, l),
         handlers' = PassOver(l)
  PROVE  /\ HandlersOK'
         /\ \A p \in Outer : \A h \in Entries(handlers'[p]) :
              h \in Entries(handlers[p]) \/ (p = msg.outer /\ h.who = l)
         /\ \A p \in Outer, y \in Owners : Registered(p, y)' <=> Registered(p, y)
<1> DEFINE o == msg.outer
           out == Without(handlers[o], l)
           e == [who |-> l, once |-> TRUE]
           new == With(out, l, TRUE)
<1>0. l \in Owners
  BY DEF Owners
<1>1. handlers[o] \in Seq(Handlers) /\ Distinct(handlers[o])
  BY DEF HandlersOK
<1>2. /\ out \in Seq(Handlers) /\ Distinct(out)
      /\ Entries(out) = {h \in Entries(handlers[o]) : h.who # l}
  BY <1>1, WithoutFacts
<1>3. /\ new \in Seq(Handlers) /\ Distinct(new)
      /\ Entries(new) = Entries(out) \cup {e}
  <2> HIDE DEF out
  <2>1. \A h \in Entries(out) : h.who # l
    BY <1>2
  <2> QED BY <1>0, <1>2, <2>1, WithFacts
<1>4. handlers' = [handlers EXCEPT ![o] = new]
  BY DEF PassOver
<1> HIDE DEF new, out
<1>5. /\ handlers' \in [Outer -> Seq(Handlers)]
      /\ handlers'[o] = new
      /\ \A p \in Outer \ {o} : handlers'[p] = handlers[p]
  BY <1>3, <1>4 DEF HandlersOK
<1>6. HandlersOK'
  <2>1. \A p \in Outer : Distinct(handlers'[p])
    BY <1>3, <1>5 DEF HandlersOK
  <2> QED BY <1>5, <2>1 DEF HandlersOK
<1>7. e.who = l
  OBVIOUS
<1> HIDE DEF e
<1>8. \A p \in Outer : \A h : h \in Entries(handlers'[p]) <=>
        \/ h \in Entries(handlers[p]) /\ (p = o => h.who # l)
        \/ p = o /\ h = e
  BY <1>2, <1>3, <1>5
<1>9. \A p \in Outer, y \in Owners : Registered(p, y)' <=> Registered(p, y)
  <2> TAKE p \in Outer, y \in Owners
  <2>1. Registered(p, y)' <=> \E h \in Entries(handlers'[p]) : h.who = y
    BY DEF Registered, Entries
  <2>2. CASE p = o /\ y = l
    BY <1>7, <1>8, <2>1, <2>2
  <2>3. CASE p # o
    BY <1>5, <2>1, <2>3, RegisteredFacts
  <2>4. CASE p = o /\ y # l
    BY <1>7, <1>8, <2>1, <2>4, RegisteredFacts
  <2> QED BY <2>2, <2>3, <2>4
<1> QED BY <1>6, <1>7, <1>8, <1>9

-----------------------------------------------------------------------------
(* What no step takes back *)

\* Waiters and listeners do not go back to where they started.
Forward ==
  /\ UNCHANGED <<client, ask, listens>>
  /\ \A w \in Waiters : pc[w] # "idle" => pc'[w] # "idle"
  /\ \A l \in Listeners : state[l] # "off" => state'[l] # "off"

LEMMA BelongsForward ==
  ASSUME Forward
  PROVE  \A h, o : BelongsTo(h, o) => BelongsTo(h, o)'
BY DEF Forward, BelongsTo

LEMMA DecoratedFacts ==
  ASSUME NEW d \in Decorated
  PROVE  d.outer \in Outer /\ d.once \in BOOLEAN /\ (~d.once => d.want = AnyType)
<1>1. d.outer \in Outer
  BY DEF Decorated
<1>2. \A o : \A f \in Filters(o) : f.once = TRUE
  BY DEF Filters
<1>3. CASE d \in Filtered
  <2>1. \E o : d \in Filters(o)
    <3> DEFINE Bus == {Filters(BusDecorators[x]) : x \in DOMAIN BusDecorators}
               Session == {Filters(SessionDecorators[x]) : x \in DOMAIN SessionDecorators}
    <3>1. \A S \in Bus \cup Session : \E o : S = Filters(o)
      OBVIOUS
    <3>2. d \in UNION Bus \/ d \in UNION Session
      BY <1>3 DEF Filtered
    <3> HIDE DEF Bus, Session
    <3> QED BY <3>1, <3>2
  <2> QED BY <1>1, <1>2, <2>1
<1>4. CASE d \in OnPayload
  BY <1>1, <1>2, <1>4 DEF OnPayload
<1>5. CASE d = OnThirdParty
  BY <1>1, <1>5 DEF OnThirdParty
<1>6. CASE d \in OnHiveMessage
  BY <1>1, <1>6 DEF OnHiveMessage
<1> QED BY <1>3, <1>4, <1>5, <1>6 DEF Decorated

\* The facts of the state that the steps below rest on.
LEMMA StateFacts ==
  ASSUME ListenerInv
  PROVE  /\ HandlersOK /\ todo \in Seq(Handlers)
         /\ \A w \in Waiters :
              /\ ask[w].outer \in Outer /\ ask[w].sends \in BOOLEAN
              /\ pc[w] \in {"idle", "returned", "raised"} \cup InWait
              /\ received[w] \in BOOLEAN
         /\ \A l \in Listeners :
              /\ listens[l].outer \in Outer /\ listens[l].once \in BOOLEAN
              /\ state[l] \in {"off", "on", "stopped"}
         /\ NoOne \notin Owners
         /\ \A w \in Waiters : w \notin Listeners /\ w \in Owners
         /\ \A l \in Listeners : l \in Owners
<1>1. HandlersOK
  BY DEF ListenerInv, TypeOK, StateOK, HandlersOK, Distinct
<1>2. \A l \in Listeners : listens[l] \in Decorated
  BY DEF ListenerInv, StateOK
<1>3. \A l \in Listeners : listens[l].outer \in Outer /\ listens[l].once \in BOOLEAN
  BY <1>2, DecoratedFacts
<1> QED BY <1>1, <1>3 DEF ListenerInv, StateOK, Owners

\* Whose turn it is: the handler is one of that type of message.
LEMMA TurnFacts ==
  ASSUME ListenerInv, NEW x \in Owners, Turn(x)
  PROVE  /\ busy /\ running = NoOne /\ msg \in Messages /\ msg.outer \in Outer
         /\ Tail(todo) \in Seq(Handlers) /\ Head(todo) \in Handlers
         /\ Entries(Tail(todo)) \subseteq Entries(todo)
         /\ \A w : (\E h \in Entries(todo) : h.who = w) =>
                     w = x \/ \E h \in Entries(Tail(todo)) : h.who = w
         /\ Head(todo).who = x /\ BelongsTo(Head(todo), msg.outer)
<1>1. busy /\ running = NoOne /\ todo # << >> /\ Head(todo).who = x
  BY DEF Turn
<1>2. msg \in Messages
  BY <1>1 DEF ListenerInv, DispatchBelongs
<1>3. msg.outer \in Outer
  BY <1>2 DEF Messages
<1>4. todo \in Seq(Handlers)
  BY StateFacts
<1>5. /\ Tail(todo) \in Seq(Handlers) /\ Head(todo) \in Handlers
      /\ Head(todo) \in Entries(todo)
      /\ Entries(Tail(todo)) \subseteq Entries(todo)
      /\ Entries(todo) = Entries(Tail(todo)) \cup {Head(todo)}
  BY <1>1, <1>4, TailFacts
<1>6. BelongsTo(Head(todo), msg.outer)
  BY <1>5 DEF ListenerInv, DispatchBelongs
<1> QED BY <1>1, <1>2, <1>3, <1>5, <1>6

-----------------------------------------------------------------------------
(* Initial states, the link, and a new message *)

LEMMA InitListeners == Init => ListenerInv
<1> SUFFICES ASSUME Init PROVE ListenerInv
  OBVIOUS
<1>1. /\ \A o \in Outer : handlers[o] = << >>
      /\ handlers \in [Outer -> Seq(Handlers)]
  BY DEF Init
<1>2. \A o \in Outer : \A x : ~Registered(o, x)
  BY <1>1 DEF Registered
<1>3. \A w \in Waiters : pc[w] = "idle" /\ received[w] = FALSE
  BY DEF Init
<1>4. \A l \in Listeners : state[l] = "off"
  BY DEF Init
<1>5. listens \in [Listeners -> Decorated] /\ running = NoOne /\ by = NoOne
      /\ ask \in [Waiters -> [outer: Outer, want: Wanted \cup {AnyType}, sends: BOOLEAN]]
      /\ todo = << >> /\ ~busy /\ offered = {} /\ answered = {} /\ busy \in BOOLEAN
  BY DEF Init
<1>6. TypeOK
  BY <1>1, <1>3, <1>5 DEF TypeOK, Init
<1>7. StateOK
  BY <1>1 DEF StateOK, Init
<1>8. \A l \in Listeners : listens[l].outer \in Outer
  BY <1>5, DecoratedFacts
<1>9. \A w \in Waiters : ask[w].outer \in Outer
  BY <1>5
<1>10. HandlersBelong
  BY <1>1 DEF HandlersBelong, Entries
<1>11. DispatchBelongs
  BY <1>5 DEF DispatchBelongs, Entries
<1>12. WaitersListen
  BY <1>2, <1>3, <1>9 DEF WaitersListen, InWait
<1>13. AnswersToCome /\ NoAnswerMissed
  BY <1>5 DEF AnswersToCome, NoAnswerMissed
<1>14. ListenersArmed /\ ListenerPersists
  BY <1>2, <1>4, <1>5, <1>8 DEF ListenersArmed, ListenerPersists
<1>15. NothingLeftBehind
  BY <1>3 DEF NothingLeftBehind
<1> QED BY <1>6, <1>7, <1>10, <1>11, <1>12, <1>13, <1>14, <1>15 DEF ListenerInv

LEMMA LinkStep ==
  ASSUME ListenerInv, LinkDown \/ LinkUp
  PROVE  ListenerInv'
<1>1. /\ up' \in BOOLEAN
      /\ UNCHANGED <<client, handlers, pc, ask, received, listens, state, broken,
                     msg, todo, by, running, busy, msgs, offered, answered>>
  BY DEF LinkDown, LinkUp, waitVars, listenVars, dispatchVars
<1>2. TypeOK' /\ StateOK'
  BY <1>1 DEF ListenerInv, TypeOK, StateOK
<1>3. HandlersBelong' /\ DispatchBelongs'
  BY <1>1 DEF ListenerInv, HandlersBelong, DispatchBelongs, BelongsTo
<1>4. WaitersListen' /\ AnswersToCome'
  BY <1>1 DEF ListenerInv, WaitersListen, AnswersToCome, Registered, OneShot, Awaits
<1>5. ListenersArmed' /\ ListenerPersists'
  BY <1>1 DEF ListenerInv, ListenersArmed, ListenerPersists, Registered
<1>6. NoAnswerMissed' /\ NothingLeftBehind'
  BY <1>1 DEF ListenerInv, NoAnswerMissed, NothingLeftBehind, Registered
<1> QED BY <1>2, <1>3, <1>4, <1>5, <1>6 DEF ListenerInv

\* Whoever waits for the message has a handler in the snapshot.
LEMMA BeginOwes ==
  ASSUME ListenerInv, NEW m \in Messages, NEW x, Begin(m, x)
  PROVE  \A w \in offered' :
           /\ pc[w] = "waiting" /\ Awaits(w, m)
           /\ received[w] \/ \E h \in Entries(todo') : h.who = w
<1> SUFFICES ASSUME NEW w \in Waiters, Awaits(w, m)
             PROVE  received[w] \/ \E h \in Entries(handlers[m.outer]) : h.who = w
  BY DEF Begin, Awaits
<1>1. Registered(m.outer, w) \/ received[w]
  BY DEF Awaits, ListenerInv, WaitersListen, InWait
<1> QED BY <1>1, RegisteredFacts

LEMMA ReceiveStep ==
  ASSUME ListenerInv, NEW m \in Messages, Receive(m)
  PROVE  ListenerInv'
<1>1. /\ busy' = TRUE /\ msg' = m /\ by' = NoOne /\ todo' = handlers[m.outer] /\ ~busy
      /\ offered' = {w \in Waiters : Awaits(w, m)}
      /\ UNCHANGED <<client, up, handlers, pc, ask, received, listens, state, broken,
                     running, answered>>
  BY DEF Receive, Begin, waitVars, listenVars
<1>2. m.outer \in Outer /\ running = NoOne /\ NoOne \notin Waiters /\ NoOne \notin Listeners
  BY <1>1 DEF Messages, ListenerInv, DispatchBelongs
<1>3. TypeOK'
  BY <1>1 DEF ListenerInv, TypeOK
<1>4. StateOK'
  BY <1>1, <1>2 DEF ListenerInv, StateOK
<1>5. HandlersBelong'
  BY <1>1 DEF ListenerInv, HandlersBelong, BelongsTo
<1>6. DispatchBelongs'
  <2>1. \A h \in Entries(todo') : BelongsTo(h, m.outer)'
    BY <1>1, <1>2 DEF ListenerInv, HandlersBelong, BelongsTo
  <2> QED BY <1>1, <1>2, <2>1 DEF DispatchBelongs, Messages
<1>7. WaitersListen'
  BY <1>1 DEF ListenerInv, WaitersListen, Registered, OneShot
<1>8. AnswersToCome'
  <2>1. Begin(m, NoOne)
    BY DEF Receive
  <2> QED BY <1>1, <2>1, BeginOwes DEF AnswersToCome, Awaits
<1>9. ListenersArmed' /\ ListenerPersists'
  BY <1>1 DEF ListenerInv, ListenersArmed, ListenerPersists, Registered
<1>10. NoAnswerMissed' /\ NothingLeftBehind'
  BY <1>1 DEF ListenerInv, NoAnswerMissed, NothingLeftBehind, Registered
<1> QED BY <1>3, <1>4, <1>5, <1>6, <1>7, <1>8, <1>9, <1>10 DEF ListenerInv

-----------------------------------------------------------------------------
(* Steps of a waiter *)

\* constructed, sent, or refused: one waiter goes on, no handler changes.
LEMMA WaiterMoves ==
  ASSUME ListenerInv, NEW w \in Waiters, Constructed(w) \/ Send(w) \/ SendRaises(w)
  PROVE  ListenerInv'
<1>1. UNCHANGED <<client, up, handlers, ask, received, listens, state, broken,
                  msg, todo, by, running, busy, msgs, offered, answered>>
  BY DEF Constructed, Send, SendRaises, listenVars, dispatchVars
<1>2. PICK s \in {"ready", "waiting", "raised"} : pc' = [pc EXCEPT ![w] = s]
  BY DEF Constructed, Send, SendRaises, Ready
<1>3. pc[w] \in {"constructing", "ready"}
  BY DEF Constructed, Send, SendRaises
<1>4. pc \in [Waiters -> {"idle", "returned", "raised"} \cup InWait]
  BY DEF ListenerInv, StateOK
<1>5. pc'[w] = s /\ \A v \in Waiters \ {w} : pc'[v] = pc[v]
  BY <1>2, <1>4
<1>6. TypeOK' /\ StateOK'
  <2>1. pc' \in [Waiters -> {"idle", "returned", "raised"} \cup InWait]
    BY <1>2, <1>4 DEF InWait
  <2>2. TypeOK'
    BY <1>1, <1>5 DEF ListenerInv, TypeOK
  <2> QED BY <1>1, <2>1, <2>2 DEF ListenerInv, StateOK
<1>7. Forward
  BY <1>1, <1>5 DEF Forward
<1>8. HandlersBelong'
  BY <1>1, <1>7, BelongsForward DEF ListenerInv, HandlersBelong
<1>9. DispatchBelongs'
  <2>1. by # w \/ by \notin Waiters
    BY <1>3 DEF ListenerInv, DispatchBelongs
  <2>2. \A h \in Entries(todo') : BelongsTo(h, msg.outer)'
    BY <1>1, <1>7, BelongsForward DEF ListenerInv, DispatchBelongs
  <2> QED BY <1>1, <1>5, <2>1, <2>2 DEF ListenerInv, DispatchBelongs
<1>10. WaitersListen'
  BY <1>1, <1>3, <1>5 DEF ListenerInv, WaitersListen, Registered, OneShot, InWait
<1>11. AnswersToCome'
  <2>1. w \notin offered /\ offered \subseteq Waiters
    BY <1>3 DEF ListenerInv, AnswersToCome, StateOK
  <2> QED BY <1>1, <1>5, <2>1 DEF ListenerInv, AnswersToCome, Awaits
<1>12. ListenersArmed' /\ ListenerPersists'
  BY <1>1 DEF ListenerInv, ListenersArmed, ListenerPersists, Registered
<1>13. NoAnswerMissed' /\ NothingLeftBehind'
  BY <1>1, <1>5 DEF ListenerInv, NoAnswerMissed, NothingLeftBehind, Registered
<1> QED BY <1>6, <1>8, <1>9, <1>10, <1>11, <1>12, <1>13 DEF ListenerInv

\* A waiter registers its handler.
LEMMA WaitStep ==
  ASSUME ListenerInv, NEW w \in Waiters, Wait(w)
  PROVE  ListenerInv'
<1> DEFINE o == ask[w].outer
           b == client = "fake" /\ ask[w].want = AnyType
<1>1. /\ pc[w] = "idle"
      /\ UNCHANGED <<client, up, ask, received, listens, state, broken,
                     msg, todo, by, running, busy, msgs, offered, answered>>
      /\ handlers' = [handlers EXCEPT ![o] = With(handlers[o], w, b)]
  BY DEF Wait, listenVars, dispatchVars
<1>2. /\ HandlersOK /\ o \in Outer /\ w \in Owners /\ w \notin Listeners /\ b \in BOOLEAN
      /\ \A l \in Listeners : l \in Owners /\ listens[l].outer \in Outer
      /\ \A v \in Waiters : v \in Owners /\ ask[v].outer \in Outer
  BY StateFacts
<1>3. ~Registered(o, w)
  BY <1>1, <1>2, RegisteredFacts DEF ListenerInv, HandlersBelong, BelongsTo
<1>4. /\ HandlersOK' /\ Adds(o, w)
      /\ \A p \in Outer : \A h \in Entries(handlers'[p]) :
           h \in Entries(handlers[p]) \/ (p = o /\ h = [who |-> w, once |-> b])
  <2> HIDE DEF b, o
  <2> QED BY <1>1, <1>2, <1>3, AddHandler
<1>5. PICK s \in {"constructing", "ready", "waiting"} :
        pc' = [pc EXCEPT ![w] = s] /\ (s = "constructing" => client = "threads")
  BY DEF Wait, Ready, Constructs
<1>6. pc \in [Waiters -> {"idle", "returned", "raised"} \cup InWait]
  BY DEF ListenerInv, StateOK
<1>7. pc'[w] = s /\ \A v \in Waiters \ {w} : pc'[v] = pc[v]
  BY <1>5, <1>6
<1>8. TypeOK' /\ StateOK'
  <2>1. pc' \in [Waiters -> {"idle", "returned", "raised"} \cup InWait]
    BY <1>5, <1>6 DEF InWait
  <2>2. TypeOK'
    BY <1>1, <1>4, <1>5, <1>7 DEF ListenerInv, TypeOK, HandlersOK, Distinct
  <2> QED BY <1>1, <1>4, <2>1, <2>2 DEF ListenerInv, StateOK, HandlersOK
<1>9. Forward
  BY <1>1, <1>7 DEF Forward
<1>10. HandlersBelong'
  <2>1. \A h, p : p = o /\ h = [who |-> w, once |-> b] => BelongsTo(h, p)'
    BY <1>1, <1>2, <1>7 DEF BelongsTo
  <2> HIDE DEF b, o
  <2> QED BY <1>4, <1>9, <2>1, BelongsForward DEF ListenerInv, HandlersBelong
<1>11. DispatchBelongs'
  <2>1. by # w \/ by \notin Waiters
    BY <1>1 DEF ListenerInv, DispatchBelongs
  <2>2. \A h \in Entries(todo') : BelongsTo(h, msg.outer)'
    BY <1>1, <1>9, BelongsForward DEF ListenerInv, DispatchBelongs
  <2> QED BY <1>1, <1>7, <2>1, <2>2 DEF ListenerInv, DispatchBelongs
<1>12. WaitersListen'
  <2>1. \A v \in Waiters \ {w} : Registered(ask[v].outer, v)' <=> Registered(ask[v].outer, v)
    BY <1>1, <1>2, <1>4 DEF Adds
  <2>2. Registered(o, w)' /\ ~received[w]
    BY <1>1, <1>2, <1>4 DEF Adds, ListenerInv, WaitersListen
  <2> QED BY <1>1, <1>7, <2>1, <2>2 DEF ListenerInv, WaitersListen, OneShot
<1>13. AnswersToCome'
  <2>1. w \notin offered /\ offered \subseteq Waiters
    BY <1>1 DEF ListenerInv, AnswersToCome, StateOK
  <2> QED BY <1>1, <1>7, <2>1 DEF ListenerInv, AnswersToCome, Awaits
<1>14. ListenersArmed' /\ ListenerPersists'
  <2>1. \A l \in Listeners : Registered(listens[l].outer, l)' <=> Registered(listens[l].outer, l)
    BY <1>1, <1>2, <1>4 DEF Adds
  <2> QED BY <1>1, <2>1 DEF ListenerInv, ListenersArmed, ListenerPersists
<1>15. NoAnswerMissed'
  BY <1>1 DEF ListenerInv, NoAnswerMissed
<1>16. NothingLeftBehind'
  <2>1. \A v \in Waiters \ {w} : Registered(ask[v].outer, v)' <=> Registered(ask[v].outer, v)
    BY <1>1, <1>2, <1>4 DEF Adds
  <2> QED BY <1>1, <1>7, <2>1 DEF ListenerInv, NothingLeftBehind
<1> QED BY <1>8, <1>10, <1>11, <1>12, <1>13, <1>14, <1>15, <1>16 DEF ListenerInv

\* A waiter removes its handler, unless it trusts in once, and returns.
LEMMA ReturnStep ==
  ASSUME ListenerInv, NEW w \in Waiters, Return(w)
  PROVE  ListenerInv'
<1> DEFINE o == ask[w].outer
<1>1. /\ pc[w] = "waiting" /\ pc' = [pc EXCEPT ![w] = "returned"]
      /\ UNCHANGED <<client, up, ask, received, listens, state, broken,
                     msg, todo, by, running, busy, msgs, offered, answered>>
      /\ IF OneShot(w) THEN UNCHANGED handlers
                       ELSE handlers' = [handlers EXCEPT ![o] = Without(handlers[o], w)]
  BY DEF Return, Leaves, OneShot, listenVars, dispatchVars
<1>2. /\ HandlersOK /\ o \in Outer /\ w \in Owners /\ w \notin Listeners
      /\ \A l \in Listeners : l \in Owners /\ listens[l].outer \in Outer
      /\ \A v \in Waiters : v \in Owners /\ ask[v].outer \in Outer
  BY StateFacts
<1>3. /\ HandlersOK'
      /\ \A p \in Outer : \A h \in Entries(handlers'[p]) : h \in Entries(handlers[p])
      /\ \A p \in Outer, y \in Owners \ {w} : Registered(p, y)' <=> Registered(p, y)
      /\ \A p \in Outer : Registered(p, w)' => Registered(p, w)
      /\ Registered(o, w)' => OneShot(w)
  <2>1. CASE OneShot(w)
    BY <1>1, <1>2, <2>1, SameHandlers
  <2>2. CASE ~OneShot(w)
    <3>1. HandlersOK' /\ Removes(o, w)
      BY <1>1, <1>2, <2>2, RemoveHandler
    <3> QED BY <1>1, <1>2, <2>2, <3>1 DEF Removes
  <2> QED BY <2>1, <2>2
<1>4. pc \in [Waiters -> {"idle", "returned", "raised"} \cup InWait]
  BY DEF ListenerInv, StateOK
<1>5. pc'[w] = "returned" /\ \A v \in Waiters \ {w} : pc'[v] = pc[v]
  BY <1>1, <1>4
<1>6. TypeOK' /\ StateOK'
  <2>1. pc' \in [Waiters -> {"idle", "returned", "raised"} \cup InWait]
    BY <1>1, <1>4
  <2>2. TypeOK'
    BY <1>1, <1>3, <1>5 DEF ListenerInv, TypeOK, HandlersOK, Distinct
  <2> QED BY <1>1, <1>3, <2>1, <2>2 DEF ListenerInv, StateOK, HandlersOK
<1>7. Forward
  BY <1>1, <1>5 DEF Forward
<1>8. HandlersBelong'
  BY <1>3, <1>7, BelongsForward DEF ListenerInv, HandlersBelong
<1>9. DispatchBelongs'
  <2>1. by # w \/ by \notin Waiters
    BY <1>1 DEF ListenerInv, DispatchBelongs
  <2>2. \A h \in Entries(todo') : BelongsTo(h, msg.outer)'
    BY <1>1, <1>7, BelongsForward DEF ListenerInv, DispatchBelongs
  <2> QED BY <1>1, <1>5, <2>1, <2>2 DEF ListenerInv, DispatchBelongs
<1>10. \A v \in Waiters \ {w} : Registered(ask[v].outer, v)' <=> Registered(ask[v].outer, v)
  BY <1>1, <1>2, <1>3
<1>11. WaitersListen'
  <2>1. Registered(ask[w].outer, w)' => Registered(ask[w].outer, w)
    BY <1>1, <1>2, <1>3
  <2> QED BY <1>1, <1>5, <1>10, <2>1 DEF ListenerInv, WaitersListen, OneShot, InWait
<1>12. AnswersToCome'
  <2>1. offered \subseteq Waiters
    BY DEF ListenerInv, StateOK
  <2> QED BY <1>1, <1>5, <2>1 DEF ListenerInv, AnswersToCome, Awaits
<1>13. ListenersArmed' /\ ListenerPersists'
  <2>1. \A l \in Listeners : Registered(listens[l].outer, l)' <=> Registered(listens[l].outer, l)
    BY <1>1, <1>2, <1>3
  <2> QED BY <1>1, <2>1 DEF ListenerInv, ListenersArmed, ListenerPersists
<1>14. NoAnswerMissed'
  BY <1>1 DEF ListenerInv, NoAnswerMissed
<1>15. NothingLeftBehind'
  <2>1. Registered(ask[w].outer, w)' => OneShot(w) /\ ~received[w]
    BY <1>1, <1>2, <1>3 DEF ListenerInv, WaitersListen
  <2> QED BY <1>1, <1>5, <1>10, <2>1 DEF ListenerInv, NothingLeftBehind, OneShot
<1> QED BY <1>6, <1>8, <1>9, <1>11, <1>12, <1>13, <1>14, <1>15 DEF ListenerInv

\* The fake dispatches what a waiter sends.
LEMMA SendFakeStep ==
  ASSUME ListenerInv, NEW w \in Waiters, SendFake(w)
  PROVE  ListenerInv'
<1>1. PICK m \in Messages : Begin(m, w)
  BY DEF SendFake
<1>2. /\ pc[w] = "ready" /\ pc' = [pc EXCEPT ![w] = "sending"]
      /\ busy' = TRUE /\ msg' = m /\ by' = w /\ todo' = handlers[m.outer] /\ ~busy
      /\ offered' = {v \in Waiters : Awaits(v, m)}
      /\ UNCHANGED <<client, up, handlers, ask, received, listens, state, broken,
                     running, answered>>
  BY <1>1 DEF SendFake, Begin, listenVars
<1>3. m.outer \in Outer /\ running = NoOne /\ NoOne \notin Listeners
  BY <1>2 DEF Messages, ListenerInv, DispatchBelongs
<1>4. pc \in [Waiters -> {"idle", "returned", "raised"} \cup InWait]
  BY DEF ListenerInv, StateOK
<1>5. pc'[w] = "sending" /\ \A v \in Waiters \ {w} : pc'[v] = pc[v]
  BY <1>2, <1>4
<1>6. TypeOK' /\ StateOK'
  <2>1. pc' \in [Waiters -> {"idle", "returned", "raised"} \cup InWait]
    BY <1>2, <1>4 DEF InWait
  <2>2. TypeOK'
    BY <1>2, <1>5 DEF ListenerInv, TypeOK
  <2> QED BY <1>2, <1>3, <2>1, <2>2 DEF ListenerInv, StateOK
<1>7. Forward
  BY <1>2, <1>5 DEF Forward
<1>8. HandlersBelong'
  BY <1>2, <1>7, BelongsForward DEF ListenerInv, HandlersBelong
<1>9. DispatchBelongs'
  <2>1. \A h \in Entries(todo') : BelongsTo(h, m.outer)'
    BY <1>2, <1>3, <1>7, BelongsForward DEF ListenerInv, HandlersBelong
  <2> QED BY <1>2, <1>3, <1>5, <2>1 DEF DispatchBelongs
<1>10. WaitersListen'
  BY <1>2, <1>5 DEF ListenerInv, WaitersListen, Registered, OneShot, InWait
<1>11. AnswersToCome'
  <2>1. w \notin offered' /\ offered' \subseteq Waiters
    BY <1>2 DEF Awaits
  <2> QED BY <1>1, <1>2, <1>5, <2>1, BeginOwes DEF AnswersToCome, Awaits
<1>12. ListenersArmed' /\ ListenerPersists'
  BY <1>2 DEF ListenerInv, ListenersArmed, ListenerPersists, Registered
<1>13. NoAnswerMissed' /\ NothingLeftBehind'
  BY <1>2, <1>5 DEF ListenerInv, NoAnswerMissed, NothingLeftBehind, Registered
<1> QED BY <1>6, <1>8, <1>9, <1>10, <1>11, <1>12, <1>13 DEF ListenerInv

-----------------------------------------------------------------------------
(* Steps of a dispatch *)

\* The dispatch ends: whoever waited all the way has its answer.
LEMMA FinishStep ==
  ASSUME ListenerInv, Finish
  PROVE  ListenerInv'
<1>1. /\ todo = << >> /\ running = NoOne
      /\ busy' = FALSE /\ msg' = NoMessage /\ by' = NoOne /\ offered' = {}
      /\ pc' = [w \in Waiters |-> IF w = by THEN "waiting" ELSE pc[w]]
      /\ answered' = answered \cup {w \in offered : pc[w] = "waiting"}
      /\ UNCHANGED <<client, up, handlers, todo, running, ask, received, listens, state, broken>>
  BY DEF Finish, listenVars
<1>2. NoOne \notin Waiters /\ offered \subseteq Waiters
  BY DEF ListenerInv, StateOK
<1>3. \A w \in Waiters : pc'[w] = pc[w] \/ (pc[w] = "sending" /\ pc'[w] = "waiting")
  BY <1>1 DEF ListenerInv, DispatchBelongs
<1>4. TypeOK' /\ StateOK'
  <2>1. pc' \in [Waiters -> {"idle", "returned", "raised"} \cup InWait]
    BY <1>1 DEF ListenerInv, StateOK, InWait
  <2>2. TypeOK'
    BY <1>1, <1>3 DEF ListenerInv, TypeOK
  <2> QED BY <1>1, <1>2, <2>1, <2>2 DEF ListenerInv, StateOK
<1>5. Forward
  BY <1>1, <1>3 DEF Forward
<1>6. HandlersBelong'
  BY <1>1, <1>5, BelongsForward DEF ListenerInv, HandlersBelong
<1>7. DispatchBelongs'
  <2>1. \A l \in Listeners : running # l
    BY <1>1
  <2> QED BY <1>1, <1>2, <2>1 DEF DispatchBelongs, Entries
<1>8. WaitersListen'
  BY <1>1, <1>3 DEF ListenerInv, WaitersListen, Registered, OneShot, InWait
<1>9. AnswersToCome'
  BY <1>1 DEF AnswersToCome
<1>10. ListenersArmed' /\ ListenerPersists'
  BY <1>1 DEF ListenerInv, ListenersArmed, ListenerPersists, Registered
<1>11. NoAnswerMissed'
  <2>1. \A w \in offered : pc[w] = "waiting" => received[w]
    BY <1>1 DEF ListenerInv, AnswersToCome, Entries
  <2> QED BY <1>1, <1>2, <2>1 DEF ListenerInv, NoAnswerMissed
<1>12. NothingLeftBehind'
  BY <1>1, <1>3 DEF ListenerInv, NothingLeftBehind, Registered
<1> QED BY <1>4, <1>6, <1>7, <1>8, <1>9, <1>10, <1>11, <1>12 DEF ListenerInv

\* An exception ends the dispatch: nobody is owed anything any more, and the
\* listener that raised is known to be gone.
LEMMA AbortStep ==
  ASSUME ListenerInv, Abort, HandlersOK',
         \A p \in Outer : \A h \in Entries(handlers'[p]) : h \in Entries(handlers[p]),
         \A p \in Outer, w \in Waiters : Registered(p, w)' <=> Registered(p, w),
         \A p \in Outer, l \in Listeners : Registered(p, l)' => Registered(p, l),
         \A l \in Listeners : ~listens[l].once =>
           \A p \in Outer : Registered(p, l)' <=> Registered(p, l),
         broken \subseteq broken',
         \A l \in Listeners \ broken' :
           running # l /\ \A p \in Outer : Registered(p, l)' <=> Registered(p, l)
  PROVE  ListenerInv'
<1>1. /\ busy' = FALSE /\ msg' = NoMessage /\ todo' = << >> /\ by' = NoOne
      /\ running' = NoOne /\ offered' = {}
      /\ up' = (up /\ client # "threads")
      /\ pc' = [w \in Waiters |-> IF w = by THEN "raised" ELSE pc[w]]
      /\ UNCHANGED <<client, answered, ask, received, listens, state>>
  BY DEF Abort
<1>2. /\ NoOne \notin Waiters /\ NoOne \notin Listeners
      /\ \A l \in Listeners : listens[l].outer \in Outer
      /\ \A w \in Waiters : ask[w].outer \in Outer
  BY StateFacts
<1>3. \A w \in Waiters : pc'[w] = pc[w] \/ (pc[w] = "sending" /\ pc'[w] = "raised")
  BY <1>1 DEF ListenerInv, DispatchBelongs
<1>4. TypeOK' /\ StateOK'
  <2>1. pc' \in [Waiters -> {"idle", "returned", "raised"} \cup InWait]
    BY <1>1 DEF ListenerInv, StateOK
  <2>2. TypeOK'
    BY <1>1, <1>3 DEF ListenerInv, TypeOK, HandlersOK, Distinct
  <2> QED BY <1>1, <2>1, <2>2 DEF ListenerInv, StateOK, HandlersOK
<1>5. Forward
  BY <1>1, <1>3 DEF Forward
<1>6. HandlersBelong'
  BY <1>5, BelongsForward DEF ListenerInv, HandlersBelong
<1>7. DispatchBelongs'
  BY <1>1, <1>2 DEF DispatchBelongs, Entries
<1>8. WaitersListen'
  <2>1. \A w \in Waiters : Registered(ask[w].outer, w)' <=> Registered(ask[w].outer, w)
    BY <1>1, <1>2
  <2> QED BY <1>1, <1>3, <2>1 DEF ListenerInv, WaitersListen, OneShot, InWait
<1>9. AnswersToCome'
  BY <1>1 DEF AnswersToCome
<1>10. ListenersArmed'
  <2>1. \A l \in Listeners :
          /\ Registered(listens[l].outer, l)' => Registered(listens[l].outer, l)
          /\ ~listens[l].once => (Registered(listens[l].outer, l)' <=> Registered(listens[l].outer, l))
    BY <1>1, <1>2
  <2> QED BY <1>1, <1>2, <2>1 DEF ListenerInv, ListenersArmed
<1>11. ListenerPersists'
  <2>1. \A l \in Listeners \ broken' :
          running # l /\ (Registered(listens[l].outer, l)' <=> Registered(listens[l].outer, l))
    BY <1>1, <1>2
  <2> QED BY <1>1, <2>1 DEF ListenerInv, ListenerPersists
<1>12. NoAnswerMissed'
  BY <1>1 DEF ListenerInv, NoAnswerMissed
<1>13. NothingLeftBehind'
  <2>1. \A w \in Waiters : Registered(ask[w].outer, w)' <=> Registered(ask[w].outer, w)
    BY <1>1, <1>2
  <2> QED BY <1>1, <1>3, <2>1 DEF ListenerInv, NothingLeftBehind
<1> QED BY <1>4, <1>6, <1>7, <1>8, <1>9, <1>10, <1>11, <1>12, <1>13 DEF ListenerInv

LEMMA BreaksStep ==
  ASSUME ListenerInv,
         \/ \E w \in Waiters : WaiterBreaks(w)
         \/ \E l \in Listeners : ListenerBreaks(l) \/ CallbackRaises(l)
  PROVE  ListenerInv'
<1>0. /\ HandlersOK /\ NoOne \notin Listeners /\ Waiters \cap Listeners = {}
      /\ \A x \in Waiters \cup Listeners : x \in Owners
  BY StateFacts DEF Owners
<1>1. CASE \E w \in Waiters : WaiterBreaks(w)
  <2>1. Abort /\ UNCHANGED <<handlers, broken>> /\ running = NoOne
    BY <1>1 DEF WaiterBreaks, Turn
  <2> QED BY <1>0, <2>1, SameHandlers, AbortStep
<1>2. CASE \E l \in Listeners : CallbackRaises(l)
  <2>1. PICK l \in Listeners : running = l /\ broken' = broken \cup {l} /\ Abort /\ UNCHANGED handlers
    BY <1>2 DEF CallbackRaises
  <2> QED BY <1>0, <2>1, SameHandlers, AbortStep
<1>3. CASE \E l \in Listeners : ListenerBreaks(l)
  <2>1. PICK l \in Listeners :
          /\ Turn(l) /\ handlers' = Taken(l) /\ broken' = broken \cup {l} /\ Abort
    BY <1>3 DEF ListenerBreaks
  <2>2. l \in Owners /\ msg.outer \in Outer /\ running = NoOne
    BY <1>0, <2>1, TurnFacts
  <2>3. CASE ~listens[l].once
    <3>1. UNCHANGED handlers
      BY <2>1, <2>3 DEF Taken
    <3> QED BY <1>0, <2>1, <2>2, <3>1, SameHandlers, AbortStep
  <2>4. CASE listens[l].once
    <3>1. handlers' = [handlers EXCEPT ![msg.outer] = Without(handlers[msg.outer], l)]
      BY <2>1, <2>4 DEF Taken
    <3>2. HandlersOK' /\ Removes(msg.outer, l)
      BY <1>0, <2>2, <3>1, RemoveHandler
    <3> QED BY <1>0, <2>1, <2>2, <2>4, <3>2, AbortStep DEF Removes
  <2> QED BY <2>3, <2>4
<1> QED BY <1>1, <1>2, <1>3

\* The handler of a waiter runs: a message that was awaited is kept.
LEMMA RunWaiterStep ==
  ASSUME ListenerInv, NEW w \in Waiters, RunWaiter(w)
  PROVE  ListenerInv'
<1> DEFINE o == ask[w].outer
           runs == Head(todo).once => Registered(msg.outer, w)
<1>1. /\ Turn(w) /\ todo' = Tail(todo)
      /\ received' = [received EXCEPT ![w] = received[w] \/ (runs /\ Matches(w))]
      /\ handlers' = IF Head(todo).once
                     THEN [handlers EXCEPT ![msg.outer] = Without(handlers[msg.outer], w)]
                     ELSE handlers
      /\ UNCHANGED <<client, up, pc, ask, listens, state, broken, msg, by, running, busy,
                     msgs, offered, answered>>
  BY DEF RunWaiter, listenVars
<1>2. /\ HandlersOK /\ o \in Outer /\ w \in Owners /\ w \notin Listeners
      /\ \A l \in Listeners : l \in Owners /\ listens[l].outer \in Outer
      /\ \A v \in Waiters : v \in Owners /\ ask[v].outer \in Outer
  BY StateFacts
<1>3. /\ busy /\ running = NoOne /\ msg \in Messages /\ msg.outer \in Outer
      /\ Tail(todo) \in Seq(Handlers)
      /\ Entries(Tail(todo)) \subseteq Entries(todo)
      /\ \A v : (\E h \in Entries(todo) : h.who = v) =>
                  v = w \/ \E h \in Entries(Tail(todo)) : h.who = v
      /\ Head(todo).who = w /\ BelongsTo(Head(todo), msg.outer)
  BY <1>1, <1>2, TurnFacts
<1>4. msg.outer = o /\ pc[w] # "idle" /\ Head(todo).once = OneShot(w)
  BY <1>3 DEF BelongsTo, OneShot
<1>5. /\ HandlersOK'
      /\ \A p \in Outer : \A h \in Entries(handlers'[p]) : h \in Entries(handlers[p])
      /\ \A p \in Outer, y \in Owners \ {w} : Registered(p, y)' <=> Registered(p, y)
      /\ Registered(ask[w].outer, w)' <=> Registered(ask[w].outer, w) /\ ~OneShot(w)
  <2>1. CASE OneShot(w)
    <3>1. HandlersOK' /\ Removes(o, w)
      BY <1>1, <1>2, <1>3, <1>4, <2>1, RemoveHandler
    <3> QED BY <1>1, <1>2, <2>1, <3>1 DEF Removes
  <2>2. CASE ~OneShot(w)
    <3>1. UNCHANGED handlers
      BY <1>1, <1>4, <2>2
    <3> QED BY <1>1, <1>2, <2>2, <3>1, SameHandlers
  <2> QED BY <2>1, <2>2
<1>6. received \in [Waiters -> BOOLEAN]
  BY DEF ListenerInv, StateOK
<1>7. /\ \A v \in Waiters \ {w} : received'[v] = received[v]
      /\ received'[w] = (received[w] \/ (runs /\ Matches(w)))
      /\ received' \in [Waiters -> BOOLEAN]
  <2> HIDE DEF runs
  <2> QED BY <1>1, <1>6
<1>8. TypeOK' /\ StateOK'
  <2>1. TypeOK'
    BY <1>1, <1>5 DEF ListenerInv, TypeOK, HandlersOK, Distinct
  <2> QED BY <1>1, <1>3, <1>5, <1>7, <2>1 DEF ListenerInv, StateOK, HandlersOK
<1>9. Forward
  BY <1>1 DEF Forward
<1>10. HandlersBelong'
  BY <1>5, <1>9, BelongsForward DEF ListenerInv, HandlersBelong
<1>11. DispatchBelongs'
  <2>1. \A h \in Entries(todo') : BelongsTo(h, msg.outer)'
    BY <1>1, <1>3, <1>9, BelongsForward DEF ListenerInv, DispatchBelongs
  <2> QED BY <1>1, <1>3, <2>1 DEF ListenerInv, DispatchBelongs
\* The one-shot handler matches whatever comes: it is gone when it has run, and
\* it ran if it was there.
<1>12. WaitersListen'
  <2>1. \A v \in Waiters \ {w} : Registered(ask[v].outer, v)' <=> Registered(ask[v].outer, v)
    BY <1>1, <1>2, <1>5
  <2>2. pc[w] \in InWait => Registered(o, w) \/ (OneShot(w) /\ received[w])
    BY DEF ListenerInv, WaitersListen
  <2>3. OneShot(w) => Matches(w)
    BY DEF OneShot, Matches
  <2>4. received[w] => received'[w]
    BY <1>7
  <2>5. OneShot(w) /\ Registered(o, w) => received'[w]
    BY <1>4, <1>7, <2>3
  <2> QED BY <1>1, <1>4, <1>5, <1>7, <2>1, <2>2, <2>4, <2>5
          DEF ListenerInv, WaitersListen, OneShot
<1>13. AnswersToCome'
  <2>1. offered \subseteq Waiters
    BY DEF ListenerInv, StateOK
  <2>2. ASSUME NEW v \in offered, pc[v] = "waiting"
        PROVE  received'[v] \/ \E h \in Entries(todo') : h.who = v
    <3>0. Awaits(v, msg) /\ (received[v] \/ \E h \in Entries(todo) : h.who = v)
      BY <2>2 DEF ListenerInv, AnswersToCome
    <3>1. CASE v # w
      BY <1>1, <1>3, <1>7, <2>1, <3>0, <3>1
    <3>2. CASE v = w
      <4>1. Matches(w)
        BY <3>0, <3>2 DEF Awaits, Matches
      <4>2. received[w] \/ Registered(o, w)
        BY <2>2, <3>2 DEF ListenerInv, WaitersListen, InWait
      <4> QED BY <1>4, <1>7, <3>2, <4>1, <4>2
    <3> QED BY <3>1, <3>2
  <2> QED BY <1>1, <2>1, <2>2 DEF ListenerInv, AnswersToCome, Awaits
<1>14. ListenersArmed' /\ ListenerPersists'
  <2>1. \A l \in Listeners : Registered(listens[l].outer, l)' <=> Registered(listens[l].outer, l)
    BY <1>1, <1>2, <1>5
  <2> QED BY <1>1, <2>1 DEF ListenerInv, ListenersArmed, ListenerPersists
<1>15. NoAnswerMissed'
  <2>1. \A v \in Waiters : received[v] => received'[v]
    BY <1>7
  <2> QED BY <1>1, <2>1 DEF ListenerInv, NoAnswerMissed
<1>16. NothingLeftBehind'
  <2>1. \A v \in Waiters \ {w} : Registered(ask[v].outer, v)' <=> Registered(ask[v].outer, v)
    BY <1>1, <1>2, <1>5
  <2>2. pc[w] = "returned" => ~Registered(ask[w].outer, w)'
    BY <1>5 DEF ListenerInv, NothingLeftBehind, OneShot
  <2> QED BY <1>1, <1>7, <2>1, <2>2 DEF ListenerInv, NothingLeftBehind
<1> QED BY <1>8, <1>10, <1>11, <1>12, <1>13, <1>14, <1>15, <1>16 DEF ListenerInv

-----------------------------------------------------------------------------
(* Steps of a listener *)

\* What a listener does never touches a waiter's handler.
WaitersKept == \A p \in Outer, w \in Waiters : Registered(p, w)' <=> Registered(p, w)

LEMMA ListenerFrame ==
  ASSUME ListenerInv, HandlersOK', WaitersKept,
         UNCHANGED <<client, up, pc, ask, received, msg, by, busy, offered, answered>>,
         running' \in Listeners \cup {NoOne}
  PROVE  TypeOK' /\ WaitersListen' /\ NoAnswerMissed' /\ NothingLeftBehind'
<1>1. \A w \in Waiters : ask[w].outer \in Outer
  BY StateFacts
<1>2. \A w \in Waiters : Registered(ask[w].outer, w)' <=> Registered(ask[w].outer, w)
  BY <1>1 DEF WaitersKept
<1>3. TypeOK'
  BY DEF ListenerInv, TypeOK, HandlersOK, Distinct
<1>4. WaitersListen'
  BY <1>2 DEF ListenerInv, WaitersListen, OneShot
<1>5. NoAnswerMissed' /\ NothingLeftBehind'
  BY <1>2 DEF ListenerInv, NoAnswerMissed, NothingLeftBehind
<1> QED BY <1>3, <1>4, <1>5

\* The turn of a listener passes: nobody who is owed an answer loses his turn.
LEMMA PassedTurn ==
  ASSUME ListenerInv, NEW l \in Listeners, Turn(l), todo' = Tail(todo),
         UNCHANGED <<client, up, pc, ask, received, msg, by, busy, offered, answered, listens, state>>,
         running' \in {NoOne, l}
  PROVE  DispatchBelongs' /\ AnswersToCome'
<1>1. l \in Owners /\ l \notin Waiters
  BY StateFacts
<1>2. /\ busy /\ running = NoOne /\ msg \in Messages
      /\ Entries(Tail(todo)) \subseteq Entries(todo)
      /\ \A w : (\E h \in Entries(todo) : h.who = w) =>
                  w = l \/ \E h \in Entries(Tail(todo)) : h.who = w
      /\ Head(todo).who = l /\ BelongsTo(Head(todo), msg.outer)
  BY <1>1, TurnFacts
<1>3. msg.outer = listens[l].outer /\ state[l] # "off"
  BY <1>2 DEF BelongsTo
<1>4. Forward
  BY DEF Forward
<1>5. \A h \in Entries(todo') : BelongsTo(h, msg.outer)'
  BY <1>2, <1>4, BelongsForward DEF ListenerInv, DispatchBelongs
<1>6. \A k \in Listeners : running' = k => k = l
  OBVIOUS
<1>7. DispatchBelongs'
  BY <1>2, <1>3, <1>5, <1>6 DEF ListenerInv, DispatchBelongs
<1>8. AnswersToCome'
  <2>1. offered \subseteq Waiters
    BY DEF ListenerInv, StateOK
  <2> QED BY <1>1, <1>2, <2>1 DEF ListenerInv, AnswersToCome, Awaits
<1> QED BY <1>7, <1>8

LEMMA SkipStep ==
  ASSUME ListenerInv, NEW l \in Listeners, SkipListener(l)
  PROVE  ListenerInv'
<1>1. /\ Turn(l) /\ todo' = Tail(todo)
      /\ UNCHANGED <<client, up, handlers, pc, ask, received, listens, state, broken,
                     msg, by, running, busy, offered, answered>>
  BY DEF SkipListener, waitVars, listenVars
<1>2. l \in Owners /\ HandlersOK
  BY StateFacts
<1>3. running = NoOne /\ Tail(todo) \in Seq(Handlers)
  BY <1>1, <1>2, TurnFacts
<1>4. DispatchBelongs' /\ AnswersToCome'
  BY <1>1, <1>3, PassedTurn
<1>5. TypeOK' /\ WaitersListen' /\ NoAnswerMissed' /\ NothingLeftBehind'
  BY <1>1, <1>2, <1>3, SameHandlers, ListenerFrame DEF WaitersKept
<1>6. StateOK'
  BY <1>1, <1>3 DEF ListenerInv, StateOK
<1>7. HandlersBelong'
  BY <1>1 DEF ListenerInv, HandlersBelong, BelongsTo
<1>8. ListenersArmed' /\ ListenerPersists'
  BY <1>1 DEF ListenerInv, ListenersArmed, ListenerPersists, Registered
<1> QED BY <1>4, <1>5, <1>6, <1>7, <1>8 DEF ListenerInv

\* A listener that matches is taken out and runs.
LEMMA StartStep ==
  ASSUME ListenerInv, NEW l \in Listeners, StartCallbacks(l)
  PROVE  ListenerInv'
<1>1. /\ Turn(l) /\ todo' = Tail(todo) /\ running' = l /\ handlers' = Taken(l)
      /\ Registered(msg.outer, l)
      /\ UNCHANGED <<client, up, pc, ask, received, listens, state, broken,
                     msg, by, busy, offered, answered>>
  BY DEF StartCallbacks, waitVars, listenVars
<1>2. /\ l \in Owners /\ HandlersOK /\ Waiters \cap Listeners = {}
      /\ \A k \in Listeners : k \in Owners /\ listens[k].outer \in Outer
      /\ \A w \in Waiters : w \in Owners
  BY StateFacts
<1>3. /\ running = NoOne /\ Tail(todo) \in Seq(Handlers) /\ msg.outer \in Outer
      /\ Head(todo).who = l /\ BelongsTo(Head(todo), msg.outer)
  BY <1>1, <1>2, TurnFacts
<1>4. msg.outer = listens[l].outer
  BY <1>3 DEF BelongsTo
<1>5. /\ HandlersOK'
      /\ \A p \in Outer : \A h \in Entries(handlers'[p]) : h \in Entries(handlers[p])
      /\ \A p \in Outer, y \in Owners \ {l} : Registered(p, y)' <=> Registered(p, y)
      /\ \A p \in Outer : Registered(p, l)' => Registered(p, l)
      /\ IF listens[l].once THEN ~Registered(listens[l].outer, l)'
                            ELSE Registered(listens[l].outer, l)'
  <2>1. CASE listens[l].once
    <3>1. handlers' = [handlers EXCEPT ![msg.outer] = Without(handlers[msg.outer], l)]
      BY <1>1, <2>1 DEF Taken
    <3>2. HandlersOK' /\ Removes(msg.outer, l)
      BY <1>2, <1>3, <3>1, RemoveHandler
    <3> QED BY <1>1, <1>2, <1>3, <1>4, <2>1, <3>2 DEF Removes
  <2>2. CASE ~listens[l].once
    <3>1. UNCHANGED handlers
      BY <1>1, <2>2 DEF Taken
    <3> QED BY <1>1, <1>2, <1>4, <2>2, <3>1, SameHandlers
  <2> QED BY <2>1, <2>2
<1>6. DispatchBelongs' /\ AnswersToCome'
  BY <1>1, PassedTurn
<1>7. TypeOK' /\ WaitersListen' /\ NoAnswerMissed' /\ NothingLeftBehind'
  <2>1. WaitersKept
    BY <1>2, <1>5 DEF WaitersKept
  <2> QED BY <1>1, <1>5, <2>1, ListenerFrame
<1>8. StateOK'
  BY <1>1, <1>3, <1>5 DEF ListenerInv, StateOK, HandlersOK
<1>9. HandlersBelong'
  BY <1>1, <1>5 DEF ListenerInv, HandlersBelong, BelongsTo
<1>10. ListenersArmed'
  <2>1. \A k \in Listeners \ {l} : Registered(listens[k].outer, k)' <=> Registered(listens[k].outer, k)
    BY <1>1, <1>2, <1>5
  <2>2. client # "fake" => state[l] # "stopped"
    BY <1>1, <1>4 DEF ListenerInv, ListenersArmed
  <2> QED BY <1>1, <1>5, <2>1, <2>2 DEF ListenerInv, ListenersArmed
<1>11. ListenerPersists'
  <2>1. \A k \in Listeners \ {l} : Registered(listens[k].outer, k)' <=> Registered(listens[k].outer, k)
    BY <1>1, <1>2, <1>5
  <2>2. \A k \in Listeners : running # k
    BY <1>2, <1>3 DEF Owners
  <2> QED BY <1>1, <2>1, <2>2 DEF ListenerInv, ListenerPersists
<1> QED BY <1>6, <1>7, <1>8, <1>9, <1>10, <1>11 DEF ListenerInv

\* A listener that does not match is back before anybody else runs.
LEMMA FilterStep ==
  ASSUME ListenerInv, NEW l \in Listeners, Filter(l)
  PROVE  ListenerInv'
<1>1. /\ Turn(l) /\ todo' = Tail(todo) /\ handlers' = PassOver(l)
      /\ Registered(msg.outer, l)
      /\ UNCHANGED <<client, up, pc, ask, received, listens, state, broken,
                     msg, by, running, busy, offered, answered>>
  BY DEF Filter, waitVars, listenVars
<1>2. /\ l \in Owners /\ HandlersOK /\ l \notin Waiters
      /\ \A k \in Listeners : k \in Owners /\ listens[k].outer \in Outer
      /\ \A w \in Waiters : w \in Owners
  BY StateFacts
<1>3. /\ running = NoOne /\ Tail(todo) \in Seq(Handlers) /\ msg.outer \in Outer
      /\ Head(todo).who = l /\ BelongsTo(Head(todo), msg.outer)
  BY <1>1, <1>2, TurnFacts
<1>4. msg.outer = listens[l].outer /\ state[l] # "off"
  BY <1>3 DEF BelongsTo
<1>5. /\ HandlersOK'
      /\ \A p \in Outer : \A h \in Entries(handlers'[p]) :
           h \in Entries(handlers[p]) \/ (p = msg.outer /\ h.who = l)
      /\ \A p \in Outer, y \in Owners : Registered(p, y)' <=> Registered(p, y)
  BY <1>1, <1>2, <1>3, PassOverHandler
<1>6. DispatchBelongs' /\ AnswersToCome'
  BY <1>1, <1>3, PassedTurn
<1>7. TypeOK' /\ WaitersListen' /\ NoAnswerMissed' /\ NothingLeftBehind'
  <2>1. WaitersKept
    BY <1>2, <1>5 DEF WaitersKept
  <2> QED BY <1>1, <1>3, <1>5, <2>1, ListenerFrame
<1>8. StateOK'
  BY <1>1, <1>3, <1>5 DEF ListenerInv, StateOK, HandlersOK
<1>9. HandlersBelong'
  <2>1. \A h : h.who = l => BelongsTo(h, msg.outer)'
    BY <1>1, <1>2, <1>4 DEF BelongsTo
  <2>2. \A p \in Outer : \A h : BelongsTo(h, p) => BelongsTo(h, p)'
    BY <1>1 DEF BelongsTo
  <2>3. \A h, p : h.who = l /\ p = msg.outer => BelongsTo(h, p)'
    BY <1>1, <1>2, <1>4 DEF BelongsTo
  <2> QED BY <1>1, <1>5, <2>2, <2>3 DEF ListenerInv, HandlersBelong
<1>10. ListenersArmed' /\ ListenerPersists'
  <2>1. \A k \in Listeners : Registered(listens[k].outer, k)' <=> Registered(listens[k].outer, k)
    BY <1>1, <1>2, <1>5
  <2> QED BY <1>1, <2>1 DEF ListenerInv, ListenersArmed, ListenerPersists
<1> QED BY <1>6, <1>7, <1>8, <1>9, <1>10 DEF ListenerInv

\* A listener registers: for the first time, or again after its callbacks.
LEMMA ListenerAdds ==
  ASSUME ListenerInv, NEW l \in Listeners, NEW b \in BOOLEAN,
         ~Registered(listens[l].outer, l),
         handlers' = [handlers EXCEPT ![listens[l].outer] = With(handlers[listens[l].outer], l, b)],
         UNCHANGED <<client, up, pc, ask, received, listens, broken,
                     msg, todo, by, busy, offered, answered>>,
         running' = running \/ running' = NoOne,
         state' \in [Listeners -> {"off", "on", "stopped"}],
         \A k \in Listeners \ {l} : state'[k] = state[k],
         state'[l] # "off"
  PROVE  /\ TypeOK' /\ StateOK' /\ HandlersBelong' /\ DispatchBelongs'
         /\ WaitersListen' /\ AnswersToCome' /\ NoAnswerMissed' /\ NothingLeftBehind'
         /\ Registered(listens[l].outer, l)'
         /\ \A k \in Listeners \ {l} :
              Registered(listens[k].outer, k)' <=> Registered(listens[k].outer, k)
<1>1. /\ l \in Owners /\ HandlersOK /\ l \notin Waiters /\ NoOne \notin Listeners
      /\ \A k \in Listeners : k \in Owners /\ listens[k].outer \in Outer
      /\ \A w \in Waiters : w \in Owners
  BY StateFacts DEF Owners
<1>2. HandlersOK' /\ Adds(listens[l].outer, l)
  BY <1>1, AddHandler
<1>3. Forward
  BY DEF Forward
<1>4. TypeOK' /\ WaitersListen' /\ NoAnswerMissed' /\ NothingLeftBehind'
  <2>1. WaitersKept
    BY <1>1, <1>2 DEF Adds, WaitersKept
  <2>2. running' \in Listeners \cup {NoOne}
    BY DEF ListenerInv, TypeOK
  <2> QED BY <1>2, <2>1, <2>2, ListenerFrame
<1>5. StateOK'
  BY <1>2 DEF ListenerInv, StateOK, HandlersOK
<1>6. HandlersBelong'
  <2>1. \A h, p : h.who = l /\ p = listens[l].outer => BelongsTo(h, p)'
    BY <1>1 DEF BelongsTo
  <2> QED BY <1>2, <1>3, <2>1, BelongsForward DEF ListenerInv, HandlersBelong, Adds
<1>7. DispatchBelongs'
  <2>1. \A h \in Entries(todo') : BelongsTo(h, msg.outer)'
    BY <1>3, BelongsForward DEF ListenerInv, DispatchBelongs
  <2>2. \A k \in Listeners : running' = k => msg.outer = listens[k].outer /\ state'[k] # "off"
    BY <1>1 DEF ListenerInv, DispatchBelongs
  <2> QED BY <2>1, <2>2 DEF ListenerInv, DispatchBelongs
<1>8. AnswersToCome'
  BY DEF ListenerInv, AnswersToCome, Awaits
<1>9. /\ Registered(listens[l].outer, l)'
      /\ \A k \in Listeners \ {l} :
           Registered(listens[k].outer, k)' <=> Registered(listens[k].outer, k)
  BY <1>1, <1>2 DEF Adds
<1> QED BY <1>4, <1>5, <1>6, <1>7, <1>8, <1>9

LEMMA ListenStep ==
  ASSUME ListenerInv, NEW l \in Listeners, Listen(l)
  PROVE  ListenerInv'
<1>1. /\ state[l] = "off" /\ state' = [state EXCEPT ![l] = "on"]
      /\ handlers' = [handlers EXCEPT ![listens[l].outer] =
                        With(handlers[listens[l].outer], l, listens[l].once)]
      /\ UNCHANGED <<client, up, pc, ask, received, listens, broken,
                     msg, todo, by, running, busy, offered, answered>>
  BY DEF Listen, waitVars, dispatchVars
<1>2. listens[l].outer \in Outer /\ listens[l].once \in BOOLEAN /\ l \notin Waiters
  BY StateFacts
<1>3. ~Registered(listens[l].outer, l) /\ running # l
  BY <1>1, <1>2, RegisteredFacts DEF ListenerInv, HandlersBelong, BelongsTo, DispatchBelongs
<1>4. /\ state' \in [Listeners -> {"off", "on", "stopped"}] /\ state'[l] = "on"
      /\ \A k \in Listeners \ {l} : state'[k] = state[k]
  BY <1>1 DEF ListenerInv, StateOK
<1>5. /\ TypeOK' /\ StateOK' /\ HandlersBelong' /\ DispatchBelongs'
      /\ WaitersListen' /\ AnswersToCome' /\ NoAnswerMissed' /\ NothingLeftBehind'
      /\ Registered(listens[l].outer, l)'
      /\ \A k \in Listeners \ {l} :
           Registered(listens[k].outer, k)' <=> Registered(listens[k].outer, k)
  BY <1>1, <1>2, <1>3, <1>4, ListenerAdds
<1>6. ListenersArmed' /\ ListenerPersists'
  BY <1>1, <1>3, <1>4, <1>5 DEF ListenerInv, ListenersArmed, ListenerPersists
<1> QED BY <1>5, <1>6 DEF ListenerInv

LEMMA RearmStep ==
  ASSUME ListenerInv, NEW l \in Listeners, Rearm(l)
  PROVE  ListenerInv'
<1>1. /\ running = l /\ running' = NoOne
      /\ handlers' = IF listens[l].once
                     THEN [handlers EXCEPT ![msg.outer] = With(handlers[msg.outer], l, TRUE)]
                     ELSE handlers
      /\ UNCHANGED <<client, up, pc, ask, received, listens, state, broken,
                     msg, todo, by, busy, offered, answered>>
  BY DEF Rearm, waitVars, listenVars
<1>2. /\ HandlersOK /\ NoOne \notin Listeners
      /\ \A k \in Listeners : listens[k].outer \in Outer
  BY StateFacts DEF Owners
<1>3. msg.outer = listens[l].outer /\ state[l] # "off" /\ busy /\ msg \in Messages
  BY <1>1, <1>2 DEF ListenerInv, DispatchBelongs
<1>4. \A k \in Listeners : running' # k
  BY <1>1, <1>2
<1>5. client # "fake" => state[l] # "stopped"
  BY <1>1 DEF ListenerInv, ListenersArmed
<1>6. CASE listens[l].once
  <2>1. ~Registered(listens[l].outer, l)
    BY <1>1, <1>6 DEF ListenerInv, ListenersArmed
  <2>2. /\ TypeOK' /\ StateOK' /\ HandlersBelong' /\ DispatchBelongs'
        /\ WaitersListen' /\ AnswersToCome' /\ NoAnswerMissed' /\ NothingLeftBehind'
        /\ Registered(listens[l].outer, l)'
        /\ \A k \in Listeners \ {l} :
             Registered(listens[k].outer, k)' <=> Registered(listens[k].outer, k)
    <3>1. state \in [Listeners -> {"off", "on", "stopped"}]
      BY DEF ListenerInv, StateOK
    <3>2. handlers' = [handlers EXCEPT ![listens[l].outer] =
                         With(handlers[listens[l].outer], l, TRUE)]
      BY <1>1, <1>3, <1>6
    <3> QED BY <1>1, <1>3, <2>1, <3>1, <3>2, ListenerAdds
  <2>3. ListenersArmed' /\ ListenerPersists'
    BY <1>1, <1>4, <1>5, <2>2 DEF ListenerInv, ListenersArmed, ListenerPersists
  <2> QED BY <2>2, <2>3 DEF ListenerInv
<1>7. CASE ~listens[l].once
  <2>1. UNCHANGED handlers
    BY <1>1, <1>7
  <2>2. TypeOK' /\ WaitersListen' /\ NoAnswerMissed' /\ NothingLeftBehind'
    BY <1>1, <1>2, <2>1, SameHandlers, ListenerFrame DEF WaitersKept
  <2>3. StateOK' /\ HandlersBelong' /\ AnswersToCome'
    BY <1>1, <2>1 DEF ListenerInv, StateOK, HandlersBelong, BelongsTo, AnswersToCome, Awaits
  <2>4. DispatchBelongs'
    BY <1>1, <1>3, <1>4 DEF ListenerInv, DispatchBelongs, BelongsTo
  <2>5. ListenersArmed'
    BY <1>1, <1>4, <2>1 DEF ListenerInv, ListenersArmed, Registered
  \* A plain handler never left the emitter.
  <2>6. ListenerPersists'
    BY <1>1, <1>7, <2>1 DEF ListenerInv, ListenersArmed, ListenerPersists, Registered
  <2> QED BY <2>2, <2>3, <2>4, <2>5, <2>6 DEF ListenerInv
<1> QED BY <1>6, <1>7

\* shutdown removes the handler for good.
LEMMA ShutdownStep ==
  ASSUME ListenerInv, NEW l \in Listeners, Shutdown(l)
  PROVE  ListenerInv'
<1>1. /\ state[l] = "on" /\ listens[l].once /\ Stops(l)
      /\ state' = [state EXCEPT ![l] = "stopped"]
      /\ handlers' = [handlers EXCEPT ![listens[l].outer] =
                        Without(handlers[listens[l].outer], l)]
      /\ UNCHANGED <<client, up, pc, ask, received, listens, broken,
                     msg, todo, by, running, busy, offered, answered>>
  BY DEF Shutdown, waitVars, dispatchVars
<1>2. /\ l \in Owners /\ HandlersOK /\ l \notin Waiters
      /\ \A k \in Listeners : k \in Owners /\ listens[k].outer \in Outer
      /\ \A w \in Waiters : w \in Owners
  BY StateFacts
<1>3. HandlersOK' /\ Removes(listens[l].outer, l)
  BY <1>1, <1>2, RemoveHandler
<1>4. /\ state' \in [Listeners -> {"off", "on", "stopped"}] /\ state'[l] = "stopped"
      /\ \A k \in Listeners \ {l} : state'[k] = state[k]
  BY <1>1 DEF ListenerInv, StateOK
<1>5. Forward
  BY <1>1, <1>4 DEF Forward
<1>6. TypeOK' /\ WaitersListen' /\ NoAnswerMissed' /\ NothingLeftBehind'
  <2>1. WaitersKept
    BY <1>2, <1>3 DEF Removes, WaitersKept
  <2>2. running' \in Listeners \cup {NoOne}
    BY <1>1 DEF ListenerInv, TypeOK
  <2> QED BY <1>1, <1>3, <2>1, <2>2, ListenerFrame
<1>7. StateOK'
  BY <1>1, <1>3, <1>4 DEF ListenerInv, StateOK, HandlersOK
<1>8. HandlersBelong'
  BY <1>3, <1>5, BelongsForward DEF ListenerInv, HandlersBelong, Removes
<1>9. DispatchBelongs'
  <2>1. \A h \in Entries(todo') : BelongsTo(h, msg.outer)'
    BY <1>1, <1>5, BelongsForward DEF ListenerInv, DispatchBelongs
  <2> QED BY <1>1, <1>4, <2>1 DEF ListenerInv, DispatchBelongs
<1>10. AnswersToCome'
  BY <1>1 DEF ListenerInv, AnswersToCome, Awaits
<1>11. /\ ~Registered(listens[l].outer, l)'
       /\ \A k \in Listeners \ {l} :
            Registered(listens[k].outer, k)' <=> Registered(listens[k].outer, k)
  BY <1>1, <1>2, <1>3 DEF Removes
<1>12. client # "fake" => running # l
  BY <1>1 DEF Stops, ListenerInv, ListenersArmed
<1>13. ListenersArmed' /\ ListenerPersists'
  BY <1>1, <1>4, <1>11, <1>12 DEF ListenerInv, ListenersArmed, ListenerPersists
<1> QED BY <1>6, <1>7, <1>8, <1>9, <1>10, <1>13 DEF ListenerInv

-----------------------------------------------------------------------------
LEMMA NextListeners == ListenerInv /\ [Next]_vars => ListenerInv'
<1> SUFFICES ASSUME ListenerInv, [Next]_vars PROVE ListenerInv'
  OBVIOUS
<1>1. CASE UNCHANGED vars
  <2>1. UNCHANGED <<client, up, handlers, pc, ask, received, listens, state, broken,
                    msg, todo, by, running, busy, msgs, offered, answered>>
    BY <1>1 DEF vars, waitVars, listenVars, dispatchVars
  <2>2. TypeOK' /\ StateOK'
    BY <2>1 DEF ListenerInv, TypeOK, StateOK
  <2>3. HandlersBelong' /\ DispatchBelongs'
    BY <2>1 DEF ListenerInv, HandlersBelong, DispatchBelongs, BelongsTo
  <2>4. WaitersListen' /\ AnswersToCome'
    BY <2>1 DEF ListenerInv, WaitersListen, AnswersToCome, Registered, OneShot, Awaits
  <2>5. ListenersArmed' /\ ListenerPersists'
    BY <2>1 DEF ListenerInv, ListenersArmed, ListenerPersists, Registered
  <2>6. NoAnswerMissed' /\ NothingLeftBehind'
    BY <2>1 DEF ListenerInv, NoAnswerMissed, NothingLeftBehind, Registered
  <2> QED BY <2>2, <2>3, <2>4, <2>5, <2>6 DEF ListenerInv
<1>2. CASE Dispatch
  BY <1>2, FinishStep, BreaksStep, RunWaiterStep, SkipStep, StartStep, FilterStep, RearmStep
     DEF Dispatch, ListenerTurn, WaiterTurn
<1>3. CASE \E w \in Waiters : WaiterStep(w)
  BY <1>3, WaitStep, WaiterMoves, SendFakeStep, ReturnStep DEF WaiterStep
<1> QED
  BY <1>1, <1>2, <1>3, LinkStep, ReceiveStep, ListenStep, ShutdownStep DEF Next

\* The invariant of waiting and listening, on each of the three clients.
THEOREM ListenerInvariance == Spec => []ListenerInv
BY InitListeners, NextListeners, PTL DEF Spec

\* Handlers are registered once, and a half constructed waiter is one of the
\* threading client.
THEOREM ListenersTypeCorrect == Spec => []TypeOK
<1>1. ListenerInv => TypeOK
  BY DEF ListenerInv
<1> QED BY ListenerInvariance, <1>1, PTL

\* Nobody who waited for a message through its dispatch comes back without it,
\* whatever else is registered, removed or raised meanwhile.
THEOREM AnswersReachWaiters == Spec => []NoAnswerMissed
<1>1. ListenerInv => NoAnswerMissed
  BY DEF ListenerInv
<1> QED BY ListenerInvariance, <1>1, PTL

\* A listener stays armed until it is shut down or raises.
THEOREM ListenersStayArmed == Spec => []ListenerPersists
<1>1. ListenerInv => ListenerPersists
  BY DEF ListenerInv
<1> QED BY ListenerInvariance, <1>1, PTL

\* A wait that returns leaves no handler, but for the fake's one-shot handler
\* that was never called.
THEOREM WaitsCleanUp == Spec => []NothingLeftBehind
<1>1. ListenerInv => NothingLeftBehind
  BY DEF ListenerInv
<1> QED BY ListenerInvariance, <1>1, PTL

\* In the real clients no callback starts after shutdown, not even by a dispatch
\* under way.
THEOREM ShutdownIsFinal == Spec => ShutdownFinal
<1>1. ListenerInv /\ ListenerInv' /\ [Next]_vars =>
        [\A l \in Listeners :
           client # "fake" /\ state[l] = "stopped" => running' # l]_vars
  <2> SUFFICES ASSUME ListenerInv, ListenerInv', [Next]_vars, NEW l \in Listeners,
                      client # "fake", state[l] = "stopped", running' = l
               PROVE  FALSE
    OBVIOUS
  <2>1. running # l
    BY DEF ListenerInv, ListenersArmed
  <2>2. CASE UNCHANGED <<client, state>>
    BY <2>2 DEF ListenerInv, ListenersArmed
  <2>3. CASE UNCHANGED running
    BY <2>1, <2>3
  <2>4. CASE Dispatch
    <3>1. Abort => UNCHANGED <<client, state>>
      BY DEF Abort
    <3>2. UNCHANGED <<client, state>>
      BY <2>4, <3>1 DEF Dispatch, Finish, ListenerTurn, SkipListener, ListenerBreaks, StartCallbacks,
           Filter, Rearm, CallbackRaises, WaiterTurn, RunWaiter, WaiterBreaks, listenVars
    <3> QED BY <2>2, <3>2
  <2>5. CASE \E w \in Waiters : WaiterStep(w)
    <3>1. UNCHANGED <<client, state>>
      BY <2>5 DEF WaiterStep, Wait, Constructed, Send, SendRaises, SendFake, Return, listenVars
    <3> QED BY <2>2, <3>1
  <2>6. CASE \E k \in Listeners : Listen(k) \/ Shutdown(k)
    <3>1. UNCHANGED running
      BY <2>6 DEF Listen, Shutdown, dispatchVars
    <3> QED BY <2>3, <3>1
  <2>7. CASE LinkDown \/ LinkUp \/ (\E m \in Messages : Receive(m)) \/ UNCHANGED vars
    <3>1. UNCHANGED <<client, state>>
      BY <2>7 DEF LinkDown, LinkUp, Receive, vars, listenVars
    <3> QED BY <2>2, <3>1
  <2> QED BY <2>4, <2>5, <2>6, <2>7 DEF Next
<1> QED BY ListenerInvariance, <1>1, PTL DEF Spec, ShutdownFinal
=============================================================================
