----------------------------- MODULE Listeners -----------------------------
(***************************************************************************)
(* Waiting for and listening to hive messages: the waiters of client.py,   *)
(* async_client.py and fakebus.py, and the listeners and decorators of     *)
(* decorators.py, over the clients' event emitter.                         *)
(*                                                                         *)
(* An emit of the emitter runs over a snapshot of the handlers and stops   *)
(* at the first exception; a once-handler is taken out before it runs, and *)
(* not run when somebody else took it out.  With the threading client the  *)
(* receive thread runs handlers while the application's threads register,  *)
(* wait and remove.  With the asyncio client and the fake a dispatch is    *)
(* not interrupted; the fake dispatches what it is asked to send.          *)
(*                                                                         *)
(* The frames that arrive, the link, and the callbacks of the application  *)
(* are external.  Handlers of the internal bus and of the protocol are     *)
(* left out.                                                               *)
(***************************************************************************)
EXTENDS Naturals, Sequences

CONSTANTS Waiters,    \* calls of wait_for_*, each made once
          Listeners,  \* uses of a decorator
          Outer,      \* message types under consideration
          Inner,      \* types of the messages inside
          Wanted,     \* those that somebody asks for
          NoOne,      \* no waiter, no listener
          AnyType,    \* no filter on the payload
          Dict,       \* a payload that is a dict and has no msg_type
          MaxMsgs     \* bound: messages received

\* Message types whose payload is a Message or a HiveMessage (message.py).
WithPayloadType ==
  {"BUS", "SHARED_BUS", "BROADCAST", "PROPAGATE", "ESCALATE", "QUERY", "CASCADE"}

ASSUME ListenerAssumption ==
  /\ Waiters \cap Listeners = {}
  /\ NoOne \notin Waiters \cup Listeners
  /\ Wanted \subseteq Inner
  /\ AnyType \notin Inner /\ Dict \notin Inner /\ AnyType # Dict
  /\ MaxMsgs \in Nat

Messages ==
  UNION {[outer: {o}, inner: IF o \in WithPayloadType THEN Inner ELSE {Dict}] : o \in Outer}

-----------------------------------------------------------------------------
(* What the decorators listen to *)

BusDecorators ==
  [on_mycroft_message |-> "BUS", on_shared_bus |-> "SHARED_BUS",
   on_broadcast |-> "BROADCAST", on_ping |-> "PING",
   on_propagate |-> "PROPAGATE", on_escalate |-> "ESCALATE"]
SessionDecorators ==
  [on_handshake |-> "HANDSHAKE", on_hello |-> "HELLO", on_query |-> "QUERY",
   on_cascade |-> "CASCADE", on_rendezvous |-> "RENDEZVOUS"]

\* A HivePayloadListener per decorator and payload type; on_payload makes one
\* for any message type.
Filters(outer) == [outer: {outer}, want: Wanted, once: {TRUE}]
Filtered ==
  (UNION {Filters(BusDecorators[d]) : d \in DOMAIN BusDecorators})
  \cup (UNION {Filters(SessionDecorators[d]) : d \in DOMAIN SessionDecorators})
OnPayload == UNION {Filters(o) : o \in Outer}
\* A HiveMessageListener, which does not look into the payload.
OnThirdParty == [outer |-> "THIRDPRTY", want |-> AnyType, once |-> TRUE]
\* A plain handler.
OnHiveMessage == [outer: Outer, want: {AnyType}, once: {FALSE}]

Decorated ==
  {d \in Filtered \cup OnPayload \cup {OnThirdParty} \cup OnHiveMessage : d.outer \in Outer}

-----------------------------------------------------------------------------
VARIABLES
  client,    \* "threads", "asyncio" or "fake"
  up,        \* connected_event
  handlers,  \* the emitter: handlers of each message type, in order
  msg,       \* the message being dispatched
  todo,      \* handlers of the snapshot that have not run yet
  by,        \* the waiter whose own send is being dispatched (fake)
  running,   \* the listener whose callbacks are running
  busy,      \* a dispatch is in progress
  msgs,      \* messages received so far
  pc,        \* where each waiter is
  ask,       \* what a waiter asked for
  received,  \* received_msg of a waiter is set
  listens,   \* what a listener listens to
  state,     \* "off", "on", "stopped"
  offered,   \* history: who waited for the message when its dispatch began
  answered,  \* history: who was waiting for a message fully dispatched
  broken     \* history: listeners whose handler raised

waitVars == <<pc, ask, received>>
listenVars == <<listens, state, broken>>
dispatchVars == <<msg, todo, by, running, busy, msgs, offered, answered>>
vars == <<client, up, handlers, waitVars, listenVars, dispatchVars>>

NoMessage == [outer |-> NoOne, inner |-> NoOne]

Init ==
  /\ client \in {"threads", "asyncio", "fake"}
  /\ up = TRUE
  /\ handlers = [o \in Outer |-> << >>]
  /\ msg = NoMessage /\ todo = << >> /\ by = NoOne
  /\ running = NoOne /\ busy = FALSE /\ msgs = 0
  /\ pc = [w \in Waiters |-> "idle"]
  /\ ask \in [Waiters -> [outer: Outer, want: Wanted \cup {AnyType}, sends: BOOLEAN]]
  /\ received = [w \in Waiters |-> FALSE]
  /\ listens \in [Listeners -> Decorated]
  /\ state = [l \in Listeners |-> "off"]
  /\ offered = {} /\ answered = {} /\ broken = {}

\* An application thread runs at any time; a task of the event loop only
\* between two dispatches.
MayRun == client = "threads" \/ ~busy

Registered(o, who) == \E i \in DOMAIN handlers[o] : handlers[o][i].who = who
With(hs, who, once) == Append(hs, [who |-> who, once |-> once])

\* The emitter's handlers are an ordered dictionary: one entry goes, the others
\* move up.
PlaceOf(hs, who) == CHOOSE i \in DOMAIN hs : hs[i].who = who
Without(hs, who) ==
  IF \E i \in DOMAIN hs : hs[i].who = who
  THEN [i \in 1 .. Len(hs) - 1 |-> IF i < PlaceOf(hs, who) THEN hs[i] ELSE hs[i + 1]]
  ELSE hs

-----------------------------------------------------------------------------
(* The link *)

LinkDown ==
  /\ up /\ ~busy /\ client # "fake"
  /\ up' = FALSE
  /\ UNCHANGED <<client, handlers, waitVars, listenVars, dispatchVars>>

LinkUp ==
  /\ ~up
  /\ up' = TRUE
  /\ UNCHANGED <<client, handlers, waitVars, listenVars, dispatchVars>>

-----------------------------------------------------------------------------
(* Dispatch of a message to its handlers *)

\* Who is owed an answer by this message.
Awaits(w, m) ==
  /\ pc[w] = "waiting"
  /\ ask[w].outer = m.outer
  /\ ask[w].want \in {AnyType, m.inner}

Begin(m, who) ==
  /\ ~busy
  /\ busy' = TRUE /\ msg' = m /\ by' = who
  /\ todo' = handlers[m.outer]
  /\ offered' = {w \in Waiters : Awaits(w, m)}
  /\ UNCHANGED <<running, answered>>

Receive(m) ==
  /\ up /\ msgs < MaxMsgs
  /\ Begin(m, NoOne)
  /\ msgs' = msgs + 1
  /\ UNCHANGED <<client, up, handlers, waitVars, listenVars>>

\* The emitter hands the exception on.  The websocket library of the threading
\* client calls on_error, which ends the session and reconnects; the receive
\* loop of the asyncio client logs it; with the fake it reaches the sender.
Abort ==
  /\ busy' = FALSE /\ msg' = NoMessage /\ todo' = << >>
  /\ by' = NoOne /\ running' = NoOne /\ offered' = {}
  /\ up' = (up /\ client # "threads")
  /\ pc' = [w \in Waiters |-> IF w = by THEN "raised" ELSE pc[w]]
  /\ UNCHANGED <<client, msgs, answered, ask, received, listens, state>>

Finish ==
  /\ busy /\ todo = << >> /\ running = NoOne
  /\ busy' = FALSE /\ msg' = NoMessage /\ by' = NoOne /\ offered' = {}
  /\ pc' = [w \in Waiters |-> IF w = by THEN "waiting" ELSE pc[w]]
  /\ answered' = answered \cup {w \in offered : pc[w] = "waiting"}
  /\ UNCHANGED <<client, up, handlers, todo, running, msgs, ask, received, listenVars>>

Turn(who) == busy /\ running = NoOne /\ todo # << >> /\ Head(todo).who = who

\* Only the threading client's payload handler looks for msg_type in a payload
\* that has none, or compares it with a payload_type that is not set yet.
WaiterRaises(w) ==
  /\ client = "threads" /\ ask[w].want # AnyType
  /\ pc[w] = "constructing" \/ msg.inner = Dict

\* Faulty variant: the type of the outer message is compared.
MatchesOuter(w) == ask[w].want \in {AnyType, msg.outer}

Matches(w) == ask[w].want \in {AnyType, msg.inner}

\* The once-handler of the fake is gone once it ran.
RunWaiter(w) ==
  /\ Turn(w) /\ ~WaiterRaises(w)
  /\ LET runs == Head(todo).once => Registered(msg.outer, w)
     IN  /\ received' = [received EXCEPT ![w] = @ \/ (runs /\ Matches(w))]
         /\ handlers' = IF Head(todo).once
                        THEN [handlers EXCEPT ![msg.outer] = Without(@, w)]
                        ELSE handlers
  /\ todo' = Tail(todo)
  /\ UNCHANGED <<client, up, pc, ask, listenVars, msg, by, running, busy, msgs, offered, answered>>

WaiterBreaks(w) ==
  /\ Turn(w) /\ WaiterRaises(w)
  /\ Abort
  /\ UNCHANGED <<handlers, broken>>

\* The once-wrapper of the emitter: a listener shut down since the snapshot was
\* taken does not run.
SkipListener(l) ==
  /\ Turn(l) /\ ~Registered(msg.outer, l)
  /\ todo' = Tail(todo)
  /\ UNCHANGED <<client, up, handlers, waitVars, listenVars, msg, by, running, busy, msgs, offered, answered>>

Taken(l) ==
  IF listens[l].once THEN [handlers EXCEPT ![msg.outer] = Without(@, l)] ELSE handlers

\* HivePayloadListener._handler reads msg_type of a payload that has none.
ListenerBreaks(l) ==
  /\ Turn(l) /\ Registered(msg.outer, l)
  /\ listens[l].want # AnyType /\ msg.inner = Dict
  /\ handlers' = Taken(l)
  /\ broken' = broken \cup {l}
  /\ Abort

StartCallbacks(l) ==
  /\ Turn(l) /\ Registered(msg.outer, l)
  /\ listens[l].want \in {AnyType, msg.inner}
  /\ handlers' = Taken(l)
  /\ running' = l /\ todo' = Tail(todo)
  /\ UNCHANGED <<client, up, waitVars, listenVars, msg, by, busy, msgs, offered, answered>>

\* Faulty variant: only a message that matched re-arms the listener.
PassOverSilently(l) == Taken(l)

\* A payload of another type: nothing is called, and the listener goes to the
\* end of the line.
PassOver(l) == [handlers EXCEPT ![msg.outer] = With(Without(@, l), l, TRUE)]

Filter(l) ==
  /\ Turn(l) /\ Registered(msg.outer, l)
  /\ msg.inner # Dict /\ listens[l].want \notin {AnyType, msg.inner}
  /\ handlers' = PassOver(l)
  /\ todo' = Tail(todo)
  /\ UNCHANGED <<client, up, waitVars, listenVars, msg, by, running, busy, msgs, offered, answered>>

\* The callbacks are done: bus.once again.
Rearm(l) ==
  /\ running = l
  /\ handlers' = IF listens[l].once
                 THEN [handlers EXCEPT ![msg.outer] = With(@, l, TRUE)] ELSE handlers
  /\ running' = NoOne
  /\ UNCHANGED <<client, up, waitVars, listenVars, msg, todo, by, busy, msgs, offered, answered>>

CallbackRaises(l) ==
  /\ running = l
  /\ broken' = broken \cup {l}
  /\ Abort
  /\ UNCHANGED handlers

ListenerTurn(l) ==
  SkipListener(l) \/ ListenerBreaks(l) \/ StartCallbacks(l) \/ Filter(l)
  \/ Rearm(l) \/ CallbackRaises(l)
WaiterTurn(w) == RunWaiter(w) \/ WaiterBreaks(w)

Dispatch ==
  \/ Finish
  \/ \E l \in Listeners : ListenerTurn(l)
  \/ \E w \in Waiters : WaiterTurn(w)

-----------------------------------------------------------------------------
(* Listeners *)

Listen(l) ==
  /\ state[l] = "off" /\ MayRun
  /\ handlers' = [handlers EXCEPT ![listens[l].outer] = With(@, l, listens[l].once)]
  /\ state' = [state EXCEPT ![l] = "on"]
  /\ UNCHANGED <<client, up, waitVars, listens, broken, dispatchVars>>

\* Faulty variant: removing a handler that is not there goes unnoticed.
StopsSilently(l) == TRUE

\* remove_listener finds the handler, or raises KeyError in the caller; the fake
\* swallows that.
Stops(l) == Registered(listens[l].outer, l) \/ client = "fake"

\* shutdown, by a thread at any time, by a task, or by a callback of the
\* listener itself.  A plain handler has none.
Shutdown(l) ==
  /\ state[l] = "on" /\ listens[l].once
  /\ MayRun \/ running = l
  /\ Stops(l)
  /\ handlers' = [handlers EXCEPT ![listens[l].outer] = Without(@, l)]
  /\ state' = [state EXCEPT ![l] = "stopped"]
  /\ UNCHANGED <<client, up, waitVars, listens, broken, dispatchVars>>

-----------------------------------------------------------------------------
(* Waiters *)

\* Faulty variant: the asyncio constructor gives way between the two steps.
ConstructsInSteps(w) == ask[w].want # AnyType

\* HivePayloadWaiter registers its handler in the base class, then sets
\* payload_type; other threads run in between.
Constructs(w) == client = "threads" /\ ask[w].want # AnyType

Ready(w) == IF ask[w].sends THEN "ready" ELSE "waiting"

Wait(w) ==
  /\ pc[w] = "idle" /\ MayRun
  /\ handlers' = [handlers EXCEPT
                    ![ask[w].outer] = With(@, w, client = "fake" /\ ask[w].want = AnyType)]
  /\ pc' = [pc EXCEPT ![w] = IF Constructs(w) THEN "constructing" ELSE Ready(w)]
  /\ UNCHANGED <<client, up, ask, received, listenVars, dispatchVars>>

Constructed(w) ==
  /\ pc[w] = "constructing" /\ MayRun
  /\ pc' = [pc EXCEPT ![w] = Ready(w)]
  /\ UNCHANGED <<client, up, handlers, ask, received, listenVars, dispatchVars>>

\* wait_for_response and wait_for_payload_response send once they listen.
Send(w) ==
  /\ pc[w] = "ready" /\ client # "fake" /\ up /\ MayRun
  /\ pc' = [pc EXCEPT ![w] = "waiting"]
  /\ UNCHANGED <<client, up, handlers, ask, received, listenVars, dispatchVars>>

\* emit gave up on the connection; nobody removes the handler.
SendRaises(w) ==
  /\ pc[w] = "ready" /\ ~up /\ MayRun
  /\ pc' = [pc EXCEPT ![w] = "raised"]
  /\ UNCHANGED <<client, up, handlers, ask, received, listenVars, dispatchVars>>

\* The fake dispatches the request itself, before it waits; a HiveMessage may ask
\* for an answer of another type than its own.
SendFake(w) ==
  /\ pc[w] = "ready" /\ client = "fake"
  /\ \E m \in Messages : (ask[w].want = AnyType \/ m.outer = ask[w].outer) /\ Begin(m, w)
  /\ pc' = [pc EXCEPT ![w] = "sending"]
  /\ UNCHANGED <<client, up, handlers, ask, received, listenVars, msgs>>

\* Faulty variants: the handler is removed on a timeout only, and the wait has
\* no timeout.
LeavesOnTimeout(w) == ~received[w]
TimesOutNever(w) == FALSE

\* The wait of the fake for a message without filter trusts in once.
Leaves(w) == ~(client = "fake" /\ ask[w].want = AnyType)
TimesOut(w) == TRUE

\* The event is set or the time is over: the handler is removed and what was
\* received, if anything, is returned.
Return(w) ==
  /\ pc[w] = "waiting" /\ MayRun
  /\ received[w] \/ TimesOut(w)
  /\ handlers' = IF Leaves(w) THEN [handlers EXCEPT ![ask[w].outer] = Without(@, w)]
                              ELSE handlers
  /\ pc' = [pc EXCEPT ![w] = "returned"]
  /\ UNCHANGED <<client, up, ask, received, listenVars, dispatchVars>>

WaiterStep(w) ==
  Wait(w) \/ Constructed(w) \/ Send(w) \/ SendRaises(w) \/ SendFake(w) \/ Return(w)

-----------------------------------------------------------------------------
Next ==
  \/ LinkDown \/ LinkUp
  \/ \E m \in Messages : Receive(m)
  \/ Dispatch
  \/ \E l \in Listeners : Listen(l) \/ Shutdown(l)
  \/ \E w \in Waiters : WaiterStep(w)

Spec == Init /\ [][Next]_vars

\* Callbacks come back, the receive thread and the waiting callers go on.
FairSpec ==
  /\ Spec /\ WF_vars(Dispatch)
  /\ \A w \in Waiters : SF_vars(WaiterStep(w))

-----------------------------------------------------------------------------
Handlers == [who: Waiters \cup Listeners, once: BOOLEAN]

\* Types; a handler is registered once, and only the threading client has
\* waiters that are half constructed.
TypeOK ==
  /\ up \in BOOLEAN /\ busy \in BOOLEAN
  /\ running \in Listeners \cup {NoOne}
  /\ by \in Waiters \cup {NoOne}
  /\ \A o \in Outer :
       /\ handlers[o] \in Seq(Handlers)
       /\ \A i, j \in DOMAIN handlers[o] : handlers[o][i].who = handlers[o][j].who => i = j
  /\ \A w \in Waiters : pc[w] = "constructing" => client = "threads"

\* The inductive invariant.  Every handler belongs to somebody who asked for that
\* type of message ...
BelongsTo(h, o) ==
  /\ h.who \in Waiters =>
       /\ o = ask[h.who].outer /\ pc[h.who] # "idle"
       /\ h.once = (client = "fake" /\ ask[h.who].want = AnyType)
  /\ h.who \in Listeners => o = listens[h.who].outer /\ state[h.who] # "off"

Entries(hs) == {hs[i] : i \in DOMAIN hs}
HandlersBelong == \A o \in Outer : \A h \in Entries(handlers[o]) : BelongsTo(h, o)

\* ... and so does every handler whose turn is to come in a dispatch, and the
\* listener that runs.
DispatchBelongs ==
  /\ \A h \in Entries(todo) : BelongsTo(h, msg.outer)
  /\ \A l \in Listeners : running = l => msg.outer = listens[l].outer /\ state[l] # "off"
  /\ busy => msg \in Messages
  /\ ~busy => todo = << >> /\ running = NoOne
  /\ by \in Waiters => pc[by] = "sending"

\* A waiter listens until it returns, but for the one-shot handler of the fake.
InWait == {"constructing", "ready", "sending", "waiting"}
OneShot(w) == client = "fake" /\ ask[w].want = AnyType
WaitersListen ==
  \A w \in Waiters :
    /\ pc[w] \in InWait => Registered(ask[w].outer, w) \/ (OneShot(w) /\ received[w])
    /\ pc[w] = "idle" => ~received[w]
    /\ OneShot(w) /\ received[w] => ~Registered(ask[w].outer, w)

\* Who is owed an answer has it or has his turn to come.
AnswersToCome ==
  \A w \in offered :
    /\ pc[w] \in {"waiting", "returned", "raised"}
    /\ pc[w] = "waiting" =>
         Awaits(w, msg) /\ (received[w] \/ \E h \in Entries(todo) : h.who = w)

\* A listener is taken out while its callbacks run, and for good by shutdown; a
\* plain handler never is.
ListenersArmed ==
  \A l \in Listeners :
    /\ ~listens[l].once /\ state[l] # "off" => Registered(listens[l].outer, l)
    /\ running = l /\ listens[l].once => ~Registered(listens[l].outer, l)
    /\ client # "fake" /\ state[l] = "stopped" =>
         running # l /\ ~Registered(listens[l].outer, l)

\* "Setup response handler", then send, then wait (client.py): nobody who
\* waited for a message through its whole dispatch comes back without it, in
\* whatever order handlers registered, ran, and left.
NoAnswerMissed == answered \subseteq {w \in Waiters : received[w]}

\* "Re-registers itself after each invocation so handlers fire on every
\* matching message" (decorators.py): a listener that was not shut down and
\* did not raise is armed, or its callbacks are running.
ListenerPersists ==
  \A l \in Listeners :
    state[l] = "on" /\ l \notin broken =>
      running = l \/ Registered(listens[l].outer, l)

\* "Stop listening and remove the internal callback" (decorators.py): when
\* shutdown returns, in the real clients, the callbacks are not started again,
\* not even by a dispatch that is already under way.
ShutdownFinal ==
  [][\A l \in Listeners :
       client # "fake" /\ state[l] = "stopped" => running' # l]_vars

\* A call that returns leaves no handler behind; a send that raises does, and
\* so does the fake when its one-shot handler was never called.
NothingLeftBehind ==
  \A w \in Waiters :
    pc[w] = "returned" /\ Registered(ask[w].outer, w) =>
      client = "fake" /\ ask[w].want = AnyType /\ ~received[w]

StateOK ==
  /\ client \in {"threads", "asyncio", "fake"}
  /\ ask \in [Waiters -> [outer: Outer, want: Wanted \cup {AnyType}, sends: BOOLEAN]]
  /\ listens \in [Listeners -> Decorated]
  /\ pc \in [Waiters -> {"idle", "returned", "raised"} \cup InWait]
  /\ received \in [Waiters -> BOOLEAN]
  /\ state \in [Listeners -> {"off", "on", "stopped"}]
  /\ handlers \in [Outer -> Seq(Handlers)] /\ todo \in Seq(Handlers)
  /\ offered \subseteq Waiters /\ answered \subseteq Waiters

ListenerInv ==
  /\ TypeOK /\ StateOK
  /\ HandlersBelong /\ DispatchBelongs /\ WaitersListen /\ AnswersToCome /\ ListenersArmed
  /\ NoAnswerMissed /\ ListenerPersists /\ NothingLeftBehind

\* Every wait ends, whatever arrives, raises or is lost.
WaitReturns ==
  \A w \in Waiters : pc[w] # "idle" ~> pc[w] \in {"returned", "raised"}
=============================================================================
