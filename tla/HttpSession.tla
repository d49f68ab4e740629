---------------------------- MODULE HttpSession ----------------------------
(***************************************************************************)
(* HiveMindHTTPClient (http_client.py): the thread that polls the hub, and *)
(* the application that connects, waits for the handshake, disconnects and *)
(* shuts down.                                                             *)
(*                                                                         *)
(* A polled message goes to the protocol object of the last connect()      *)
(* first, then to every handler registered with on(); each connect()       *)
(* registers those of its protocol object, so handshakes are handled at    *)
(* least twice.  What the first handling raises ends the polling thread:   *)
(* no try surrounds it.  What a handler raises is logged.  The client has  *)
(* no max_protocol_version: its handshake is always the password one.      *)
(*                                                                         *)
(* The hub is external: a request is answered at once or fails, a fetch    *)
(* empties its queue, an unregistered client gets an error.  It may refuse *)
(* a client, which connect() does not look at.  A session key is the       *)
(* client's PasswordHandShake object and the hub's answer to it.           *)
(* Handlers of the application and their removal are left out.             *)
(***************************************************************************)
EXTENDS Naturals, Sequences

CONSTANTS
  None,
  MaxConnects,  \* bound: calls of connect()
  MaxRetries,   \* bound: calls of start_handshake by wait_for_handshake
  MaxData       \* bound: messages of the hub after the handshake

ASSUME HttpAssumption ==
  /\ None \notin Nat \X Nat
  /\ MaxConnects \in Nat \ {0} /\ MaxRetries \in Nat /\ MaxData \in Nat

VARIABLES
  worker,          \* where the polling thread is
  batch,           \* messages it fetched and has yet to handle
  turn,            \* 0: first handling; i: handler of the i-th connect()
  step,            \* progress inside a handler of the protocol
  app,             \* where the application is
  envelope,        \* PasswordHandShake a retry took its envelope from
  stopped, connected, handshakeEvent,
  cryptoKey,
  pswd,            \* PasswordHandShake of each protocol object
  made,            \* PasswordHandShake objects made so far
  reliable,        \* no request fails
  admits,          \* the hub accepts this client's access key
  samePassword,
  registered,      \* the hub knows this client
  hubKey, hubReady,  \* its key, and whether it got a HELLO it could read
  text, binary,    \* its queues
  answers, sent,   \* its answers to envelopes, its messages
  attempts,        \* history: retries
  left             \* history: disconnect() or shutdown() was called

workerVars == <<worker, batch, turn, step>>
flags == <<stopped, connected, handshakeEvent>>
hubVars == <<registered, hubKey, hubReady, text, binary, answers, sent>>
setting == <<reliable, admits, samePassword>>
vars == <<workerVars, app, envelope, flags, cryptoKey, pswd, made, setting, hubVars,
          attempts, left>>

Hello == [kind |-> "HELLO", id |-> 0, key |-> None]
Params == [kind |-> "PARAMS", id |-> 0, key |-> None]

Init ==
  /\ worker = "new" /\ batch = << >> /\ turn = 0 /\ step = "begin"
  /\ app = "idle" /\ envelope = None
  /\ stopped = FALSE /\ connected = FALSE /\ handshakeEvent = FALSE
  /\ cryptoKey = None /\ pswd = << >> /\ made = 0
  /\ reliable \in BOOLEAN /\ admits \in BOOLEAN /\ samePassword \in BOOLEAN
  /\ registered = FALSE /\ hubKey = None /\ hubReady = FALSE
  /\ text = << >> /\ binary = << >> /\ answers = 0 /\ sent = 0
  /\ attempts = 0 /\ left = FALSE

-----------------------------------------------------------------------------
(* The hub (external) *)

\* What it does with a frame it cannot read is not visible in the response.
CanRead == registered /\ cryptoKey \in {None, hubKey}

\* An envelope makes a new key, and an answer.
TakesEnvelope(p) ==
  IF CanRead
  THEN /\ answers' = answers + 1
       /\ hubKey' = <<p, answers + 1>>
       /\ text' = Append(text, [kind |-> "ENVELOPE", id |-> answers + 1, key |-> None])
       /\ UNCHANGED <<registered, hubReady, binary, sent>>
  ELSE UNCHANGED hubVars

TakesHello ==
  /\ hubReady' = (hubReady \/ (CanRead /\ cryptoKey # None))
  /\ UNCHANGED <<registered, hubKey, text, binary, answers, sent>>

\* What _handle_hive_protocol hands to the protocol object after the handshake.
Dispatched == {"BUS", "BROADCAST", "PROPAGATE", "INTERCOM"}

HubSends ==
  /\ hubReady /\ sent < MaxData
  /\ sent' = sent + 1
  /\ \/ /\ \E kind \in Dispatched :
             text' = Append(text, [kind |-> kind, id |-> sent', key |-> hubKey])
        /\ UNCHANGED binary
     \/ /\ binary' = Append(binary, [kind |-> "BINARY", id |-> sent', key |-> hubKey])
        /\ UNCHANGED text
  /\ UNCHANGED <<workerVars, app, envelope, flags, cryptoKey, pswd, made, setting,
                 registered, hubKey, hubReady, answers, attempts, left>>

Forgotten ==
  /\ registered' = FALSE /\ hubKey' = None /\ hubReady' = FALSE
  /\ text' = << >> /\ binary' = << >>
  /\ UNCHANGED <<answers, sent>>

-----------------------------------------------------------------------------
(* The polling thread *)

Polling == <<app, envelope, cryptoKey, pswd, made, setting, attempts, left>>

\* A thread that starts late erases a shutdown() that came before.
Start ==
  /\ worker = "new"
  /\ worker' = "waiting" /\ stopped' = FALSE
  /\ UNCHANGED <<batch, turn, step, connected, handshakeEvent, hubVars, Polling>>

\* connected.wait() does not look at stopped.
Wake ==
  /\ worker = "waiting" /\ connected
  /\ worker' = "loop"
  /\ UNCHANGED <<batch, turn, step, flags, hubVars, Polling>>

\* Faulty variant: the loop runs as long as there is a connection.
StopsWhenDisconnected == stopped /\ ~connected

Stops == stopped

Loop ==
  /\ worker = "loop"
  /\ worker' = IF Stops THEN "leaving" ELSE "text"
  /\ UNCHANGED <<batch, turn, step, flags, hubVars, Polling>>

Dies ==
  /\ worker' = "dead" /\ batch' = << >> /\ turn' = 0 /\ step' = "begin"

\* get_messages and get_binary_messages raise without connection, on an error of
\* the hub, and when the request fails.
FetchFails ==
  /\ worker \in {"text", "binary"}
  /\ ~connected \/ ~registered \/ ~reliable
  /\ Dies
  /\ UNCHANGED <<flags, hubVars, Polling>>

FetchText ==
  /\ worker = "text" /\ connected /\ registered
  /\ batch' = text /\ text' = << >>
  /\ worker' = "binary"
  /\ UNCHANGED <<turn, step, flags, registered, hubKey, hubReady, binary, answers, sent, Polling>>

FetchBinary ==
  /\ worker = "binary" /\ connected /\ registered
  /\ batch' = batch \o binary /\ binary' = << >>
  /\ worker' = IF batch' = << >> THEN "loop" ELSE "handling"
  /\ UNCHANGED <<turn, step, flags, registered, hubKey, hubReady, text, answers, sent, Polling>>

Leave ==
  /\ worker = "leaving"
  /\ \/ /\ Forgotten
        /\ worker' = "ended"
        /\ connected' = FALSE /\ handshakeEvent' = FALSE
        /\ UNCHANGED stopped
     \/ /\ ~reliable
        /\ worker' = "dead"
        /\ UNCHANGED <<flags, hubVars>>
  /\ UNCHANGED <<batch, turn, step, Polling>>

-----------------------------------------------------------------------------
(* on_message and _handle_hive_protocol *)

Handling(kind) == worker = "handling" /\ Head(batch).kind = kind

\* The protocol object whose handler runs.
Protocol == IF turn = 0 THEN Len(pswd) ELSE turn

\* Next handler, next message, or back to the loop.
Handled ==
  /\ step' = "begin"
  /\ IF turn < Len(pswd)
     THEN turn' = turn + 1 /\ UNCHANGED <<worker, batch>>
     ELSE /\ turn' = 0 /\ batch' = Tail(batch)
          /\ worker' = IF batch' = << >> THEN "loop" ELSE "handling"

\* A message that goes to no handler.
Passed ==
  /\ step' = "begin" /\ turn' = 0 /\ batch' = Tail(batch)
  /\ worker' = IF batch' = << >> THEN "loop" ELSE "handling"

\* An exception ends the thread, unless a registered handler raised it.
Raised == IF turn = 0 THEN Dies ELSE Handled

HandleHello ==
  /\ Handling("HELLO")
  /\ Handled
  /\ UNCHANGED <<flags, hubVars, Polling>>

\* handle_handshake on parameters: a new PasswordHandShake ...
HandleParams ==
  /\ Handling("PARAMS") /\ step = "begin"
  /\ made' = made + 1
  /\ pswd' = [pswd EXCEPT ![Protocol] = made']
  /\ step' = "emit"
  /\ UNCHANGED <<worker, batch, turn, app, envelope, flags, cryptoKey, setting, hubVars,
                 attempts, left>>

\* ... and its envelope, in emit, which wants a connection.
SendEnvelope ==
  /\ Handling("PARAMS") /\ step = "emit"
  /\ \/ connected /\ TakesEnvelope(pswd[Protocol]) /\ Handled
     \/ /\ ~connected \/ ~reliable
        /\ Raised /\ UNCHANGED hubVars
  /\ UNCHANGED <<flags, Polling>>

\* Faulty variant: the key is derived with the PasswordHandShake of bind().
KeyOfBind(m) == <<1, m.id>>

KeyOf(m) == <<pswd[Protocol], m.id>>

\* receive_handshake: verify, derive the key ...
ReceiveEnvelope ==
  /\ Handling("ENVELOPE") /\ step = "begin"
  /\ samePassword
  /\ cryptoKey' = KeyOf(Head(batch))
  /\ step' = "emit"
  /\ UNCHANGED <<worker, batch, turn, app, envelope, flags, pswd, made, setting, hubVars,
                 attempts, left>>

ReceiveEnvelopeFails ==
  /\ Handling("ENVELOPE") /\ step = "begin"
  /\ ~samePassword
  /\ Raised
  /\ UNCHANGED <<flags, hubVars, Polling>>

\* ... send HELLO ...
SendHello ==
  /\ Handling("ENVELOPE") /\ step = "emit"
  /\ \/ /\ connected /\ TakesHello
        /\ step' = "finish" /\ UNCHANGED <<worker, batch, turn>>
     \/ /\ ~connected \/ ~reliable
        /\ Raised /\ UNCHANGED hubVars
  /\ UNCHANGED <<flags, Polling>>

\* Faulty variant: waiters are not told.
FinishQuietly ==
  /\ Handling("ENVELOPE") /\ step = "finish"
  /\ Handled
  /\ UNCHANGED <<flags, hubVars, Polling>>

\* ... and set handshake_event.
Finish ==
  /\ Handling("ENVELOPE") /\ step = "finish"
  /\ handshakeEvent' = TRUE
  /\ Handled
  /\ UNCHANGED <<stopped, connected, hubVars, Polling>>

\* Messages of the hub, decrypted once.  Text that comes when there is no key is
\* dropped, bytes are not.
CannotOpen ==
  /\ turn = 0 /\ cryptoKey # Head(batch).key
  /\ IF cryptoKey = None /\ Head(batch).kind # "BINARY" THEN Passed ELSE Dies

\* _handle_binary catches what its callbacks raise; nothing catches what the first
\* handle_bus, handle_broadcast, handle_propagate or handle_intercom does: a
\* listener of the agent bus may raise, a wrapped message of another type always
\* does, and so does every INTERCOM.
Dispatch ==
  /\ turn = 0 /\ cryptoKey = Head(batch).key
  /\ \/ Head(batch).kind = "BINARY" /\ Passed
     \/ Head(batch).kind \in Dispatched \ {"INTERCOM"} /\ Handled
     \/ Head(batch).kind \in Dispatched /\ Dies

HandleData ==
  /\ worker = "handling" /\ Head(batch).kind \in Dispatched \cup {"BINARY"}
  /\ (turn > 0 /\ Handled) \/ CannotOpen \/ Dispatch
  /\ UNCHANGED <<flags, hubVars, Polling>>

Poll ==
  \/ Start \/ Wake \/ Loop \/ FetchFails \/ FetchText \/ FetchBinary \/ Leave
  \/ HandleHello \/ HandleParams \/ SendEnvelope
  \/ ReceiveEnvelope \/ ReceiveEnvelopeFails \/ SendHello \/ Finish \/ HandleData

-----------------------------------------------------------------------------
(* The application *)

MayConnect == app \in {"idle", "up"} /\ ~connected /\ Len(pswd) < MaxConnects

\* Faulty variant: the polling thread is told before the hub.
ConnectEagerly ==
  /\ MayConnect
  /\ made' = made + 1
  /\ pswd' = Append(pswd, made')
  /\ connected' = TRUE
  /\ app' = "posting"
  /\ UNCHANGED <<workerVars, envelope, stopped, handshakeEvent, cryptoKey, setting, hubVars,
                 attempts, left>>

\* connect() binds a protocol object ...
Connect ==
  /\ MayConnect
  /\ made' = made + 1
  /\ pswd' = Append(pswd, made')
  /\ app' = "posting"
  /\ UNCHANGED <<workerVars, envelope, flags, cryptoKey, setting, hubVars, attempts, left>>

\* ... registers with the hub, which greets; a refusal goes unnoticed ...
Register ==
  /\ app = "posting"
  /\ \/ /\ admits
        /\ app' = "connecting"
        /\ registered' = TRUE /\ hubKey' = None /\ hubReady' = FALSE
        /\ text' = <<Hello, Params>> /\ binary' = << >>
     \/ /\ \/ ~admits /\ app' = "connecting"
           \/ ~reliable /\ app' = "idle"
        /\ UNCHANGED <<registered, hubKey, hubReady, text, binary>>
  /\ UNCHANGED <<workerVars, envelope, flags, cryptoKey, pswd, made, setting, answers, sent,
                 attempts, left>>

\* ... tells the polling thread ...
Connected ==
  /\ app = "connecting"
  /\ connected' = TRUE
  /\ app' = "waiting"
  /\ UNCHANGED <<workerVars, envelope, stopped, handshakeEvent, cryptoKey, pswd, made, setting,
                 hubVars, attempts, left>>

\* ... and waits, starting over after every timeout, without end.
Retry ==
  /\ app = "waiting" /\ ~handshakeEvent /\ attempts < MaxRetries
  /\ app' = "retrying"
  /\ envelope' = pswd[Len(pswd)]
  /\ attempts' = attempts + 1
  /\ UNCHANGED <<workerVars, flags, cryptoKey, pswd, made, setting, hubVars, left>>

RetrySends ==
  /\ app = "retrying"
  /\ \/ connected /\ TakesEnvelope(envelope) /\ app' = "waiting"
     \/ /\ ~connected \/ ~reliable
        /\ app' = "idle" /\ UNCHANGED hubVars
  /\ envelope' = None
  /\ UNCHANGED <<workerVars, flags, cryptoKey, pswd, made, setting, attempts, left>>

WaitReturns ==
  /\ app = "waiting" /\ handshakeEvent
  /\ app' = "up"
  /\ UNCHANGED <<workerVars, envelope, flags, cryptoKey, pswd, made, setting, hubVars, attempts, left>>

\* disconnect() forgets the connection, not the key.
Disconnect ==
  /\ app = "up" /\ connected
  /\ \/ Forgotten /\ app' = "leaving"
     \/ ~reliable /\ UNCHANGED <<hubVars, app>>
  /\ left' = TRUE
  /\ UNCHANGED <<workerVars, envelope, flags, cryptoKey, pswd, made, setting, attempts>>

Disconnected ==
  /\ app = "leaving"
  /\ connected' = FALSE /\ handshakeEvent' = FALSE
  /\ app' = "idle"
  /\ UNCHANGED <<workerVars, envelope, stopped, cryptoKey, pswd, made, setting, hubVars, attempts, left>>

Shutdown ==
  /\ ~stopped
  /\ stopped' = TRUE /\ left' = TRUE
  /\ UNCHANGED <<workerVars, app, envelope, connected, handshakeEvent, cryptoKey, pswd, made, setting,
                 hubVars, attempts>>

App == Register \/ Connected \/ Retry \/ RetrySends \/ WaitReturns \/ Disconnected

-----------------------------------------------------------------------------
Next == HubSends \/ Poll \/ Connect \/ App \/ Disconnect \/ Shutdown

Spec == Init /\ [][Next]_vars

\* Both threads run; nobody has to connect, disconnect, or shut down.
FairSpec == Spec /\ WF_vars(Poll) /\ WF_vars(App)

-----------------------------------------------------------------------------
(* Properties *)

\* One connect() that the hub accepted, before its first timeout, on a working
\* network.
Undisturbed ==
  reliable /\ admits /\ samePassword /\ Len(pswd) = 1 /\ attempts = 0 /\ ~left

\* Parameters and answers are handled twice, and two PasswordHandShake objects
\* take part; once everything is handled the ends have the same key, and the hub
\* has read a HELLO.
KeysAgree ==
  Undisturbed /\ handshakeEvent /\ worker = "loop" /\ text = << >> =>
    cryptoKey = hubKey /\ hubReady

\* Neither the handshake nor a fetch ends the polling thread of such a client, nor
\* do bytes, nor a message sealed with a key that it does not have: only what the
\* first handling of a message raises does, which it has opened and dispatches
\* outside any try (_handle_hive_protocol).
EndsInDispatchOnly ==
  [][Undisturbed /\ worker # "dead" /\ worker' = "dead" =>
       /\ worker = "handling" /\ turn = 0
       /\ Head(batch).kind \in Dispatched /\ Head(batch).key = cryptoKey]_vars

\* The invariant behind both: how the first handshake of an undisturbed client
\* proceeds, from connect() to the traffic that follows it.
Types == pswd \in Seq(Nat) /\ made \in Nat /\ attempts \in Nat /\ sent \in Nat

Calm == reliable /\ admits /\ samePassword /\ Len(pswd) <= 1 /\ attempts = 0 /\ ~left

Answer(i) == [kind |-> "ENVELOPE", id |-> i, key |-> None]
Sealed == [kind: Dispatched \cup {"BINARY"}, id: Nat, key: {hubKey}]

Up == Len(pswd) = 1 /\ registered /\ connected /\ app \in {"waiting", "up"}
NoKeyYet == cryptoKey = None /\ ~hubReady /\ binary = << >>
Between == turn = 0 /\ step = "begin"
Resting == batch = << >> /\ Between
Within(b) == worker = "handling" /\ batch = b /\ turn \in {0, 1}

BeforeHub ==
  /\ NoKeyYet /\ answers = 0 /\ ~connected
  /\ worker \in {"new", "waiting"} /\ Resting
  /\ \/ app = "idle" /\ Len(pswd) = 0
     \/ app = "posting" /\ Len(pswd) = 1
     \/ app = "connecting" /\ Len(pswd) = 1 /\ registered /\ text = <<Hello, Params>>

Greeted ==
  /\ Up /\ NoKeyYet /\ answers = 0
  /\ \/ worker \in {"new", "waiting", "loop", "text"} /\ Resting /\ text = <<Hello, Params>>
     \/ /\ text = << >>
        /\ \/ worker = "binary" /\ batch = <<Hello, Params>> /\ Between
           \/ Within(<<Hello, Params>>) /\ step = "begin"
           \/ Within(<<Params>>) /\ turn = 0 /\ step \in {"begin", "emit"}

AnsweredOnce ==
  /\ Up /\ NoKeyYet /\ answers = 1 /\ text = <<Answer(1)>>
  /\ Within(<<Params>>) /\ turn = 1 /\ step \in {"begin", "emit"}

\* The hub has the key of its second answer; the first one is handled in vain.
AnsweredTwice ==
  /\ Up /\ answers = 2 /\ hubKey = <<pswd[1], 2>>
  /\ cryptoKey \in {None, <<pswd[1], 1>>} /\ ~hubReady /\ binary = << >>
  /\ \/ worker \in {"loop", "text"} /\ Resting /\ text = <<Answer(1), Answer(2)>>
     \/ /\ text = << >>
        /\ \/ worker = "binary" /\ batch = <<Answer(1), Answer(2)>> /\ Between
           \/ Within(<<Answer(1), Answer(2)>>) /\ step \in {"begin", "emit", "finish"}
           \/ Within(<<Answer(2)>>) /\ Between

Agreed ==
  /\ Up /\ answers = 2 /\ hubKey = <<pswd[1], 2>> /\ cryptoKey = hubKey
  /\ text \in Seq(Sealed) /\ binary \in Seq(Sealed)
  /\ \/ /\ Within(<<Answer(2)>>) /\ step \in {"begin", "emit", "finish"}
        /\ step = "finish" => hubReady
     \/ /\ hubReady /\ batch \in Seq(Sealed) /\ step = "begin"
        /\ \/ worker \in {"loop", "text"} /\ Resting
           \/ worker = "binary" /\ turn = 0
           \/ worker = "handling" /\ turn \in {0, 1} /\ batch # << >>

\* Some message raised.
Over == worker = "dead"

HttpInv ==
  /\ Types
  /\ Calm => /\ ~stopped
             /\ BeforeHub \/ Greeted \/ AnsweredOnce \/ AnsweredTwice \/ Agreed \/ Over

\* connect() returns, as long as the polling thread lives: no retry, whenever it
\* comes, keeps the handshake from ending.
ConnectReturns ==
  (app = "waiting" /\ Len(pswd) = 1) ~> (app # "waiting" \/ worker \in {"ended", "dead"})

\* Once the thread polls, shutdown() ends it, whatever arrives meanwhile.
ShutdownHeeded ==
  (stopped /\ worker \notin {"new", "waiting"}) ~> worker \in {"ended", "dead"}
=============================================================================
