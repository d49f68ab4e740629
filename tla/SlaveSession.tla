---------------------------- MODULE SlaveSession ----------------------------
(***************************************************************************)
(* One satellite's session with its hub: the handshake state machine of    *)
(* HiveMindSlaveProtocol (protocol.py) run by HiveMessageBusClient         *)
(* (client.py) or AsyncHiveMessageBusClient (async_client.py).             *)
(*                                                                         *)
(* Two client threads meet on the protocol object: the receive thread,     *)
(* which runs on_message and the connection callbacks, and the thread in   *)
(* connect() -> wait_for_handshake(), which calls start_handshake() after  *)
(* every timeout.  On the asyncio client both are callbacks of one event   *)
(* loop and never interleave inside a handler (Threaded = FALSE).          *)
(*                                                                         *)
(* The hub, the network and the Noise and password primitives are          *)
(* external: a hub is what its profile says, frames are delivered in order *)
(* or lost with their connection, and a Noise message is readable exactly  *)
(* when both ends agree on handshake, password, prologue and static keys.  *)
(***************************************************************************)
EXTENDS Naturals, Sequences

CONSTANTS
  HubProfiles,  \* [hello, params, key, psk]: what may answer at the endpoint
  MyPassword,   \* identity.password; init_identity refuses to go without one
  MyVersion,    \* hm.max_protocol_version
  Threaded,     \* TRUE: threading client; FALSE: asyncio client
  Prompt,       \* TRUE: no timeout expires while an answer is on its way
  MaxConns,     \* bound: connections in a behaviour
  MaxRetries,   \* wait_for_handshake(max_retries=...)
  None

Handshakes == 1 .. (MaxConns + MaxRetries)  \* one per PARAMS frame or retry
Conns == 0 .. MaxConns
StaticKeys == {h.key : h \in HubProfiles} \cup {None}

\* Session keys, and what a NoiseTransport was made from.
Keys == [alg: {"noise", "legacy"}, id: Handshakes \cup Conns, conn: Conns]
Transports == [id: Handshakes, remote: StaticKeys, conn: Conns]

ASSUME SessionAssumption ==
  /\ MaxConns \in Nat
  /\ MaxRetries \in Nat
  /\ Threaded \in BOOLEAN /\ Prompt \in BOOLEAN
  /\ HubProfiles # {}
  /\ \A h \in HubProfiles : h.key # None /\ h.hello # None /\ h.params.version \in Nat
  /\ MyPassword # None
  /\ None \notin Keys \cup Transports

VARIABLES
  \* HiveMessageBusClient
  link,            \* "down", "open", "closing" (own close()), "closed"; "ended":
                   \* closed by the peer, unnoticed by the asyncio client
  handshakeEvent,  \* handshake_event.is_set()
  cryptoKey,       \* crypto_key
  noiseTransport,  \* noise_transport
  \* HiveMindSlaveProtocol
  serverHello,     \* _server_hello_payload; node_id is set with it
  serverParams,    \* _server_handshake_payload
  pswdHandshake,   \* the PasswordHandShake object in use; 0: bind()'s
  noiseHandshake,  \* the NoiseHandShake object in use; 0: None
  hs,              \* what each NoiseHandShake object was created with
  started,         \* NoiseHandShake objects created so far
  \* NodeIdentity
  pinned,          \* get_pinned_noise_key(host:port)
  \* threads
  rx,              \* the receive thread: "idle", or inside a handler
  app,             \* the thread in wait_for_handshake
  attempts,        \* its retries
  \* network and hub
  conn,            \* number of the current connection
  hub,             \* profile of the hub at its other end
  toClient, toHub, \* frames in flight
  hubKey,          \* key of the session the hub holds with us
  hubAnswered      \* Noise handshakes the hub answered on this connection

clientVars == <<link, handshakeEvent, cryptoKey, noiseTransport>>
noiseVars == <<noiseHandshake, hs, started>>
protoVars == <<serverHello, serverParams, pswdHandshake>>
hubVars == <<conn, hub, hubKey, hubAnswered>>
appVars == <<app, attempts>>
vars == <<clientVars, noiseVars, protoVars, pinned, rx, appVars, hubVars,
          toClient, toHub>>

NoiseKey(id) == [alg |-> "noise", id |-> id, conn |-> conn]
LegacyKey(id) == [alg |-> "legacy", id |-> id, conn |-> conn]

\* What start_handshake passes on when no parameters of a hub have arrived.
NoParams == [version |-> 1, patterns |-> {}, password |-> FALSE]
NoOffer == [pattern |-> None, hello |-> None, params |-> NoParams, remote |-> None]
AppIdle == [pc |-> "waiting", params |-> None, id |-> 0]

Init ==
  /\ link = "down" /\ handshakeEvent = FALSE
  /\ cryptoKey = None /\ noiseTransport = None
  /\ serverHello = None /\ serverParams = None /\ pswdHandshake = 0
  /\ noiseHandshake = 0 /\ hs = [i \in Handshakes |-> NoOffer] /\ started = 0
  /\ pinned \in StaticKeys  \* the identity file may hold a pin already
  /\ rx = "idle" /\ app = AppIdle /\ attempts = 0
  /\ conn = 0 /\ hub = CHOOSE h \in HubProfiles : TRUE
  /\ hubKey = None /\ hubAnswered = {}
  /\ toClient = << >> /\ toHub = << >>

-----------------------------------------------------------------------------
(* Connection callbacks and the transport below them *)

\* asyncio runs one callback at a time; threads interleave anywhere.
RxMayRun == Threaded \/ app.pc \in {"waiting", "done", "failed"}
AppMayRun == Threaded \/ rx = "idle"

\* Faulty variants: one part of the session outlives the connection.
ForgetAllButEvent == UNCHANGED handshakeEvent /\ cryptoKey' = None /\ noiseTransport' = None
ForgetAllButKey == UNCHANGED cryptoKey /\ handshakeEvent' = FALSE /\ noiseTransport' = None
ForgetAllButTransport == UNCHANGED noiseTransport /\ handshakeEvent' = FALSE /\ cryptoKey' = None

\* on_close and on_error forget the session, and nothing of the protocol object.
ForgetSession ==
  /\ handshakeEvent' = FALSE
  /\ cryptoKey' = None
  /\ noiseTransport' = None

\* The threading client's websocket library opens a connection, also after an
\* error or a close by the peer (external); the asyncio client opens just one.
\* The hub greets with HELLO and its handshake parameters.
Connect ==
  /\ link = "down" /\ conn < MaxConns /\ rx = "idle"
  /\ Threaded \/ conn = 0
  /\ link' = "open"
  /\ conn' = conn + 1
  /\ hub' \in HubProfiles
  /\ hubKey' = None /\ hubAnswered' = {}
  /\ toClient' = << [kind |-> "HELLO", id |-> 0], [kind |-> "PARAMS", id |-> 0] >>
  /\ toHub' = << >>
  /\ UNCHANGED <<handshakeEvent, cryptoKey, noiseTransport, noiseVars, protoVars,
                 pinned, rx, appVars>>

\* connected_event
Connected == link \in {"open", "ended"}

\* After a regular close (1000, 1001) the receive loop of the asyncio client ends
\* without an exception, and forgets nothing.
Disconnected ==
  /\ \/ link' = "down" /\ ForgetSession
     \/ ~Threaded /\ link' = "ended" /\ UNCHANGED <<handshakeEvent, cryptoKey, noiseTransport>>
  /\ toClient' = << >> /\ toHub' = << >>

\* The peer or the network ends a connection (bound: not the last one).
Drop ==
  /\ link = "open" /\ rx = "idle" /\ RxMayRun /\ conn < MaxConns
  /\ Disconnected
  /\ UNCHANGED <<noiseVars, protoVars, pinned, rx, appVars, hubVars>>

\* on_close after our own close(): nothing reconnects.
OnClose ==
  /\ link = "closing" /\ RxMayRun
  /\ link' = "closed"
  /\ ForgetSession
  /\ UNCHANGED <<noiseVars, protoVars, pinned, rx, appVars, hubVars, toClient, toHub>>

-----------------------------------------------------------------------------
(* Helpers of the protocol object *)

\* emit: the frame is sealed with whatever session the client has; only the
\* asyncio client exempts handshake frames from the Noise session.
Sealing(kind) ==
  IF noiseTransport # None /\ (Threaded \/ kind = "HELLO") THEN NoiseKey(noiseTransport.id)
                                                         ELSE cryptoKey
Emit(kind, id) ==
  toHub' = Append(toHub, [kind |-> kind, id |-> id, sealed |-> Sealing(kind)])

\* select_noise_options; a common cipher suite is assumed.
SelectPattern(p) ==
  CASE pinned # None /\ "KK" \in p.patterns -> "KK"
    [] "XX" \in p.patterns -> "XX"
    [] OTHER -> None

ShouldUseNoise(p) ==
  /\ MyVersion >= 3 /\ p.version >= 3
  /\ SelectPattern(p) # None

\* start_noise_handshake up to its _emit: a new handshake object replaces
\* whatever noise_handshake held.
CreateNoise(p) ==
  /\ started' = started + 1 /\ started' \in Handshakes
  /\ hs' = [hs EXCEPT ![started'] =
       [pattern |-> SelectPattern(p), hello |-> serverHello, params |-> p,
        remote |-> IF SelectPattern(p) = "KK" THEN pinned ELSE None]]
  /\ noiseHandshake' = started'

AbortNoise ==
  /\ noiseHandshake' = 0
  /\ noiseTransport' = None
  /\ link' = "closing"

-----------------------------------------------------------------------------
(* on_message on the receive thread *)

Frame(kind) ==
  /\ link = "open" /\ rx = "idle" /\ RxMayRun
  /\ toClient # << >>
  /\ Head(toClient).kind = kind
  /\ toClient' = Tail(toClient)

\* A v3 session accepts Noise transport messages only: anything else that is
\* still in flight from the handshake is dropped.
DropCleartext ==
  /\ noiseTransport # None
  /\ \E kind \in {"HELLO", "PARAMS", "MSG2", "ENVELOPE"} : Frame(kind)
  /\ UNCHANGED <<clientVars, noiseVars, protoVars, pinned, rx, appVars, hubVars, toHub>>

HandleHello ==
  /\ noiseTransport = None /\ Frame("HELLO")
  /\ serverHello' = IF serverHello = None THEN hub.hello ELSE serverHello
  /\ UNCHANGED <<clientVars, noiseVars, serverParams, pswdHandshake, pinned, rx,
                 appVars, hubVars, toHub>>

\* handle_handshake takes any payload with a "noise" entry for the answer to a
\* handshake in progress; parameters carry no Noise message: malformed.
HandleParamsMalformed ==
  /\ noiseTransport = None /\ Frame("PARAMS")
  /\ hub.params.version >= 3 /\ noiseHandshake # 0
  /\ AbortNoise
  /\ UNCHANGED <<handshakeEvent, cryptoKey, hs, started, protoVars, pinned, rx,
                 appVars, hubVars, toHub>>

\* handle_handshake on the hub's parameters stores them and decides: Noise, or a
\* password envelope from a new PasswordHandShake, or nothing (the retry loop
\* sends the envelope of bind()'s PasswordHandShake).
HandleParams ==
  /\ noiseTransport = None /\ Frame("PARAMS")
  /\ hub.params.version < 3 \/ noiseHandshake = 0
  /\ serverParams' = hub.params
  /\ \/ /\ ShouldUseNoise(hub.params)
        /\ rx' = "noise"
        /\ UNCHANGED pswdHandshake
     \/ /\ ~ShouldUseNoise(hub.params)
        /\ hub.params.password
        /\ pswdHandshake' = conn
        /\ rx' = "envelope"
     \/ /\ ~ShouldUseNoise(hub.params)
        /\ ~hub.params.password
        /\ UNCHANGED <<pswdHandshake, rx>>
  /\ UNCHANGED <<clientVars, noiseVars, serverHello, pinned, appVars, hubVars, toHub>>

\* start_noise_handshake and _legacy_start_handshake on the receive thread.
\* Deriving the Noise PSK takes long: the other thread runs in between.
RxStarts ==
  /\ rx \in {"noise", "envelope"} /\ RxMayRun
  /\ \/ rx = "noise" /\ CreateNoise(hub.params) /\ Emit("MSG1", started')
     \/ rx = "envelope" /\ Emit("ENVELOPE", pswdHandshake) /\ UNCHANGED noiseVars
  /\ rx' = "idle"
  /\ UNCHANGED <<clientVars, protoVars, pinned, appVars, hubVars, toClient>>

\* What both ends mixed into the handshake is the same (external primitive).
Readable(id) ==
  /\ id = noiseHandshake
  /\ hub.psk = MyPassword
  /\ hs[id].hello = hub.hello /\ hs[id].params = hub.params
  /\ hs[id].remote \in {None, hub.key}

\* TOFU: an unknown key is pinned, a known one must not change.
PinAllows == pinned = None \/ pinned = hub.key

\* Faulty variant: any key is accepted, and pinned.
AcceptAndPinAny == pinned' = hub.key

AcceptKey == PinAllows /\ pinned' = hub.key

\* Faulty variant: the third XX message is not sent.
FinishPatternSilently == UNCHANGED toHub

\* XX needs a third message.
FinishPattern ==
  IF hs[noiseHandshake].pattern = "XX" THEN Emit("MSG3", noiseHandshake)
                                       ELSE UNCHANGED toHub

\* receive_noise_handshake, success, up to noise_handshake = None.  A hub answers
\* first messages of its connection only, so there is a handshake in progress.
ReceiveNoise ==
  /\ noiseTransport = None /\ Frame("MSG2")
  /\ noiseHandshake # 0 /\ Readable(Head(toClient).id)
  /\ FinishPattern
  /\ AcceptKey
  /\ noiseTransport' = [id |-> noiseHandshake, remote |-> hub.key, conn |-> conn]
  /\ noiseHandshake' = 0
  /\ rx' = "finish"
  /\ UNCHANGED <<link, handshakeEvent, cryptoKey, hs, started, protoVars, appVars,
                 hubVars>>

\* receive_noise_handshake, unreadable message or contradicted pin.  XX message
\* 3 is sent before the pin is looked at.
ReceiveNoiseFails ==
  /\ noiseTransport = None /\ Frame("MSG2")
  /\ noiseHandshake # 0
  /\ \/ ~Readable(Head(toClient).id) /\ UNCHANGED toHub
     \/ Readable(Head(toClient).id) /\ ~PinAllows /\ FinishPattern
  /\ AbortNoise
  /\ UNCHANGED <<handshakeEvent, cryptoKey, hs, started, protoVars, pinned, rx,
                 appVars, hubVars>>

\* Faulty variant: the key is derived with the PasswordHandShake of bind().
ReceiveEnvelopeOldObject ==
  /\ noiseTransport = None /\ Frame("ENVELOPE")
  /\ hub.psk = MyPassword
  /\ cryptoKey' = LegacyKey(0)
  /\ rx' = "finish"
  /\ UNCHANGED <<link, handshakeEvent, noiseTransport, noiseVars, protoVars, pinned,
                 appVars, hubVars, toHub>>

\* receive_handshake verifies the password and derives the session key with the
\* PasswordHandShake now in use.
ReceiveEnvelope ==
  /\ noiseTransport = None /\ Frame("ENVELOPE")
  /\ hub.psk = MyPassword
  /\ cryptoKey' = LegacyKey(pswdHandshake)
  /\ rx' = "finish"
  /\ UNCHANGED <<link, handshakeEvent, noiseTransport, noiseVars, protoVars, pinned,
                 appVars, hubVars, toHub>>

\* The verification raises: the websocket library reports that to on_error
\* (external), the asyncio receive loop logs it and goes on.
ReceiveEnvelopeFails ==
  /\ noiseTransport = None /\ link = "open" /\ rx = "idle" /\ RxMayRun
  /\ toClient # << >> /\ Head(toClient).kind = "ENVELOPE"
  /\ hub.psk # MyPassword
  /\ IF Threaded THEN Disconnected
     ELSE toClient' = Tail(toClient) /\ UNCHANGED <<clientVars, toHub>>
  /\ UNCHANGED <<noiseVars, protoVars, pinned, rx, appVars, hubVars>>

\* Faulty variant: waiters are not told.
FinishHandshakeQuietly ==
  /\ rx = "finish" /\ RxMayRun
  /\ Emit("HELLO", 0)
  /\ rx' = "idle"
  /\ UNCHANGED <<clientVars, noiseVars, protoVars, pinned, appVars, hubVars, toClient>>

\* The tail both handshakes share: send HELLO, set handshake_event.
FinishHandshake ==
  /\ rx = "finish" /\ RxMayRun
  /\ Emit("HELLO", 0)
  /\ handshakeEvent' = TRUE
  /\ rx' = "idle"
  /\ UNCHANGED <<link, cryptoKey, noiseTransport, noiseVars, protoVars, pinned,
                 appVars, hubVars, toClient>>

-----------------------------------------------------------------------------
(* wait_for_handshake *)

TimedOut ==
  /\ app.pc = "waiting" /\ AppMayRun
  /\ ~handshakeEvent
  /\ Prompt => toClient = << >> /\ toHub = << >> /\ rx = "idle"

\* start_handshake: what it goes on to start, if anything.
StartsWhat ==
  IF noiseHandshake # 0 THEN AppIdle
  ELSE [AppIdle EXCEPT !.pc = "starting",
                       !.params = IF serverParams # None THEN serverParams ELSE NoParams]

MayRetry == attempts < MaxRetries

\* wait_for_handshake after a timeout calls start_handshake when it believes to be
\* connected, and otherwise waits for a connection ...
Retry ==
  /\ TimedOut /\ MayRetry
  /\ attempts' = attempts + 1
  /\ app' = IF Connected THEN StartsWhat ELSE app
  /\ UNCHANGED <<clientVars, noiseVars, protoVars, pinned, rx, hubVars, toClient, toHub>>

\* ... builds the first message ...
StartHandshake ==
  /\ app.pc = "starting" /\ AppMayRun
  /\ \/ /\ ShouldUseNoise(app.params)
        /\ CreateNoise(app.params)
        /\ app' = [app EXCEPT !.pc = "MSG1", !.id = started']
     \/ /\ ~ShouldUseNoise(app.params)
        /\ app' = [app EXCEPT !.pc = "ENVELOPE", !.id = pswdHandshake]
        /\ UNCHANGED noiseVars
  /\ UNCHANGED <<clientVars, protoVars, pinned, rx, attempts, hubVars, toClient, toHub>>

\* ... and emits it, waiting for a connection if there is none ...
AppEmit ==
  /\ app.pc \in {"MSG1", "ENVELOPE"} /\ AppMayRun
  /\ Connected
  /\ IF link = "open" THEN Emit(app.pc, app.id) ELSE UNCHANGED toHub
  /\ app' = AppIdle
  /\ UNCHANGED <<clientVars, noiseVars, protoVars, pinned, rx, attempts, hubVars, toClient>>

\* ... for ten seconds, after which emit raises and connect() with it.
AppEmitFails ==
  /\ app.pc \in {"MSG1", "ENVELOPE"} /\ AppMayRun
  /\ ~Connected
  /\ app' = [AppIdle EXCEPT !.pc = "failed"]
  /\ UNCHANGED <<clientVars, noiseVars, protoVars, pinned, rx, attempts, hubVars,
                 toClient, toHub>>

WaitReturns ==
  /\ app.pc = "waiting" /\ AppMayRun
  /\ handshakeEvent
  /\ app' = [AppIdle EXCEPT !.pc = "done"]
  /\ UNCHANGED <<clientVars, noiseVars, protoVars, pinned, rx, attempts, hubVars,
                 toClient, toHub>>

GiveUp ==
  /\ TimedOut /\ ~MayRetry
  /\ app' = [AppIdle EXCEPT !.pc = "failed"]
  /\ UNCHANGED <<clientVars, noiseVars, protoVars, pinned, rx, attempts, hubVars,
                 toClient, toHub>>

-----------------------------------------------------------------------------
(* The hub (external) *)

Answer(kind, id) == toClient' = Append(toClient, [kind |-> kind, id |-> id])

\* Whether the hub can use the frame at the head of its queue.
HubAccepts(f) ==
  /\ f.sealed \in {None, hubKey}
  /\ CASE f.kind = "MSG1" -> hs[f.id].pattern = "KK" =>
            /\ hub.psk = MyPassword
            /\ hs[f.id].hello = hub.hello /\ hs[f.id].params = hub.params
            /\ hs[f.id].remote = hub.key
       [] f.kind = "HELLO" -> f.sealed # None
       [] OTHER -> TRUE

HubReads ==
  /\ link = "open" /\ toHub # << >>
  /\ LET f == Head(toHub) IN
     /\ HubAccepts(f)
     /\ \/ /\ f.kind = "MSG1" /\ hub.params.version >= 3
           /\ Answer("MSG2", f.id)
           /\ hubAnswered' = hubAnswered \cup {f.id}
           /\ hubKey' = IF hs[f.id].pattern = "KK" THEN NoiseKey(f.id) ELSE hubKey
        \/ /\ f.kind = "MSG1" /\ hub.params.version < 3
           /\ UNCHANGED <<toClient, hubAnswered, hubKey>>
        \/ /\ f.kind = "MSG3"
           /\ hubKey' = NoiseKey(f.id)
           /\ UNCHANGED <<toClient, hubAnswered>>
        \/ /\ f.kind = "ENVELOPE"
           /\ Answer("ENVELOPE", f.id)
           /\ hubKey' = IF hub.psk = MyPassword THEN LegacyKey(f.id) ELSE hubKey
           /\ UNCHANGED hubAnswered
        \/ /\ f.kind = "HELLO"
           /\ UNCHANGED <<toClient, hubAnswered, hubKey>>
  /\ toHub' = Tail(toHub)
  /\ UNCHANGED <<clientVars, noiseVars, protoVars, pinned, rx, appVars, conn, hub>>

\* A frame it cannot use makes the hub end the connection; so does an envelope of
\* another password, if the hub looks at it.
HubRejects ==
  /\ link = "open" /\ rx = "idle" /\ RxMayRun
  /\ toHub # << >>
  /\ \/ ~HubAccepts(Head(toHub))
     \/ Head(toHub).kind = "ENVELOPE" /\ hub.psk # MyPassword
  /\ Disconnected
  /\ UNCHANGED <<noiseVars, protoVars, pinned, rx, appVars, hubVars>>

-----------------------------------------------------------------------------
RxStep ==
  \/ DropCleartext \/ HandleHello \/ HandleParamsMalformed \/ HandleParams
  \/ RxStarts
  \/ ReceiveNoise \/ ReceiveNoiseFails
  \/ ReceiveEnvelope \/ ReceiveEnvelopeFails \/ FinishHandshake \/ OnClose
AppStep ==
  \/ Retry \/ StartHandshake \/ AppEmit \/ AppEmitFails \/ WaitReturns \/ GiveUp
HubStep == HubReads \/ HubRejects

Next == Connect \/ Drop \/ RxStep \/ AppStep \/ HubStep

Spec == Init /\ [][Next]_vars

\* Threads that can run do; the library reconnects; the hub answers; timeouts
\* expire.  Connections need not fail.
FairSpec == Spec /\ WF_vars(Connect) /\ WF_vars(RxStep) /\ WF_vars(AppStep)
                 /\ WF_vars(HubStep)
-----------------------------------------------------------------------------
(* Properties *)

Params == {h.params : h \in HubProfiles} \cup {NoParams}
Hellos == {h.hello : h \in HubProfiles} \cup {None}
Offers == [pattern: {"XX", "KK", None}, hello: Hellos, params: Params,
           remote: StaticKeys]
HubFrames == [kind: {"HELLO", "PARAMS", "MSG2", "ENVELOPE"}, id: Handshakes \cup Conns]
ClientFrames == [kind: {"MSG1", "MSG3", "ENVELOPE", "HELLO"}, id: Handshakes \cup Conns,
                 sealed: Keys \cup {None}]

TypeOK ==
  /\ link \in {"down", "open", "closing", "closed", "ended"}
  /\ handshakeEvent \in BOOLEAN
  /\ cryptoKey \in Keys \cup {None}
  /\ noiseTransport \in Transports \cup {None}
  /\ serverHello \in Hellos
  /\ serverParams \in Params \cup {None}
  /\ pswdHandshake \in Conns
  /\ noiseHandshake \in Handshakes \cup {0}
  /\ hs \in [Handshakes -> Offers]
  /\ started \in Handshakes \cup {0}
  /\ pinned \in StaticKeys
  /\ rx \in {"idle", "noise", "envelope", "finish"}
  /\ app \in [pc: {"waiting", "starting", "MSG1", "ENVELOPE", "done", "failed"},
              params: Params \cup {None}, id: Handshakes \cup Conns]
  /\ app.pc = "starting" => app.params \in Params
  /\ attempts \in 0 .. MaxRetries
  /\ conn \in Conns
  /\ hub \in HubProfiles
  /\ toClient \in Seq(HubFrames)
  /\ toHub \in Seq(ClientFrames)
  /\ hubKey \in Keys \cup {None}
  /\ hubAnswered \subseteq Handshakes \cup Conns

\* A pinned server key is never replaced, whichever hubs answer at the endpoint
\* and however often the connection is re-made (receive_noise_handshake).
PinStable == [][pinned # None => pinned' = pinned]_vars

\* A Noise session in use belongs to the current connection, runs with the hub
\* whose key is pinned, and stems from a handshake that this hub answered.
TransportAuthenticated ==
  noiseTransport # None =>
    /\ noiseTransport.conn = conn
    /\ noiseTransport.remote = pinned /\ hub.key = pinned
    /\ hub.psk = MyPassword
    /\ noiseTransport.id \in hubAnswered

\* connect() returns, and stays returned, only with an encrypted session:
\* whenever handshake_event is set on an open connection there is a key.
EventMeansSecure ==
  handshakeEvent /\ link = "open" => noiseTransport # None \/ cryptoKey # None

\* The inductive invariant behind the last two: a session exists on an open
\* connection only, a handler about to finish has one, and every Noise answer on
\* its way stems from the hub of this connection.
SessionNeedsLink ==
  /\ noiseTransport # None => Connected
  /\ link = "down" => ~handshakeEvent
  /\ rx = "finish" => link = "open" /\ (noiseTransport # None \/ cryptoKey # None)

AnswersOnWay ==
  \A i \in DOMAIN toClient : toClient[i].kind = "MSG2" => toClient[i].id \in hubAnswered

SessionInv == /\ TypeOK /\ TransportAuthenticated /\ EventMeansSecure
              /\ SessionNeedsLink /\ AnswersOnWay

\* A HELLO that reaches the hub can be read there: the session the client
\* announced itself in is the session the hub holds.
HelloReadable ==
  toHub # << >> /\ Head(toHub).kind = "HELLO" =>
    /\ Head(toHub).sealed # None
    /\ Head(toHub).sealed = hubKey

\* The invariant behind it, when the client does not hurry: without retries, or
\* with an asyncio client whose answers come before its timeouts.  One thing at
\* a time is under way between the ends, and each stage of a handshake says who
\* has which key.
Unhurried == MaxRetries = 0 \/ (~Threaded /\ Prompt)

PatternsChosen == \A i \in 1 .. started : hs[i].pattern \in {"XX", "KK"}

Fresh == noiseTransport = None /\ cryptoKey = None /\ ~handshakeEvent
AtRest == app.pc \in {"waiting", "done", "failed"}
Idle == link = "open" /\ rx = "idle" /\ AtRest
SessionKey == IF noiseTransport # None THEN NoiseKey(noiseTransport.id) ELSE cryptoKey

Offline ==
  /\ link # "open" /\ rx = "idle"
  /\ AtRest \/ (~Threaded /\ link = "ended")
  /\ link = "down" => Fresh
  /\ toHub # << >> => Head(toHub).kind # "HELLO"

Greeted ==
  /\ Idle /\ Fresh /\ toHub = << >>
  /\ \/ toClient = << [kind |-> "HELLO", id |-> 0], [kind |-> "PARAMS", id |-> 0] >>
     \/ toClient = << [kind |-> "PARAMS", id |-> 0] >>

Deciding ==
  /\ link = "open" /\ AtRest /\ Fresh /\ toHub = << >> /\ toClient = << >>
  /\ rx = "envelope" \/ (rx = "noise" /\ ShouldUseNoise(hub.params))

Retrying ==
  /\ ~Threaded /\ link = "open" /\ rx = "idle" /\ Fresh /\ toHub = << >> /\ toClient = << >>
  /\ \/ app.pc = "starting"
     \/ app.pc = "MSG1" /\ app.id \in 1 .. started
     \/ app.pc = "ENVELOPE" /\ app.id = pswdHandshake

Silent == Idle /\ Fresh /\ toHub = << >> /\ toClient = << >>

Asked ==
  /\ Idle /\ Fresh /\ toClient = << >>
  /\ Len(toHub) = 1 /\ Head(toHub).sealed = None
  /\ \/ Head(toHub).kind = "MSG1" /\ Head(toHub).id \in 1 .. started
     \/ Head(toHub).kind = "ENVELOPE" /\ Head(toHub).id = pswdHandshake

Answered ==
  /\ Idle /\ Fresh /\ toHub = << >> /\ Len(toClient) = 1
  /\ LET a == Head(toClient)
     IN \/ /\ a.kind = "MSG2" /\ a.id \in 1 .. started
           /\ hs[a.id].pattern = "KK" => hubKey = NoiseKey(a.id)
        \/ /\ a.kind = "ENVELOPE" /\ a.id = pswdHandshake
           /\ hub.psk = MyPassword => hubKey = LegacyKey(a.id)

ThirdMessage(f) == f.kind = "MSG3" /\ f.sealed = None /\ SessionKey = NoiseKey(f.id)
FirstHello(f) == f.kind = "HELLO" /\ f.sealed = SessionKey

Finishing ==
  /\ link = "open" /\ rx = "finish" /\ AtRest /\ toClient = << >> /\ SessionKey # None
  /\ \/ toHub = << >> /\ hubKey = SessionKey
     \/ Len(toHub) = 1 /\ ThirdMessage(toHub[1])

Established ==
  /\ Idle /\ handshakeEvent /\ toClient = << >> /\ SessionKey # None
  /\ \/ toHub = << >>
     \/ Len(toHub) = 1 /\ FirstHello(toHub[1]) /\ hubKey = SessionKey
     \/ Len(toHub) = 2 /\ ThirdMessage(toHub[1]) /\ FirstHello(toHub[2])

HandshakeInv ==
  /\ PatternsChosen
  /\ Offline \/ Greeted \/ Deciding \/ Retrying \/ Silent \/ Asked \/ Answered
     \/ Finishing \/ Established

\* A Noise handshake in flight is not replaced by another one ("already in
\* flight, keep waiting", start_handshake).  With the threading client it may be.
NoSecondHandshake ==
  [][noiseHandshake # 0 /\ noiseHandshake' # 0 => noiseHandshake' = noiseHandshake]_vars

\* The session comes up, again after every reconnect ("By default it waits
\* through reconnects forever", docs/api.md).
SessionUp == <>[]handshakeEvent
=============================================================================
