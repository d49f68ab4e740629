# Verification of hivemind_bus_client

TLA+ models of the HiveMind clients: what a satellite does on its connection to
a hub, from the handshake to the messages it hands to its agent, checked with
TLC on small instances and, where stated, proved with TLAPS for every value of
the constants. Paths are relative to the repository; Python files without a
directory are in `hivemind_bus_client/`.

## 1. The system

A satellite connects to a hub over one websocket (or polls it over HTTP),
negotiates a session key (Noise for protocol v3, a password handshake before
that), and then exchanges HiveMind messages. The parts, their state, and how they
meet:

| part | code | state | operations | meets |
|---|---|---|---|---|
| Threading client | `client.py` | `connected_event`, `handshake_event`, `crypto_key`, `noise_transport` | `connect`, `wait_for_handshake`, `on_open/on_close/on_error/on_message`, `emit`, `wait_for_*` | receive thread (websocket library) and any number of application threads share the fields without a lock |
| Asyncio client | `async_client.py` | the same | the same, as coroutines | one event loop: a handler runs to its next `await` |
| Slave protocol | `protocol.py` `HiveMindSlaveProtocol` | `_server_hello_payload`, `_server_handshake_payload`, `pswd_handshake`, `noise_handshake`, `hive_mapper`, `cascade_aggregator` | `handle_*`, `start_handshake`, `start_noise_handshake`, `receive_*_handshake` | called by the receive thread *and* by the thread in `wait_for_handshake` |
| Noise transport | `noise.py` | a send and a receive counter, each with a lock | `encrypt_frame`, `decrypt_frame` | `emit` encrypts under the lock and sends outside it |
| CASCADE aggregation | `protocol.py` `CascadeAggregator` | `responses`, `_timer`, `_resolved`, `_lock` | `add_response`, `_resolve`, `cancel` | receive thread, timer thread, application |
| Hive map | `hive_map.py` | nodes, edges, trust marks, `_seen_flood_ids` | `check_flood_id`, `on_ping`, `mark_trusted_nodes`, `is_peer_trusted`, `clear` | `handle_ping`, the `ping` command, `handle_cascade` (number of nodes), `_is_source_trusted` |
| Message routing | `protocol.py` | none of its own | `handle_bus`, `handle_propagate`, `handle_broadcast`, `handle_query`, `handle_intercom` | the agent's bus, hive map, identity; an exception goes to `on_error` |
| Internal bus bridge | `protocol.py` `HiveMindSlaveInternalProtocol` | `node_id` | the catch-all of the agent's bus, `hive.send.upstream` | `emit`; sees what `handle_bus` injects |
| Waiters, decorators | `client.py`, `async_client.py`, `decorators.py` | event, received message, handler lists | `wait_for_*`, `on_*`, `shutdown` | the event emitter of the client, dispatched by the receive thread |
| HTTP client | `http_client.py` | `connected`, `handshake_event`, `stopped`, `crypto_key`, handlers | `connect`, `wait_for_handshake`, `run`, `disconnect`, `shutdown` | polling thread and application |
| Node identity | `identity.py` | a dict and its file: keys, password, pinned server keys, trusted keys | getters, setters, `pin_noise_key`, `save`, `reload` | slave protocol, commands that write the same file |
| Serialization, encryption, keepalive | `serialization.py`, `encryption.py`, `keepalive.py`, `message.py` | none | pure functions | all of the above |
| FakeBus | `fakebus.py` | an emitter | `emit`, `wait_for_*` | its own caller, synchronously |

### Hard behaviours and the properties that answer them

* **Two threads in one handshake.** `wait_for_handshake` calls
  `start_handshake` after every timeout while the receive thread runs the same
  state machine; deriving the Noise PSK (scrypt) keeps the window between check
  and use open. `TransportAuthenticated`, `EventMeansSecure`; for the asyncio
  client `NoSecondHandshake`, which is proved.
* **A session across reconnects.** The websocket library reconnects; `on_close`
  resets four fields of the client and none of the protocol object, and the asyncio
  receive loop resets nothing after a regular close.
  `TransportAuthenticated`, `EventMeansSecure`, `PinStable`, `SessionUp`,
  `HelloReadable`.
* **Check, encrypt and send are three steps.** `NonceUnique`, `WireReadable`,
  `InSendOrder`, `EmitNeverCrashes`, `EmitReturns`.
* **Timer against receive thread against `cancel()`.** `OneDeliveryPerRound`,
  `NothingLost`, `CancelIsSilent`, `BufferedRoundsResolve`, `ElectedIsDelivered`,
  and the contract.
* **A hive that answers itself**, with a cache that forgets. `RespondsOnce`,
  `FloodsFarApart`, `FloodDiesOut`, `MapComplete`.
* **Handlers that come and go while a message is dispatched**, and callbacks that
  raise. `NoAnswerMissed`, `ListenerPersists`, `ShutdownFinal`,
  `NothingLeftBehind`, `WaitReturns`.
* **A handshake that is handled twice** by a polling thread that dies of its first
  exception. `KeysAgree`, `EndsInDispatchOnly`, `ConnectReturns`, `ShutdownHeeded`.
* **Trust that is looked up later than it was established.** `TrustedOnTheWay`.
* **A bus whose catch-all sees what was just injected.** `NoEcho`.
* **A file that several processes write whole.** `PinForgottenOnlyByCommand`.
* **Bits, slices and boundaries.** `WireRoundTrips`, `CiphersRoundTrip`,
  `KeepaliveIsSane`.

`PROJECT.json` lists every hazard with its line and the properties that cover
it, and says of the rest why none does.

## 2. Modules

| module | what it is |
|---|---|
| `CascadeContract` | abstract: rounds collect answers, close once, deliver what they elected once |
| `CascadeAggregator` | detailed: receive thread, timer threads, application; implements the contract |
| `CascadeAggregatorProofs` | its invariant, safety theorems and the refinement |
| `SlaveSession` | handshake state machine of the slave protocol with the callbacks of either client |
| `SlaveSessionProofs` | its invariants, authentication, pin, single-handshake and HELLO theorems |
| `SessionEmit` | concurrent `emit` on a v3 session, in either client |
| `SessionEmitProofs` | its invariants, the uniqueness of counters, and the order and safety of the asyncio client's sends |
| `PingFlood` | PING floods, the flood cache and the map |
| `PingFloodProofs` | how far apart two answers to one flood are, and when there is no second one |
| `Listeners` | waiters, listeners and decorators over the event emitter of three clients |
| `ListenersProofs` | who is registered where at any moment; waiters, listeners and shutdown |
| `NodeIdentity` | pins and trusted keys in memory, in the file, and in a command |
| `MessageRouting` | extends it: the handlers of routed messages, trust marks, the bus bridge |
| `MessageRoutingProofs` | its invariant, trust, pins and echoes |
| `HttpSession` | polling thread and application of the HTTP client |
| `HttpSessionProofs` | the stages of a first handshake that is handled twice |
| `Wire`, `CipherFrames`, `Keepalive` | operators for binary frames, cipher layouts and keepalive options |
| `FormatProofs` | that every frame decodes, every sealing opens and every ping timeout is below its interval |
| `MCCascade`, `MCSession`, `MCEmit`, `MCPing`, `MCListeners`, `MCHttp`, `MCRouting` | instances for TLC |

Definitions called a *faulty variant* are there for mutation checks only: each
replaces a mapped definition by what a plausible bug would make of it, and no
action uses them.

### CascadeAggregator

A round is one `CascadeAggregator` object; `current` is
`protocol.cascade_aggregator`. `HandleCascade` is `handle_cascade` up to its call
of `add_response`; it reads `_resolved` without the lock, so a round may be
resolved before `AddRefused`, `AddBuffered` or `AddResolving` gets the lock.
`_do_resolve` elects and then calls `emit_callback` with the lock still held:
`lock[r]` names the holder between the two (`RxEmit`, `TimerEmit`), and every
action that needs the lock waits for it. `Timer.cancel()` stops a waiting timer
only; one that has expired (`fired`) still runs `_resolve`. `select_callback` may
pick any buffered answer, return None, or raise; for the aggregator the last two
are the same. `HandlePing` is the one effect of a PING that matters here:
it creates an empty mapper, and an empty mapper expects 0 answers. The
application's own mapper has a size from `KnownNodes`; it is set once.

Not in the model: an answer that wraps INTERCOM (`handle_cascade` asserts BUS),
the same answer twice, and a `HiveMapper` that changes its size while a round is
open (`expected_responses` is read once, at creation, which the model keeps).

### SlaveSession

`clientVars` are the client's fields, `protoVars` and `noiseVars` those of the
protocol object, `rx` and `app` say where the two threads are. A PARAMS frame
that leads to a handshake is two steps, `HandleParams` and `RxStarts`, because
`start_noise_handshake` derives the PSK in between; `Retry`,
`StartHandshake` and `AppEmit` are the corresponding steps of the waiting thread.
The end of either handshake is two steps as well (`ReceiveNoise` or
`ReceiveEnvelope`, then `FinishHandshake`), since other threads see the new key
before `handshake_event`. With `Threaded = FALSE` the thread in the middle of a
handler is never interrupted, nothing reconnects, handshake frames bypass
the Noise session and an exception in a handler is logged, as in
`async_client.py`; a regular close leaves the fields of the client as they are, `link = "ended"`.

A handshake object is a number; `hs` holds what it was created with (pattern,
HELLO and parameters of the prologue, remote static key). A session key names the
handshake and the connection it stems from, so two ends hold the same key exactly
when they derived it from the same handshake.

External, and modelled as their use in the code implies:

* *The hub* greets with HELLO and parameters, answers handshake messages it can
  read, and closes on anything else; a hub of another password may answer an
  envelope without looking at it. Its profile (version, patterns, name, static
  key, password) may change from one connection to the next.
* *The network* delivers in order or drops the connection with all frames.
* *The websocket library* reconnects after an error or a close by the peer
  (`tests/e2e/test_protocol_v3_matrix.py:229` relies on it) and not after the
  client's own `close()`; it reports an exception raised in `on_message` to
  `on_error`.
* *Noise and the password handshake*: a message is readable exactly when both
  ends agree on handshake object, password, prologue and static keys; nobody
  without the password can produce an answer.

Left out: the public-key branch of the legacy handshake (`init_identity` refuses an
identity without a password, so it is not reached), a `crypto_key` given to the
constructor, the choice of cipher and encoding (a common one is assumed), and
application traffic, which is the subject of `SessionEmit`. `receive_noise_handshake`
up to the moment it sets `noise_transport` is one step, although it reads
`noise_handshake` several times (section 4 says what a retry can do in between).

### SessionEmit

Each caller runs `emit` once: `EmitChecks` (wait for `connected_event`, look at
`noise_transport`), `EncryptFrame` (the counter advances under the transport's
lock), `SendFrame`. The caller `c \in Conns` sends the HELLO of connection `c`: the receive
thread of the threading client, which does nothing else before it is out (`RxIdle`), and a
coroutine of the asyncio client, which `_emit` only schedules and which a close may
precede. `EmitRaises` is the step that finds `noise_transport` to be None after the check.

A connection ends in three ways. `OnClose` is `on_close`/`on_error`, and the asyncio receive
loop after an exception: the session is forgotten. `OnCleanClose` is the asyncio client alone:
`async for raw in self._ws` ends without an exception on a close with 1000 or 1001, so the
lines that forget the session do not run (`async_client.py:383-394`). `Close` is its `close()`. Therefore
`open`, whether there is a websocket, and `up`, which is `connected_event`, are two variables, and
`OnOpen` may find a transport of an earlier connection; then `on_message` drops the cleartext
greeting, `Establish` cannot happen, and what is sealed is of the old session. In a behaviour with `threaded = FALSE` a
caller inside `emit` is not interrupted: between the check and the write of
`async_client.py`'s `emit` nothing suspends. The hub decrypts with the session of
its connection in counter order and ends the connection on anything else. `nonce`
stands for an unbounded counter; `Senders` bounds it.

### PingFlood

Every node is a satellite whose hub relays a PROPAGATE to all others that are
`online`. `AnswerPing` is `handle_ping` for a flood it has not seen, which registers it
and evicts the oldest entry of a full cache; `IgnorePing` is for one it has seen or for
the empty id. The node that ran the `ping` command maps every PING of its flood
after the protocol's handler has run (`MapPing`). It does not register its own flood
in the cache of the protocol, so it answers its own flood once: the model keeps that.
`registered` is a history variable: the order in which a node answered.

### Listeners

One dispatch of the emitter is a sequence of turns over the snapshot `todo` of the
handlers of the message's type: `RunWaiter`, `Filter` (a listener that wants
another payload), `StartCallbacks` and `Rearm` (a once-handler is out of the emitter
while its callbacks run and registers itself again after them), `SkipListener` (the
once-wrapper finds that somebody removed it). An exception anywhere (`WaiterBreaks`,
`ListenerBreaks`, `CallbackRaises`) ends the dispatch; what becomes of it depends on the
client: with threads it reaches `on_error` and the link goes down, the asyncio receive
loop logs it, and the fake hands it to whoever called `emit`.

Between any two turns the threads of the threading client register (`Listen`,
`Wait`, and `Constructed`, because `HivePayloadWaiter` registers its handler before it
has a `payload_type`), send (`Send`, `SendRaises`), give up or collect (`Return`), and remove
(`Shutdown`). With the asyncio client and the fake they run between dispatches only. The
fake's `wait_for_response` dispatches its own request (`SendFake`), which may be of another type than the
answer it asks for (`reply_type`), and its
`wait_for_message` registers a once-handler that it does not remove. What each decorator
listens to is `Decorated`; a waiter asks for any message type, with or without a payload
type. Messages whose payload is a plain dict carry `Dict`. Handlers of the agent's bus and of
the protocol object are left out: they are permanent.

### NodeIdentity and MessageRouting

`identity` is `IDENTITY_FILE` in the process, `file` the file it was read from, `cli` the
same dict in a `set-identity` or `reset-pgp` command, which reads at its start and writes
everything at its end. Pinning saves; adding and removing trusted keys, or replacing them, does not.

`MessageRouting` extends it with the handlers. Each disjunct of `HandleBroadcast`, `HandlePropagate`
and `HandleQuery` is one kind of payload; what a handler does to a message is
`HandleBus` (inject), `Dropped`, or `Raises`: a failing assertion or an AttributeError goes to
`on_error`, which ends the session until `Reconnect`. `HandleBus` includes what follows from
it synchronously: the catch-all of the agent's bus sees the injected message and may
send it to the hub (`Forwarded`), and the session of the message updates `ownSite`
unless it is our own. A message that came as a binary frame has lost site, source and
route (`Received`). Trust is looked up in the mark of the source (`mark_trusted_nodes` sets marks
for the keys that are trusted *then*) or in the keys hops announced, against those that are
trusted *now*. `marked` and `handled` are history variables.

Left out: the ciphertext envelope and the target of an INTERCOM, because the assertion before them
always fails; `share_bus`, which `bind()` never passes on; roles, languages and latencies of the map.

### HttpSession

`worker` is the thread in `run()`, `app` the one in `connect()`. A fetch takes the hub's text
queue, then its binary queue, and handles both messages by message: first the protocol
object of the last `connect()` (`turn = 0`), then every protocol object that `connect()` ever bound
(`turn = i`), since `bind()` also registers handlers. So the parameters of a hub create two
`PasswordHandShake` objects and two envelopes in one handshake; `text` carries both answers, and
the key changes with each. A handler that raises is logged at `turn > 0` and ends the
thread at `turn = 0` (`Raised`).

After the handshake the hub sends bytes and whatever `_handle_hive_protocol` hands to the protocol object: BUS,
BROADCAST, PROPAGATE and INTERCOM (`Dispatched`). What their handlers do is the subject of `MessageRouting`; here they
return or raise (`Dispatch`), and INTERCOM always raises, by the assertion that `routing_intercom` is about. A message
that no longer fits the client's key raises or is dropped (`CannotOpen`).

The recursion of `wait_for_handshake` is the loop `Retry`,
`RetrySends`; its calls are bounded by `MaxRetries`, its waiting is not. `reliable` says whether
requests can fail, `admits` whether the hub accepts the client's key, `samePassword` whether it knows the password: all
are chosen at the start. `connect()` does not look at the hub's answer, so a client that was refused goes on
as if it were connected (`Register`), and its first fetch ends the thread.

### Wire, CipherFrames, Keepalive

Pure functions, as operators, each with the formula that says what they are for.
`Wire` builds the bits of a frame and reads them back, left filler included; a JSON text is the pair
of its plain and its compressed bytes, so that nothing depends on what zlib does. `CipherFrames`
marks every byte with the part it belongs to: a decryption succeeds only if exactly the nonce,
text and tag of one encryption come out of the slices. `Keepalive` counts hundredths of a
second. TLC evaluates the three formulas in the initial states of `emit`; the constants of its
instance bound what it evaluates them on, and `FormatProofs` goes beyond.

## 3. Runs

All passing runs terminate with the complete state space. `CHECK_DEADLOCK` is off in
every run but the two of `MCRouting`: answers, retries and connections are finite and the
system may stop.

| run | question | instance |
|---|---|---|
| `cascade` | Does aggregation lose, repeat or delay an answer under any race? Does it implement its contract? | 3 answers, 1 end marker, mapper of 2 nodes, 3 rounds, fairness |
| `session_any` | Is a session in use always with the pinned hub of this connection? | threading client; 7 hub profiles (downgrade, rename, other key, wrong password); 2 connections, 2 retries |
| `session_async` | Does the asyncio client get a session both ends share? | hubs of three kinds, 3 retries, answers before timeouts, fairness |
| `session_v2` | Does a legacy session survive reconnects and a renamed hub? | threading client, 4 connections, no retries, fairness |
| `session_stale_handshake` | "waits through reconnects forever". **Violated.** | one v3 hub, 2 connections, fairness |
| `emit` | Are counters unique, does the asyncio client send one session per connection, in order, does every `emit` end? Do frames round-trip, do sealings open, are keepalive options accepted? | either client, 2 senders and a HELLO per connection, 3 connections, ended with or without an error, fairness |
| `emit_order` | "encryption order must match send order". **Violated.** | 2 senders, 1 connection |
| `ping` | Does a flood end, with one answer each and a complete map? How far apart are two answers to one flood? | 2 or 3 of 3 nodes online, up to 3 floods, cache of 2, fairness |
| `listeners` | Does an awaited message reach its waiter, does a listener stay armed until it is shut down, does a wait end and leave nothing? | any of three clients, 1 waiter and 2 listeners of any kind, 2 messages, fairness |
| `http` | Do both ends get one key although everything is handled twice? What can end the polling thread? Does `connect()` return, does `shutdown()` stop? | 2 connects, 1 retry, 2 messages of any kind, reliable or not, admitted or not, same password or not, fairness |
| `routing` | What reaches the agent's bus, what comes back from it, and do pins survive? | 2 peers, 2 keys, 1 alias, 1 hub key; peers and keys symmetric |
| `routing_intercom` | "INTERCOM messages explicitly targeted at this node are always accepted". **Violated.** | the same |

### Why the bounds are enough

* *cascade*: two answers race in one round and a third opens a later one; three
  rounds let the second one be cancelled or refused and still leave a successor.
  A mapper of two nodes resolves early with an answer left over.
* *session*: every anomaly needs at most one reconnect (what the first
  connection leaves behind) and one retry beside the receive thread; two of each
  leave one to spare. A v2 hub is cheap, so that run has four connections: key and
  password object of each are distinct. The last connection of a behaviour
  does not drop, which is what makes `SessionUp` a fair question.
* *emit*: one sender shows every race with a callback, two show every race between
  callers; the HELLO of each connection is a further one. Three connections let a frame outlive a whole session.
* *ping*: with three nodes the answer of one comes back to another. The third flood does not fit
  in a cache of two, so one is evicted; `MaxPings` limits the floods by the traffic they cause
  (three floods among two nodes, one among three) and `MaxAnswers = 2` lets an evicted flood be
  answered once more. `FloodDiesOut` and `MapComplete` are about floods that fit.
* *listeners*: the races are between one waiter and one dispatch; two listeners show what one does to
  the other (an exception before its turn, re-arming behind it). BUS carries a payload with a
  type, THIRDPRTY a dict: the other message types are like one of them. Two messages let a listener
  miss the second.
* *http*: the second `connect()` is there for what the first leaves behind, the retry for an
  envelope that crosses the polling thread. One text and one binary message differ in how they are
  handled without a key; the second message is there to be handled after the first, or never.
* *routing*: two keys tell "the key that was trusted" from "the key announced now"; two peers tell source
  from hop. `handled` and `sent` describe one step, so nothing accumulates and no counter needs a bound.

### Fairness

*CASCADE*: an expired timer runs and a thread that can take the
lock does (CPython's scheduler and `threading.Timer`); frames need not arrive and
nobody has to cancel. *Sessions*: the library's reconnect loop, the receive thread, the
waiting thread and the hub make progress; connections need not fail. *emit*: a
caller that can proceed does, `connected_event.wait(10)` included. *PING*: frames
that were sent are handled. *HTTP*: polling thread and application thread run; nobody has to connect,
disconnect or shut down. *Listeners*: a dispatch goes on (callbacks come back), and a waiting caller
proceeds. The last is strong fairness, the only place: a caller of the asyncio client may run only between
dispatches, which come and go, and one in `emit` needs the link, which comes and goes; the event loop
and the ten-second timeout of `emit` serve it in the end. All other fairness is weak.

`Prompt = TRUE` means that no handshake timeout expires while an answer is still on its
way. It is needed for the runs with retries that ask about progress: a retry that fires before the hub's
parameters arrive starts a *legacy* handshake with a v3 hub
(`start_handshake`, `protocol.py:447`), and a KK session established meanwhile makes its frames
unreadable. `session_any` does without it, and so do the theorems.

## 4. What does not hold

* **`session_stale_handshake`** – `on_close` leaves `noise_handshake` set. After the
  reconnect the hub's parameters, which carry `"noise"`, are taken for the answer of
  the old handshake, found malformed, and the client closes for good.
* **`emit_order`** – `emit` encrypts under the transport's lock and sends outside it;
  two threads can send in the other order, and the hub ends the connection.
* **`routing_intercom`** – `HiveMessage.payload` of an INTERCOM is a dict, and `handle_intercom` asserts
  on its `msg_type` before it looks at the target: AttributeError, `on_error`, and the session is gone.
  `FAQ.md:59` says that a message targeted at this node is always accepted.

Seen in the models and not made into runs:

* *Handshake.* `start_handshake` checks `noise_handshake` and replaces it without a lock, so a retry can
  discard the handshake the receive thread began meanwhile, against its own comment "already in
  flight, keep waiting" (`protocol.py:443`): `NoSecondHandshake` fails with `Threaded = TRUE`. It costs an attempt,
  never a wrong session (`TransportAuthenticated`).
* *emit.* `on_open` sets `connected_event` before the handshake of a reconnect: an `emit` in that window goes out
  in the clear, where `FAQ.md:17` says "All subsequent traffic is encrypted". The threading `emit` reads `noise_transport`
  twice and raises AttributeError when `on_close` comes in between. A thread that calls `emit` right after the transport
  is set overtakes the HELLO, and so does a coroutine that was scheduled before it.
* *A regular close, asyncio.* When the hub closes with 1000 or 1001 the receive loop ends without an exception
  (`async_client.py:383`), and `connected_event`, `handshake_event`, `crypto_key` and `noise_transport` stay, where
  `on_close` of the threading client clears them. A later `connect()`, which "Blocks (awaits) until the HiveMind handshake
  completes successfully" (`async_client.py:274`), finds `handshake_event` set and returns at once; the greeting of
  the new connection is dropped as cleartext on a v3 session, and `emit` seals with the transport of the old one, which the
  new hub cannot read. `WireReadable` therefore does not say that the hub can read everything across connections: what is
  sealed on a connection is of one session, in order, and it is the connection's own once its handshake is completed.
* *CASCADE.* `handle_ping` creates an empty `HiveMapper`; from then on `handle_cascade` expects 0 answers and the
  first one wins at once, where `FAQ.md:56` promises the timeout.
* *Routing.* A QUERY that wraps INTERCOM is passed to `handle_intercom` as it is and refused by its first assertion. A
  PROPAGATE that arrives as a binary frame has no source and no route, so it is never trusted. Trust marks are as old as
  the last `mark_trusted_nodes`: a withdrawn key passes until then, which is why `TrustedOnTheWay` speaks of `Trusted \cup marked`.
  `share_bus` (`README.md:134`) has no effect, because `bind()` does not pass it on (`protocol.py:229`).
* *Trust.* The docs ask for a trusted source: "only injected into the internal bus if the source peer's public key is in
  `NodeIdentity.trusted_keys`" (`FAQ.md:59`), "Only peers with a public key in `NodeIdentity.trusted_keys` can inject"
  (`README.md:291`), and alike `identity.py:204-207` and the docstring of `handle_propagate` (`protocol.py:613`).
  `_is_source_trusted` returns True for any trusted hop of the route (`protocol.py:560-567`), so a message of an untrusted
  source that came through a trusted relay is injected. `TrustedOnTheWay` states what the code does ensure, and is
  deliberately weaker than those sentences.
* *Keys of other sizes.* The docstrings of `encrypt_as_json`, `decrypt_from_json`, `encrypt_bin` and `decrypt_bin` say "up to
  16 bytes. Longer keys will be truncated" (`encryption.py:192`, `253`, `304`, `343`). Nothing is truncated: a key of a size
  that the cipher does not take raises `InvalidKeySize`, also one below 16 bytes, and ChaCha20 wants 32.
  `CiphersRoundTrip` speaks of the sizes that the ciphers take.
* *Waiters.* A `HivePayloadWaiter` is registered before its `payload_type` is set; a message in between raises in the dispatch
  and ends the session. A send that raises leaves its waiter's handler behind (`client.py:573`), and so does the fake's
  `wait_for_message` on a timeout. A payload without `msg_type` kills a `HivePayloadListener` for good, and the dispatch for
  everybody after it.
* *HTTP.* The polling thread ends with the first exception outside a handler: a failing request; the first fetch after a
  `/connect` that the hub refused (`http_client.py:360-361` do not look at the answer); every INTERCOM (see
  `routing_intercom`); a BROADCAST or PROPAGATE that wraps an unexpected type, or a BUS message whose listener on the
  agent's bus raises (`http_client.py:203-216` are in no `try`). The application is not told; a `connect()` under way then never returns. A
  `disconnect()` makes the next fetch raise. A `shutdown()` that precedes the thread's start is erased, one before
  `connect()` is not noticed. A second `connect()` on the same client encrypts its envelope with the first session's key.
* *Keepalive.* An interval of 0.1 s or less gets an adjusted timeout that is not below it.

## 5. Proofs

| theorem | says | from |
|---|---|---|
| `Invariance` | `IInv` is an invariant of CASCADE aggregation | `CascadeAssumption` |
| `TypeCorrect`, `DeliversOnce`, `NoAnswerLost` | types; one delivery per round and per answer; no answer lost before a winner is chosen | `Invariance` |
| `Refinement` | `CascadeAggregator` implements `CascadeContract` | `Invariance` |
| `WindowInvariance`, `ResolvesWhenExpected`, `CancelSilences` | an open round has a timer and fewer answers than expected; nothing is delivered after `cancel()` | `Invariance` |
| `PinNeverReplaced` | the pinned key never changes | – |
| `SessionTypeCorrect`, `SessionInvariance` | types; `SessionInv` is an invariant of a session | `SessionAssumption` |
| `SessionAuthentic`, `EventIsSecure` | a transport in use is with the pinned hub of this connection; `handshake_event` implies a key | `SessionInvariance` |
| `AsyncSingleHandshake` | the asyncio client never replaces a Noise handshake in flight | `SessionTypeCorrect` |
| `HandshakeInvariance`, `HelloIsReadable` | without retries, or with an asyncio client whose answers come before its timeouts, the hub can read the HELLO | `SessionTypeCorrect` |
| `EmitInvariance`, `NoncesUnique` | no counter of a session encrypts twice | `EmitAssumption` |
| `AsyncInvariance`, `AsyncWireReadable`, `AsyncEmitNeverCrashes` | however connections end, what the asyncio client seals on one is of one session, in encryption order, and of its own handshake once that was completed; it never loses the session inside `emit` | `EmitInvariance` |
| `PingTypeCorrect`, `FloodsStayApart` | a node answers a flood again only after as many others as its cache holds | `FloodAssumption` |
| `NobodyAnswersTwice` | no flood is answered twice while the caches can hold all of them | `FloodsStayApart` |
| `ListenerInvariance`, `ListenersTypeCorrect` | `ListenerInv`, and types | `ListenerAssumption` |
| `AnswersReachWaiters`, `WaitsCleanUp` | a waiter registered through a dispatch has its message; a wait that returned left no handler | `ListenerInvariance` |
| `ListenersStayArmed`, `ShutdownIsFinal` | a listener is armed or running until it is shut down, and is not run after that | `ListenerInvariance` |
| `HttpInvariance`, `HttpKeysAgree`, `HttpEndsInDispatchOnly` | an undisturbed first handshake, handled twice, ends in one key, and from then on only the first handling of a message that the client could open ends the polling thread | `HttpAssumption` |
| `KeepaliveSane` | a ping timeout is below its interval | `KeepaliveAssumption` |
| `CiphersSane` | what is sealed opens, in every form and length | `TextAssumption` |
| `WireSane` | a binary frame decodes to what it was made from | `WireAssumption` |
| `RoutingInvariance`, `RoutingTypeCorrect` | `RoutingInv`, and types | `IdentityAssumption`, `RoutingAssumption` |
| `SomebodyOnTheWayTrusted` | a PROPAGATE is injected only with a peer on its way, source or relay, whose key is trusted or was at the last marking | `RoutingInvariance` |
| `PinKeptWithoutCommand` | a pin is lost only to a command | `RoutingInvariance` |
| `InjectionIsQuiet` | nothing injected is echoed to the hub | `RoutingAssumption` |

*CASCADE.* That a round delivers once does not follow from itself: one has to know
that whoever is about to emit holds the lock of a round that has not delivered
(`LockHeldToEmit`), that what was elected had been collected and the round is closed
(`ElectedWasCollected`), and that rounds share no answers (`RoundsDisjoint`, which
rests on `AnswersAccountedFor`: an answer in the hands of the receive thread is nowhere
else). The refinement maps a round to *open* while `_resolved` is false and what it
elected to `selected`; buffering maps to `CollectMore`, an answer that completes the
expected number to `CollectLast`, a timer or `cancel()` to `CloseRound`, the callback to
`Deliver`, and everything else stutters. `NothingLost` is not inductive: it follows from
`IInv`.

`ExpectedResolvesEarly` needs to know that an answer enters existing rounds only, since a round
that is created gets a new expectation, and that the set of answers is finite (`WindowsExist`).
`CancelIsSilent` is about two states, but whether it holds is decided earlier: `cancel()` got the
lock, so the round is resolved and nobody is about to emit (`CancelledIsClosed`), and who comes
later finds it resolved. `WindowInv` also contains `OpenRoundHasTimer`: an open round with answers
has a timer that waits or has expired, which is the safety half of `BufferedRoundsResolve`.

*Session.* `TransportAuthenticated` speaks of the current connection, so a reconnect
must not find a transport: `SessionNeedsLink` (a transport only on an open connection,
no event on a broken one, a handler about to finish has a key) and `AnswersOnWay`
(every Noise answer in flight was given by the hub of this connection) close the
induction. The proof needs that the asyncio client opens one connection only and that a hub has
a static key; it uses neither `Prompt` nor a bound on retries. `AsyncSingleHandshake` rests on
`OneStarter`: without threads, whoever has decided to start a handshake starts it before the other looks, so
of receive loop and waiting task only one is about to, and it found none in progress.

`HelloReadable` is false in general, because a retry may cross an answer (section 3, `Prompt`). The
theorem says when it holds: `Unhurried`, no retries or an asyncio client whose timeouts expire only when nothing is on
its way. These are the clients of `session_v2` and `session_async`, but with any hubs, any number of
connections and whatever else survives in the protocol object. Then one thing at a time is under way between
the two ends, and `HandshakeInv` lists the stages: what is in the two queues, what either thread is about to do, and
who has which key. The hub's key appears with the answer (KK, password) or with the third message (XX), which is why
`Finishing` and `Established` have two forms; and the envelope that is answered is of the `PasswordHandShake` in
use, which a retry would break.

*Emit.* `NonceUnique` compares what two callers hold; the step of `EncryptFrame` needs
in addition that every frame's counter is below that of its session, which is its first
conjunct, and that the transport is one of the connections (`TypeOK`).

What the asyncio client guarantees rests on `OneInEmit`: of all callers and the HELLO, one at most is
between its check and its write. While it is, no callback runs, so its session is the one in use
and its counter is above all on the wire (`InEmitIsCurrent`); everything sealed on the wire
belongs to the session in use, below its next counter (`SealedIsCurrent`). That session need not be the
connection's: after a regular close it is that of an earlier one, and then no handshake can be completed until it is
forgotten (`SessionIsCurrent`), so a connection never carries two. In the threading client
two callers can be inside at once, and `emit_order` shows what follows.

*PING.* `FloodsFarApart` speaks of a history; the cache is what the code has. The induction needs
`CacheIsRecent`: the cache is exactly the end of that history, as long as the cache or the
history itself. A flood that is answered is in none of these last entries, so its
previous answer lies before them. The proof holds for any hive, any number of floods and any cache size,
which no instance does.

`RespondsOnce` follows by counting. Only floods that somebody started are ever answered
(`OnlyStartedFloods`, which has to look at what is in flight). While there are no more of them than a
cache holds and a node's answers are distinct, it has given at most as many, so a second answer
would be too close to the first for `FloodsFarApart` (`AnswersDistinct`).

*Routing.* A trust mark is a stale copy of a decision: `MarksFresh` says that a marked peer's
last announced key was trusted at the last marking, which `on_ping` keeps because it replaces the
mark together with the key. Pins need `PinsInSync`: file, process and a running command agree on the pin of every hub
that no command has erased. That the process may stop at any point and start over from the file
is part of `Next`.

*Listeners.* Each property is about one waiter or listener, but an action moves handlers of all, and
a dispatch runs over a snapshot that is out of date at once. `ListenerInv` says of every handler in the
emitter and in the snapshot whose it is (`HandlersBelong`, `DispatchBelongs`) and, as part of
`TypeOK`, that nobody is registered twice; of every waiter, that it is registered until it returns, but
for the fake's one-shot handler (`WaitersListen`); of those whose message is being dispatched, that they have it
or have their turn to come (`AnswersToCome`); and of a listener, by its state, whether it is registered
(`ListenersArmed`). A listener that is shut down while its callbacks run is in no list and must not be
put back, which is why `ShutdownFinal` needs the last one. The proofs of the actions speak of the handler lists
through who is registered where (`AddHandler`, `RemoveHandler`), never of places in a sequence.
The theorems hold for all three clients and any number of waiters and listeners.

*HTTP.* `KeysAgree` says what has happened when a handshake is over. `HttpInv` therefore lists the stages
in which an undisturbed one can be, each with what is in the queues, whose turn it is and who has which
key: before the hub has seen the client, with its greeting under way, after one and after two answers, agreed.
The hub's key is that of the second envelope, the client takes the keys in the order of the answers,
and no sealed message is on its way before the client has the key it is sealed with. The last is
why such a thread does not end over a message that it cannot open; what remains is the handling of those that it can. Nothing is assumed of the number of messages, retries or connects that
follow. `HttpAssumption` includes that `None` is not a key.

*Formats.* Slices are proved to cut where sequences were joined (`SlicesCut`), for any contents and
lengths, so the layout of every cipher, key size and encoding is taken apart where it was put together, for
texts of any length and not only up to the bound of the run. That the timeout is below the interval is
arithmetic over all settings, which may be absent or unreadable (`Unset`, `Junk`) wherever they can be given.

Of the binary frames the proof has two halves. A number is read off its bits by a recursive function, but no field is
wider than eight bits, so the function is unrolled (`ReadField`) and reading inverts writing by
arithmetic (`UintReadsBack`); whole bytes follow one by one (`BytesReadBack`), for texts of any length. And a decoder
finds its way by what it has read: `DecodeFindsParts` takes any parts that announce each other's length
(`Fitting`), behind any zeros, and shows that the first 1 is the start, the next bit places the type, the length
places the end of the metadata, the type says whether a subtype follows. A frame is such parts (`PartsJoined`), and
its filler is zeros (`FillerFills`). Metadata and payloads are any texts, that is any two sequences of bytes.

Only model-checked: everything under fairness (`BufferedRoundsResolve`,
`ElectedIsDelivered`, `SessionUp`, `EmitReturns`, `FloodDiesOut`, `MapComplete`, `WaitReturns`, `ConnectReturns`,
`ShutdownHeeded`), which is beyond the proof system. Every invariant that a passing run checks is proved.
No module uses ENABLED or a RECURSIVE operator.

## 6. Plan

1. An abstract specification of waiting (a call returns a message that arrived after it, or None), to be implemented by
   `Listeners` along `ListenerInv`.
2. `HttpSession` with a second connect: what survives of `KeysAgree` when the first session's key is still in use.

## 7. Not modelled

Ciphers, key derivation, encodings (`util.py`) and compression are library calls on bytes and appear
as assumptions (section 2). The JSON form of a message, the callbacks for binary payloads, the edges and the rendering of
the hive map, plain fields of the identity and the generation of RSA keys carry no state that a property is
about. Of the command line only `ping`, `set-identity` and `reset-pgp` do more than emit or wait once.
The `internal_bus` of the clients, to which `emit` copies BUS messages and on which they
put those they receive (`client.py:400-401`) beside what the protocol object does, is left out: `NoEcho` is about the bus of
`bind()`. `FakeBus` records for tests what was emitted; its emitter is in `Listeners`. Logging, wording and
layout are left out.
