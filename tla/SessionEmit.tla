---------------------------- MODULE SessionEmit ----------------------------
(***************************************************************************)
(* Sending on a protocol v3 session: emit of HiveMessageBusClient          *)
(* (client.py) and AsyncHiveMessageBusClient (async_client.py) over a      *)
(* NoiseTransport (noise.py), with several callers, while connections end  *)
(* and are re-made.                                                        *)
(*                                                                         *)
(* emit reads noise_transport, encrypts under the transport's lock and     *)
(* sends after releasing it.  Threads interleave between these three       *)
(* steps; the asyncio client (~threaded) runs them without a suspension    *)
(* point.  The hub is external: it decrypts with the session of the        *)
(* connection, strictly in counter order, and ends the connection on       *)
(* anything else.                                                          *)
(*                                                                         *)
(* However a connection of the threading client ends, on_close or on_error *)
(* forgets the session.  The receive loop of the asyncio client does so    *)
(* after an error only: a regular close (1000, 1001) ends its `async for`  *)
(* without an exception, and the session stays until close() is called or  *)
(* a later connection fails.                                               *)
(***************************************************************************)
EXTENDS Naturals, Sequences

CONSTANTS Senders,   \* application callers; each calls emit once
          MaxConns   \* bound: connections in a behaviour

Conns == 1 .. MaxConns

ASSUME EmitAssumption ==
  /\ MaxConns \in Nat
  /\ Senders \cap Conns = {}

\* The caller c \in Conns sends the HELLO of connection c: the receive thread of
\* the threading client, a coroutine that is scheduled by the asyncio client.
Callers == Senders \cup Conns

VARIABLES
  threaded,   \* TRUE: threading client; FALSE: asyncio client
  conn,       \* number of the last connection
  open,       \* its websocket is open
  up,         \* connected_event
  transport,  \* noise_transport: the connection it was made for; 0: None
  nonce,      \* send counter of each transport
  made,       \* connections that have completed their handshake
  pc,         \* where each caller is in emit
  frame,      \* what each caller has encrypted: [gen, n]; gen 0: cleartext
  wire,       \* frames sent and not yet read, in order
  hubNext     \* counter the hub expects next

vars == <<threaded, conn, open, up, transport, nonce, made, pc, frame, wire, hubNext>>
linkVars == <<threaded, conn, open, up, transport, made>>

Clear == [gen |-> 0, n |-> 0]
InEmit == {"checked", "clear", "sealed"}

Init ==
  /\ threaded \in BOOLEAN
  /\ conn = 0 /\ open = FALSE /\ up = FALSE /\ transport = 0 /\ made = {}
  /\ nonce = [c \in Conns |-> 0]
  /\ pc = [t \in Callers |-> IF t \in Conns THEN "later" ELSE "called"]
  /\ frame = [t \in Callers |-> Clear]
  /\ wire = << >> /\ hubNext = 0

\* Faulty variant: asyncio's emit suspends between looking, encrypting and sending.
MayAlwaysRun(t) == TRUE

\* asyncio: a caller inside emit is not interrupted.
MayRun(t) == threaded \/ \A u \in Callers \ {t} : pc[u] \notin InEmit
Uninterrupted == ~threaded /\ \E u \in Callers : pc[u] \in InEmit

\* The receive thread is inside receive_noise_handshake until HELLO is out; the
\* asyncio client only schedules it.
RxIdle == threaded => \A c \in Conns : pc[c] \notin {"called"} \cup InEmit
CallbackMayRun == RxIdle /\ ~Uninterrupted

-----------------------------------------------------------------------------
(* The connection and its callbacks *)

\* The library's (re)connect, or the asyncio application's connect().  Neither
\* touches a session that is still there.
OnOpen ==
  /\ ~open /\ conn < MaxConns /\ CallbackMayRun
  /\ conn' = conn + 1 /\ open' = TRUE /\ up' = TRUE
  /\ wire' = << >> /\ hubNext' = 0
  /\ UNCHANGED <<threaded, transport, nonce, made, pc, frame>>

\* Connection and session are gone.
ForgetSession ==
  /\ open' = FALSE /\ up' = FALSE /\ transport' = 0
  /\ wire' = << >>
  /\ UNCHANGED <<threaded, conn, nonce, made, pc, frame, hubNext>>

\* on_close and on_error; of the asyncio client the end of the receive loop
\* with an exception.
OnClose == open /\ CallbackMayRun /\ ForgetSession

\* asyncio, regular close by the hub: the receive loop ends, and nothing else.
OnCleanClose ==
  /\ ~threaded /\ open /\ CallbackMayRun
  /\ open' = FALSE
  /\ wire' = << >>
  /\ UNCHANGED <<threaded, conn, up, transport, nonce, made, pc, frame, hubNext>>

\* asyncio, close() by the application or after a frame that does not decrypt.
Close == ~threaded /\ up /\ CallbackMayRun /\ ForgetSession

TransportOfConn == conn

\* receive_noise_handshake sets the transport; HELLO is emitted after that.
\* While there is a session, on_message lets no handshake frame through.
Establish ==
  /\ open /\ conn \notin made /\ transport = 0 /\ CallbackMayRun
  /\ transport' = TransportOfConn
  /\ made' = made \cup {conn}
  /\ pc' = [pc EXCEPT ![conn] = "called"]
  /\ UNCHANGED <<threaded, conn, open, up, nonce, frame, wire, hubNext>>

-----------------------------------------------------------------------------
(* emit *)

\* Faulty variant: emit trusts every connection to have a session.
HasTransportAlways == TRUE

HasTransport == transport # 0

\* A caller that finds a connection looks whether there is a Noise session.
EmitChecks(t) ==
  /\ pc[t] = "called" /\ up /\ MayRun(t)
  /\ pc' = [pc EXCEPT ![t] = IF HasTransport THEN "checked" ELSE "clear"]
  /\ frame' = [frame EXCEPT ![t] = Clear]
  /\ UNCHANGED <<linkVars, nonce, wire, hubNext>>

\* Faulty variant: emit waits for a connection for ever.
EmitWaitsOn(t) == FALSE /\ UNCHANGED vars

\* No connection within ten seconds: emit raises RuntimeError.
EmitTimesOut(t) ==
  /\ pc[t] = "called" /\ ~up /\ MayRun(t)
  /\ pc' = [pc EXCEPT ![t] = "refused"]
  /\ UNCHANGED <<linkVars, nonce, frame, wire, hubNext>>

\* Faulty variant: the counter is not advanced.
SameNonce == nonce

AdvanceNonce == [nonce EXCEPT ![transport] = @ + 1]

\* encrypt_frame: the counter advances under the transport's lock.
EncryptFrame(t) ==
  /\ pc[t] = "checked" /\ MayRun(t)
  /\ transport # 0
  /\ frame' = [frame EXCEPT ![t] = [gen |-> transport, n |-> nonce[transport]]]
  /\ nonce' = AdvanceNonce
  /\ pc' = [pc EXCEPT ![t] = "sealed"]
  /\ UNCHANGED <<linkVars, wire, hubNext>>

\* noise_transport has become None since it was looked at.
EmitRaises(t) ==
  /\ pc[t] = "checked" /\ MayRun(t)
  /\ transport = 0
  /\ pc' = [pc EXCEPT ![t] = "crashed"]
  /\ UNCHANGED <<linkVars, nonce, frame, wire, hubNext>>

\* send on whatever connection there is now; a closed one is logged.
SendFrame(t) ==
  /\ pc[t] \in {"clear", "sealed"} /\ MayRun(t)
  /\ wire' = IF open THEN Append(wire, [by |-> t, gen |-> frame[t].gen, n |-> frame[t].n])
                     ELSE wire
  /\ pc' = [pc EXCEPT ![t] = "returned"]
  /\ UNCHANGED <<linkVars, nonce, frame, hubNext>>

EmitStep(t) ==
  EmitChecks(t) \/ EmitTimesOut(t) \/ EncryptFrame(t) \/ EmitRaises(t) \/ SendFrame(t)

-----------------------------------------------------------------------------
(* The hub (external) *)

Readable(f) == f.gen = conn /\ f.n = hubNext

HubAccepts ==
  /\ open /\ wire # << >> /\ Readable(Head(wire))
  /\ hubNext' = hubNext + 1
  /\ wire' = Tail(wire)
  /\ UNCHANGED <<linkVars, nonce, pc, frame>>

HubTearsDown ==
  /\ open /\ wire # << >> /\ ~Readable(Head(wire))
  /\ OnClose \/ OnCleanClose

-----------------------------------------------------------------------------
Next ==
  \/ OnOpen \/ OnClose \/ OnCleanClose \/ Close \/ Establish
  \/ \E t \in Callers : EmitStep(t)
  \/ HubAccepts \/ HubTearsDown

Spec == Init /\ [][Next]_vars

\* A caller that can proceed does; connections need neither open nor close.
FairSpec == Spec /\ \A t \in Callers : WF_vars(EmitStep(t))

-----------------------------------------------------------------------------
TypeOK ==
  /\ threaded \in BOOLEAN
  /\ conn \in 0 .. MaxConns /\ open \in BOOLEAN /\ up \in BOOLEAN
  /\ transport \in 0 .. MaxConns
  /\ nonce \in [Conns -> Nat]
  /\ made \subseteq Conns
  /\ pc \in [Callers -> {"later", "called", "returned", "refused", "crashed"} \cup InEmit]
  /\ frame \in [Callers -> [gen: 0 .. MaxConns, n: Nat]]
  /\ wire \in Seq([by: Callers, gen: 0 .. MaxConns, n: Nat])
  /\ hubNext \in Nat

\* No counter value of a Noise session encrypts two messages (the per-direction
\* lock of NoiseTransport), and none that is still to come has been used.
NonceUnique ==
  \A t \in Callers : frame[t].gen # 0 =>
    /\ frame[t].n < nonce[frame[t].gen]
    /\ \A u \in Callers \ {t} : frame[u] # frame[t]

\* Inductive: an open connection has a number and an event; without threads it
\* may be the other way round.
LinkInv ==
  /\ open => up
  /\ up => conn \in Conns
  /\ threaded /\ up => open
  /\ made \subseteq 1 .. conn

EmitInv == TypeOK /\ NonceUnique /\ LinkInv

\* "encryption order must match send order" (NoiseTransport): everything on the
\* wire can be decrypted by the hub of this connection, in the order sent.
InSendOrder ==
  \A i \in DOMAIN wire : wire[i].gen # 0 =>
    wire[i].gen = conn
    /\ \A j \in DOMAIN wire : j < i /\ wire[j].gen # 0 => wire[j].n < wire[i].n

\* What is sealed on a connection is of one session and in the order encrypted.
OneSessionInOrder ==
  \A i, j \in DOMAIN wire :
    j < i /\ wire[i].gen # 0 /\ wire[j].gen # 0 =>
      wire[j].gen = wire[i].gen /\ wire[j].n < wire[i].n

\* The asyncio client sends in the order of encryption, whoever calls emit and
\* however connections end; and on a connection whose handshake was completed all
\* that is sealed is of the session of that handshake.  A session that outlived a
\* regular close may be used on the next connection, where the hub cannot read it:
\* the handshake of such a connection is never completed.
WireReadable ==
  ~threaded =>
    /\ OneSessionInOrder
    /\ conn \in made => \A i \in DOMAIN wire : wire[i].gen \in {0, conn}

\* The inductive invariant behind the next two.  A session in use is that of the
\* connection, unless one without threads outlived its own, and then there is no
\* other; what is sealed on the wire is of it and used counters it has passed;
\* with the asyncio client one caller is inside emit, on that session, ahead of
\* everything it has sent.
SessionIsCurrent ==
  transport # 0 =>
    /\ up /\ transport \in made
    /\ threaded \/ conn \in made => transport = conn

SealedIsCurrent ==
  \A i \in DOMAIN wire : wire[i].gen # 0 =>
    /\ wire[i].gen = transport
    /\ wire[i].n < nonce[transport]

OneInEmit ==
  \A t, u \in Callers : pc[t] \in InEmit /\ pc[u] \in InEmit => t = u

InEmitIsCurrent ==
  \A t \in Callers :
    /\ pc[t] = "checked" => transport # 0
    /\ pc[t] = "clear" => frame[t].gen = 0
    /\ pc[t] = "sealed" =>
         /\ transport # 0 /\ frame[t].gen = transport
         /\ \A i \in DOMAIN wire : wire[i].gen # 0 => wire[i].n < frame[t].n

AsyncInv ==
  /\ SessionIsCurrent
  /\ ~threaded => SealedIsCurrent /\ OneInEmit /\ InEmitIsCurrent /\ OneSessionInOrder

\* emit raises ValueError or RuntimeError at most (its docstring): in the
\* asyncio client it never fails on a session that ended under its feet.
EmitNeverCrashes == ~threaded => \A t \in Callers : pc[t] # "crashed"

\* emit returns or raises, whether or not a connection ever opens.
EmitReturns ==
  \A t \in Senders : <>(pc[t] \in {"returned", "refused", "crashed"})
=============================================================================
