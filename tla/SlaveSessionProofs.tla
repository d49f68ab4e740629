------------------------- MODULE SlaveSessionProofs -------------------------
(***************************************************************************)
(* TLAPS proofs about a satellite's session: for any hubs that may answer  *)
(* at the endpoint, any number of connections and retries, and either kind *)
(* of client.                                                              *)
(***************************************************************************)
EXTENDS SlaveSession, SequenceTheorems, TLAPS

\* A pinned server key is never replaced, whatever hub answers.
LEMMA PinStep == ASSUME [Next]_vars, pinned # None PROVE pinned' = pinned
<1>1. CASE ReceiveNoise
  BY <1>1 DEF ReceiveNoise, AcceptKey, PinAllows
<1>2. CASE UNCHANGED vars
  BY <1>2 DEF vars
<1>3. CASE Connect \/ Drop \/ HubStep
  BY <1>3 DEF Connect, Drop, HubStep, HubReads, HubRejects
<1>4. CASE AppStep
  BY <1>4 DEF AppStep, Retry, StartHandshake, AppEmit, AppEmitFails, WaitReturns, GiveUp
<1>5. CASE RxStep /\ ~ReceiveNoise
  BY <1>5 DEF RxStep, DropCleartext, HandleHello, HandleParamsMalformed, HandleParams,
    RxStarts, ReceiveNoiseFails, ReceiveEnvelope, ReceiveEnvelopeFails,
    FinishHandshake, OnClose
<1> QED BY <1>1, <1>2, <1>3, <1>4, <1>5 DEF Next

\* TOFU then pin: no sequence of reconnects, hubs and retries changes a pin.
THEOREM PinNeverReplaced == Spec => PinStable
BY PinStep, PTL DEF Spec, PinStable

-----------------------------------------------------------------------------
(* Type correctness *)

LEMMA InitType == Init => TypeOK
<1> SUFFICES ASSUME Init PROVE TypeOK
  OBVIOUS
<1>1. hub \in HubProfiles
  BY SessionAssumption DEF Init
<1>2. hs \in [Handshakes -> Offers]
  BY DEF Init, NoOffer, Offers, Hellos, Params, StaticKeys
<1>3. /\ app \in [pc: {"waiting", "starting", "MSG1", "ENVELOPE", "done", "failed"},
                 params: Params \cup {None}, id: Handshakes \cup Conns]
      /\ app.pc # "starting"
  BY SessionAssumption DEF Init, AppIdle, Conns
<1>4. toClient \in Seq(HubFrames) /\ toHub \in Seq(ClientFrames)
  BY DEF Init
<1>5. handshakeEvent \in BOOLEAN
  BY DEF Init
<1> QED BY <1>1, <1>2, <1>3, <1>4, <1>5, SessionAssumption
    DEF Init, TypeOK, Hellos, StaticKeys, Conns

\* What any profile of a hub contributes is of the declared kinds.
LEMMA ProfileType ==
  ASSUME NEW h \in HubProfiles
  PROVE  /\ h.params \in Params /\ h.hello \in Hellos /\ h.key \in StaticKeys
BY DEF Params, Hellos, StaticKeys

\* A frame the client emits is well-formed.
LEMMA EmitType ==
  ASSUME TypeOK, NEW kind \in {"MSG1", "MSG3", "ENVELOPE", "HELLO"},
         NEW id \in Handshakes \cup Conns, Emit(kind, id)
  PROVE  toHub' \in Seq(ClientFrames)
<1>1. NoiseKey(noiseTransport.id) \in Keys \/ noiseTransport = None
  BY DEF TypeOK, NoiseKey, Keys, Transports
<1>2. Sealing(kind) \in Keys \cup {None}
  BY <1>1 DEF Sealing, TypeOK
<1>3. [kind |-> kind, id |-> id, sealed |-> Sealing(kind)] \in ClientFrames
  BY <1>2 DEF ClientFrames
<1> DEFINE f == [kind |-> kind, id |-> id, sealed |-> Sealing(kind)]
<1>4. f \in ClientFrames
  BY <1>3
<1>5. toHub' = Append(toHub, f)
  BY DEF Emit
<1> HIDE DEF f
<1> QED BY <1>4, <1>5 DEF TypeOK

\* A new Noise handshake object is recorded with what it was created from.
LEMMA CreateType ==
  ASSUME TypeOK, NEW p \in Params, CreateNoise(p)
  PROVE  /\ hs' \in [Handshakes -> Offers]
         /\ started' \in Handshakes /\ noiseHandshake' \in Handshakes
         /\ noiseHandshake' = started'
<1>1. SelectPattern(p) \in {"XX", "KK", None}
  BY DEF SelectPattern
<1>2. [pattern |-> SelectPattern(p), hello |-> serverHello, params |-> p,
       remote |-> IF SelectPattern(p) = "KK" THEN pinned ELSE None] \in Offers
  BY <1>1 DEF Offers, TypeOK, StaticKeys
<1> QED BY <1>2 DEF CreateNoise, TypeOK

\* Taking the head of a queue leaves a queue.
LEMMA FrameType ==
  ASSUME TypeOK, NEW kind, Frame(kind)
  PROVE  /\ toClient' \in Seq(HubFrames) /\ Head(toClient) \in HubFrames
         /\ link = "open" /\ rx = "idle" /\ toClient' = Tail(toClient)
         /\ toClient # << >> /\ Head(toClient).kind = kind
BY DEF Frame, TypeOK

LEMMA ConnectType == ASSUME TypeOK, Connect PROVE TypeOK'
<1>1. << [kind |-> "HELLO", id |-> 0], [kind |-> "PARAMS", id |-> 0] >> \in Seq(HubFrames)
  BY SessionAssumption DEF HubFrames, Conns
<1> QED BY <1>1, SessionAssumption DEF Connect, TypeOK, noiseVars, protoVars, appVars, Conns

LEMMA DisconnectType ==
  ASSUME TypeOK, Disconnected,
         UNCHANGED <<noiseVars, protoVars, pinned, rx, appVars, hubVars>>
  PROVE  TypeOK'
<1>1. /\ handshakeEvent' = FALSE \/ handshakeEvent' = handshakeEvent
      /\ cryptoKey' \in {None, cryptoKey} /\ noiseTransport' \in {None, noiseTransport}
      /\ link' \in {"down", "ended"}
  BY DEF Disconnected, ForgetSession
<1>3. handshakeEvent' \in BOOLEAN
  BY <1>1, Zenon DEF TypeOK
<1>2. toClient' \in Seq(HubFrames) /\ toHub' \in Seq(ClientFrames)
  BY DEF Disconnected
<1> QED BY <1>1, <1>2, <1>3 DEF TypeOK, noiseVars, protoVars, appVars, hubVars

LEMMA QuietRxType ==
  ASSUME TypeOK, DropCleartext \/ HandleHello \/ HandleParamsMalformed \/ OnClose
  PROVE  TypeOK'
<1>1. hub.hello \in Hellos
  BY ProfileType DEF TypeOK
<1>2. CASE DropCleartext
  BY <1>2, FrameType DEF DropCleartext, TypeOK, clientVars, noiseVars, protoVars, appVars, hubVars
<1>3. CASE HandleHello
  BY <1>1, <1>3, FrameType DEF HandleHello, TypeOK, clientVars, noiseVars, protoVars, appVars, hubVars
<1>4. CASE HandleParamsMalformed
  BY <1>4, FrameType DEF HandleParamsMalformed, AbortNoise, TypeOK, clientVars, noiseVars,
    protoVars, appVars, hubVars
<1>5. CASE OnClose
  <2>1. handshakeEvent' \in BOOLEAN
    BY <1>5 DEF OnClose, ForgetSession
  <2> QED BY <1>5, <2>1
      DEF OnClose, ForgetSession, TypeOK, noiseVars, protoVars, appVars, hubVars
<1> QED BY <1>2, <1>3, <1>4, <1>5

\* handle_handshake on parameters, and the two ways a handshake is started.
LEMMA StartType == ASSUME TypeOK, HandleParams \/ RxStarts PROVE TypeOK'
<1> USE DEF clientVars, noiseVars, protoVars, appVars, hubVars
<1>1. hub.params \in Params /\ pswdHandshake \in Conns /\ conn \in Conns
  BY ProfileType DEF TypeOK
<1>2. CASE HandleParams
  <2>1. toClient' \in Seq(HubFrames)
    BY <1>2, FrameType DEF HandleParams
  <2>2. /\ serverParams' \in Params \cup {None} /\ pswdHandshake' \in Conns
        /\ rx' \in {"idle", "noise", "envelope", "finish"}
    BY <1>1, <1>2 DEF HandleParams, TypeOK
  <2> QED BY <1>2, <2>1, <2>2 DEF HandleParams, TypeOK
<1>3. CASE RxStarts
  <2>1. CASE rx = "noise" /\ CreateNoise(hub.params) /\ Emit("MSG1", started')
    <3>1. PICK p \in Params : p = hub.params
      BY <1>1
    <3>2. CreateNoise(p)
      BY <2>1, <3>1 DEF CreateNoise, SelectPattern
    <3>3. /\ hs' \in [Handshakes -> Offers]
          /\ started' \in Handshakes /\ noiseHandshake' \in Handshakes
      BY <3>2, CreateType
    <3>4. PICK id \in Handshakes : id = started'
      BY <3>3
    <3>5. Emit("MSG1", id)
      BY <2>1, <3>4 DEF Emit
    <3>6. toHub' \in Seq(ClientFrames)
      BY <3>5, EmitType
    <3> QED BY <1>3, <3>3, <3>6 DEF RxStarts, TypeOK
  <2>2. CASE rx = "envelope" /\ Emit("ENVELOPE", pswdHandshake) /\ UNCHANGED noiseVars
    <3>1. PICK id \in Conns : id = pswdHandshake
      BY <1>1
    <3>2. Emit("ENVELOPE", id)
      BY <2>2, <3>1 DEF Emit
    <3>3. toHub' \in Seq(ClientFrames)
      BY <3>2, EmitType
    <3> QED BY <1>3, <2>2, <3>3 DEF RxStarts, TypeOK
  <2> QED BY <1>3, <2>1, <2>2 DEF RxStarts
<1> QED BY <1>2, <1>3

\* The third XX message, if the pattern needs one.
LEMMA PatternType ==
  ASSUME TypeOK, noiseHandshake # 0, FinishPattern
  PROVE  toHub' \in Seq(ClientFrames)
<1>1. PICK id \in Handshakes : id = noiseHandshake
  BY DEF TypeOK
<1>2. Emit("MSG3", id) \/ UNCHANGED toHub
  BY <1>1 DEF FinishPattern, Emit
<1> QED BY <1>2, EmitType DEF TypeOK

\* receive_noise_handshake and receive_handshake.
LEMMA ReceiveType ==
  ASSUME TypeOK, ReceiveNoise \/ ReceiveNoiseFails \/ ReceiveEnvelope
                 \/ ReceiveEnvelopeFails \/ FinishHandshake
  PROVE  TypeOK'
<1> USE DEF clientVars, noiseVars, protoVars, appVars, hubVars
<1>1. hub.key \in StaticKeys /\ conn \in Conns
  BY ProfileType DEF TypeOK
<1>2. CASE ReceiveNoise
  <2>1. toClient' \in Seq(HubFrames) /\ toHub' \in Seq(ClientFrames)
    BY <1>2, FrameType, PatternType DEF ReceiveNoise
  <2>2. pinned' \in StaticKeys
    BY <1>1, <1>2 DEF ReceiveNoise, AcceptKey, TypeOK
  <2>3. noiseTransport' \in Transports
    BY <1>1, <1>2 DEF ReceiveNoise, TypeOK, Transports
  <2> QED BY <1>2, <2>1, <2>2, <2>3 DEF ReceiveNoise, TypeOK
<1>3. CASE ReceiveNoiseFails
  <2>1. toClient' \in Seq(HubFrames)
    BY <1>3, FrameType DEF ReceiveNoiseFails
  <2>2. toHub' \in Seq(ClientFrames)
    BY <1>3, PatternType DEF ReceiveNoiseFails, TypeOK
  <2> QED BY <1>3, <2>1, <2>2 DEF ReceiveNoiseFails, AbortNoise, TypeOK
<1>4. CASE ReceiveEnvelope
  <2>1. toClient' \in Seq(HubFrames)
    BY <1>4, FrameType DEF ReceiveEnvelope
  <2>2. cryptoKey' \in Keys
    BY <1>1, <1>4 DEF ReceiveEnvelope, LegacyKey, Keys, TypeOK
  <2> QED BY <1>4, <2>1, <2>2 DEF ReceiveEnvelope, TypeOK
<1>5. CASE ReceiveEnvelopeFails
  <2>1. CASE Disconnected
    BY <1>5, <2>1, DisconnectType DEF ReceiveEnvelopeFails
  <2>2. CASE toClient' = Tail(toClient) /\ UNCHANGED <<clientVars, toHub>>
    <3>1. toClient' \in Seq(HubFrames)
      BY <1>5, <2>2 DEF ReceiveEnvelopeFails, TypeOK
    <3> QED BY <1>5, <2>2, <3>1 DEF ReceiveEnvelopeFails, TypeOK
  <2> QED BY <1>5, <2>1, <2>2 DEF ReceiveEnvelopeFails
<1>6. CASE FinishHandshake
  <2>1. handshakeEvent' \in BOOLEAN
    BY <1>6 DEF FinishHandshake
  <2>2. 0 \in Conns
    BY SessionAssumption DEF Conns
  <2>3. toHub' \in Seq(ClientFrames)
    BY <1>6, <2>2, EmitType DEF FinishHandshake
  <2> QED BY <1>6, <2>1, <2>3 DEF FinishHandshake, TypeOK
<1> QED BY <1>2, <1>3, <1>4, <1>5, <1>6

\* The thread in wait_for_handshake.
LEMMA AppType == ASSUME TypeOK, AppStep PROVE TypeOK'
<1> USE DEF clientVars, noiseVars, protoVars, appVars, hubVars
<1> DEFINE Apps == [pc: {"waiting", "starting", "MSG1", "ENVELOPE", "done", "failed"},
                    params: Params \cup {None}, id: Handshakes \cup Conns]
<1>1. AppIdle \in Apps /\ AppIdle.pc # "starting" /\ 0 \in Conns
  BY SessionAssumption DEF AppIdle, Conns
<1>2. app \in Apps /\ (app.pc = "starting" => app.params \in Params)
  BY DEF TypeOK
<1>3. CASE Retry
  <2>1. attempts' \in 0 .. MaxRetries
    BY <1>3, SessionAssumption DEF Retry, MayRetry, TypeOK
  <2>2. PICK p \in Params : p = IF serverParams # None THEN serverParams ELSE NoParams
    BY DEF TypeOK, Params
  <2>3. [AppIdle EXCEPT !.pc = "starting", !.params = p] \in Apps
    BY <1>1
  <2>4. app' \in Apps /\ (app'.pc = "starting" => app'.params \in Params)
    BY <1>1, <1>2, <1>3, <2>2, <2>3 DEF Retry, StartsWhat
  <2> QED BY <1>3, <2>1, <2>4 DEF Retry, TypeOK
<1>4. CASE StartHandshake
  <2>1. PICK p \in Params : p = app.params
    BY <1>2, <1>4 DEF StartHandshake
  <2>2. CASE CreateNoise(app.params) /\ app' = [app EXCEPT !.pc = "MSG1", !.id = started']
    <3>1. CreateNoise(p)
      BY <2>1, <2>2 DEF CreateNoise, SelectPattern
    <3>2. /\ hs' \in [Handshakes -> Offers]
          /\ started' \in Handshakes /\ noiseHandshake' \in Handshakes
      BY <3>1, CreateType
    <3>3. app' \in Apps /\ app'.pc # "starting"
      BY <1>2, <2>2, <3>2
    <3> QED BY <1>4, <3>2, <3>3 DEF StartHandshake, TypeOK
  <2>3. CASE /\ app' = [app EXCEPT !.pc = "ENVELOPE", !.id = pswdHandshake]
             /\ UNCHANGED noiseVars
    <3>1. app' \in Apps /\ app'.pc # "starting"
      BY <1>2, <2>3 DEF TypeOK
    <3> QED BY <1>4, <2>3, <3>1 DEF StartHandshake, TypeOK
  <2> QED BY <1>4, <2>2, <2>3 DEF StartHandshake
<1>5. CASE AppEmit
  <2>1. PICK kind \in {"MSG1", "ENVELOPE"}, id \in Handshakes \cup Conns :
          kind = app.pc /\ id = app.id
    BY <1>2, <1>5 DEF AppEmit
  <2>2. CASE link = "open"
    <3>1. Emit(kind, id)
      BY <1>5, <2>1, <2>2 DEF AppEmit, Emit, Sealing
    <3>2. toHub' \in Seq(ClientFrames)
      BY <3>1, EmitType
    <3> QED BY <1>1, <1>5, <3>2 DEF AppEmit, TypeOK
  <2>3. CASE link # "open"
    BY <1>1, <1>5, <2>3 DEF AppEmit, TypeOK
  <2> QED BY <2>2, <2>3
<1>6. CASE AppEmitFails \/ WaitReturns \/ GiveUp
  <2>1. app' \in Apps /\ app'.pc # "starting"
    BY <1>1, <1>6 DEF AppEmitFails, WaitReturns, GiveUp
  <2> QED BY <1>6, <2>1 DEF AppEmitFails, WaitReturns, GiveUp, TypeOK
<1> QED BY <1>3, <1>4, <1>5, <1>6 DEF AppStep

\* What the hub sends is well-formed, and its session key is one of ours.
LEMMA HubType == ASSUME TypeOK, HubReads PROVE TypeOK'
<1> USE DEF clientVars, noiseVars, protoVars, appVars, hubVars
<1>1. PICK f \in ClientFrames : f = Head(toHub)
  BY DEF HubReads, TypeOK
<1>2. f.id \in Handshakes \cup Conns
  BY DEF ClientFrames
<1>3. toHub' \in Seq(ClientFrames)
  BY DEF HubReads, TypeOK
<1>4. /\ toClient' = toClient
         \/ \E kind \in {"MSG2", "ENVELOPE"} :
              toClient' = Append(toClient, [kind |-> kind, id |-> f.id])
      /\ hubAnswered' = hubAnswered \/ hubAnswered' = hubAnswered \cup {f.id}
      /\ hubKey' \in {hubKey, NoiseKey(f.id), LegacyKey(f.id)}
  BY <1>1 DEF HubReads, Answer
<1>5. toClient' \in Seq(HubFrames)
  <2>1. ASSUME NEW kind \in {"MSG2", "ENVELOPE"}
        PROVE [kind |-> kind, id |-> f.id] \in HubFrames
    BY <1>2 DEF HubFrames
  <2>2. ASSUME NEW g \in HubFrames PROVE Append(toClient, g) \in Seq(HubFrames)
    BY DEF TypeOK
  <2>3. toClient' = toClient \/ \E g \in HubFrames : toClient' = Append(toClient, g)
    BY <1>4, <2>1
  <2>4. toClient \in Seq(HubFrames)
    BY DEF TypeOK
  <2> QED BY <2>2, <2>3, <2>4
<1>6. NoiseKey(f.id) \in Keys /\ LegacyKey(f.id) \in Keys
  BY <1>2 DEF NoiseKey, LegacyKey, Keys, TypeOK
<1> QED BY <1>2, <1>3, <1>4, <1>5, <1>6 DEF HubReads, TypeOK

LEMMA NextType == TypeOK /\ [Next]_vars => TypeOK'
<1> SUFFICES ASSUME TypeOK, [Next]_vars PROVE TypeOK'
  OBVIOUS
<1>1. CASE UNCHANGED vars
  BY <1>1 DEF vars, clientVars, noiseVars, protoVars, appVars, hubVars, TypeOK
<1>2. CASE Drop \/ HubRejects
  BY <1>2, DisconnectType DEF Drop, HubRejects
<1>3. CASE RxStep
  BY <1>3, QuietRxType, StartType, ReceiveType DEF RxStep
<1> QED BY <1>1, <1>2, <1>3, ConnectType, AppType, HubType DEF Next, HubStep

\* Every field of the client, the protocol object and the frames keeps its type.
THEOREM SessionTypeCorrect == Spec => []TypeOK
BY InitType, NextType, PTL DEF Spec

-----------------------------------------------------------------------------
(* The session in use is authenticated *)

\* The head of the queue is one of its frames, the tail holds the others.
LEMMA QueueFacts ==
  ASSUME TypeOK, toClient # << >>
  PROVE  /\ 1 \in DOMAIN toClient /\ Head(toClient) = toClient[1]
         /\ Tail(toClient) \in Seq(HubFrames)
         /\ \A i \in DOMAIN Tail(toClient) :
              i + 1 \in DOMAIN toClient /\ Tail(toClient)[i] = toClient[i + 1]
<1>1. toClient \in Seq(HubFrames)
  BY DEF TypeOK
<1> QED BY <1>1

LEMMA AnswersKept ==
  ASSUME TypeOK, AnswersOnWay, UNCHANGED hubAnswered,
         toClient' = toClient \/ toClient' = << >>
         \/ (toClient # << >> /\ toClient' = Tail(toClient))
  PROVE  AnswersOnWay'
<1>1. CASE toClient' = toClient
  BY <1>1 DEF AnswersOnWay
<1>2. CASE toClient' = << >>
  BY <1>2 DEF AnswersOnWay
<1>3. CASE toClient # << >> /\ toClient' = Tail(toClient)
  BY <1>3, QueueFacts DEF AnswersOnWay
<1> QED BY <1>1, <1>2, <1>3

LEMMA AnswersStep == ASSUME TypeOK, AnswersOnWay, [Next]_vars PROVE AnswersOnWay'
<1> USE DEF clientVars, noiseVars, protoVars, appVars, hubVars
<1>1. CASE Connect
  <2> DEFINE q == << [kind |-> "HELLO", id |-> 0], [kind |-> "PARAMS", id |-> 0] >>
  <2>1. toClient' = q
    BY <1>1 DEF Connect
  <2>2. \A i \in DOMAIN q : q[i].kind # "MSG2"
    OBVIOUS
  <2> HIDE DEF q
  <2> QED BY <2>1, <2>2 DEF AnswersOnWay
<1>2. CASE Drop \/ HubRejects \/ UNCHANGED vars
  BY <1>2, AnswersKept DEF Drop, HubRejects, Disconnected, vars
<1>3. CASE AppStep
  BY <1>3, AnswersKept
  DEF AppStep, Retry, StartHandshake, AppEmit, AppEmitFails, WaitReturns, GiveUp
<1>4. CASE RxStep
  <2>1. UNCHANGED hubAnswered
    BY <1>4 DEF RxStep, DropCleartext, HandleHello, HandleParamsMalformed, HandleParams,
      RxStarts, ReceiveNoise, ReceiveNoiseFails, ReceiveEnvelope,
      ReceiveEnvelopeFails, FinishHandshake, OnClose
  <2>2. \/ toClient' = toClient \/ toClient' = << >>
        \/ (toClient # << >> /\ toClient' = Tail(toClient))
    BY <1>4 DEF RxStep, DropCleartext, HandleHello, HandleParamsMalformed, HandleParams,
      RxStarts, ReceiveNoise, ReceiveNoiseFails, ReceiveEnvelope,
      ReceiveEnvelopeFails, FinishHandshake, OnClose, Frame, Disconnected
  <2> QED BY <2>1, <2>2, AnswersKept
<1>5. CASE HubReads
  <2>1. PICK id : id = Head(toHub).id
    OBVIOUS
  <2>2. \/ toClient' = toClient /\ hubAnswered' = hubAnswered
        \/ /\ toClient' = Append(toClient, [kind |-> "ENVELOPE", id |-> id])
           /\ hubAnswered' = hubAnswered
        \/ /\ toClient' = Append(toClient, [kind |-> "MSG2", id |-> id])
           /\ hubAnswered' = hubAnswered \cup {id}
    BY <1>5, <2>1 DEF HubReads, Answer
  <2>3. toClient \in Seq(HubFrames)
    BY DEF TypeOK
  <2>4. ASSUME NEW g, toClient' = Append(toClient, g),
               g.kind = "MSG2" => g.id \in hubAnswered',
               hubAnswered \subseteq hubAnswered'
        PROVE AnswersOnWay'
    <3> SUFFICES ASSUME NEW i \in DOMAIN toClient', toClient'[i].kind = "MSG2"
                 PROVE toClient'[i].id \in hubAnswered'
      BY DEF AnswersOnWay
    <3>1. CASE i \in DOMAIN toClient
      BY <2>3, <2>4, <3>1 DEF AnswersOnWay
    <3>2. CASE i \notin DOMAIN toClient
      <4>1. toClient'[i] = g
        BY <2>3, <2>4, <3>2
      <4> QED BY <2>4, <4>1
    <3> QED BY <3>1, <3>2
  <2>5. CASE toClient' = toClient /\ hubAnswered' = hubAnswered
    BY <2>5 DEF AnswersOnWay
  <2>6. CASE /\ toClient' = Append(toClient, [kind |-> "ENVELOPE", id |-> id])
             /\ hubAnswered' = hubAnswered
    BY <2>4, <2>6
  <2>7. CASE /\ toClient' = Append(toClient, [kind |-> "MSG2", id |-> id])
             /\ hubAnswered' = hubAnswered \cup {id}
    BY <2>4, <2>7
  <2> QED BY <2>2, <2>5, <2>6, <2>7
<1> QED BY <1>1, <1>2, <1>3, <1>4, <1>5 DEF Next, HubStep

\* Steps that leave the session, its hub and the pin alone.
LEMMA SameSession ==
  ASSUME SessionInv,
         UNCHANGED <<handshakeEvent, cryptoKey, noiseTransport, conn, hub, pinned>>,
         UNCHANGED link,
         rx' = "finish" => rx = "finish",
         hubAnswered \subseteq hubAnswered'
  PROVE  TransportAuthenticated' /\ EventMeansSecure' /\ SessionNeedsLink'
BY DEF SessionInv, TransportAuthenticated, EventMeansSecure, SessionNeedsLink, Connected

\* The connection is gone, and the session with it.
LEMMA NoSession ==
  ASSUME ~handshakeEvent', noiseTransport' = None, rx' # "finish"
  PROVE  TransportAuthenticated' /\ EventMeansSecure' /\ SessionNeedsLink'
BY DEF TransportAuthenticated, EventMeansSecure, SessionNeedsLink, Connected

LEMMA SessionStep ==
  ASSUME SessionInv, [Next]_vars
  PROVE  TransportAuthenticated' /\ EventMeansSecure' /\ SessionNeedsLink'
<1> USE DEF clientVars, noiseVars, protoVars, appVars, hubVars
<1>0. TypeOK /\ TransportAuthenticated /\ EventMeansSecure /\ SessionNeedsLink /\ AnswersOnWay
  BY DEF SessionInv
<1>1. CASE Connect
  <2>1. noiseTransport' = None /\ ~handshakeEvent' /\ rx' # "finish"
    BY <1>0, <1>1 DEF Connect, SessionNeedsLink, Connected
  <2> QED BY <2>1, NoSession
<1>2. ASSUME Disconnected, rx = "idle",
             UNCHANGED <<rx, pinned, conn, hub, hubAnswered>>
      PROVE TransportAuthenticated' /\ EventMeansSecure' /\ SessionNeedsLink'
  <2>1. CASE ForgetSession
    BY <1>2, <2>1, NoSession DEF ForgetSession
  <2>2. CASE /\ link' = "ended"
             /\ UNCHANGED <<handshakeEvent, cryptoKey, noiseTransport>>
    BY <1>0, <1>2, <2>2 DEF TransportAuthenticated, EventMeansSecure, SessionNeedsLink, Connected
  <2> QED BY <1>2, <2>1, <2>2 DEF Disconnected
<1>3. CASE Drop \/ HubRejects
  BY <1>2, <1>3 DEF Drop, HubRejects
<1>4. CASE OnClose
  <2>1. rx # "finish"
    BY <1>0, <1>4 DEF OnClose, SessionNeedsLink
  <2> QED BY <1>4, <2>1, NoSession DEF OnClose, ForgetSession
<1>5. CASE AppStep \/ HubReads \/ UNCHANGED vars
  <2>1. /\ UNCHANGED <<link, handshakeEvent, cryptoKey, noiseTransport, conn, hub, pinned, rx>>
        /\ hubAnswered \subseteq hubAnswered'
    BY <1>5 DEF AppStep, Retry, StartHandshake, AppEmit, AppEmitFails, WaitReturns, GiveUp,
      HubReads, vars
  <2> QED BY <2>1, SameSession
<1>6. CASE DropCleartext \/ HandleHello \/ HandleParams \/ RxStarts
  <2>1. /\ UNCHANGED <<link, handshakeEvent, cryptoKey, noiseTransport, conn, hub, pinned,
                       hubAnswered>>
        /\ rx' = "finish" => rx = "finish"
    BY <1>6 DEF DropCleartext, HandleHello, HandleParams, RxStarts
  <2> QED BY <2>1, SameSession
<1>7. CASE HandleParamsMalformed \/ ReceiveNoiseFails
  <2>1. AbortNoise /\ UNCHANGED rx /\ rx = "idle"
    BY <1>7 DEF HandleParamsMalformed, ReceiveNoiseFails, Frame
  <2> QED BY <2>1 DEF AbortNoise, TransportAuthenticated, EventMeansSecure, SessionNeedsLink, Connected
<1>8. CASE ReceiveNoise
  \* The answer is the hub's, reads under the password, and fits the pin.
  <2>1. /\ toClient # << >> /\ Head(toClient).kind = "MSG2" /\ link = "open"
        /\ Head(toClient).id = noiseHandshake /\ hub.psk = MyPassword
        /\ pinned = None \/ pinned = hub.key
    BY <1>8 DEF ReceiveNoise, Frame, Readable, AcceptKey, PinAllows
  <2>2. noiseHandshake \in hubAnswered
    BY <1>0, <2>1, QueueFacts DEF AnswersOnWay
  <2>3. /\ noiseTransport' = [id |-> noiseHandshake, remote |-> hub.key, conn |-> conn]
        /\ pinned' = hub.key
        /\ UNCHANGED <<link, conn, hub, hubAnswered>>
    BY <1>8, <2>1 DEF ReceiveNoise, AcceptKey
  <2>4. TransportAuthenticated'
    BY <2>1, <2>2, <2>3 DEF TransportAuthenticated
  <2>5. noiseTransport' # None
    <3>2. noiseHandshake \in Handshakes /\ hub.key \in StaticKeys /\ conn \in Conns
      BY <1>0, <1>8, ProfileType DEF ReceiveNoise, TypeOK
    <3>3. noiseTransport' \in Transports
      BY <2>3, <3>2 DEF Transports
    <3> QED BY <3>3, SessionAssumption
  <2> QED BY <2>1, <2>3, <2>4, <2>5 DEF EventMeansSecure, SessionNeedsLink, Connected
<1>9. CASE ReceiveEnvelope
  <2>1. /\ link = "open" /\ cryptoKey' = LegacyKey(pswdHandshake)
        /\ UNCHANGED <<link, noiseTransport, conn, hub, hubAnswered, pinned>>
        /\ noiseTransport = None
    BY <1>9 DEF ReceiveEnvelope, Frame
  <2>2. cryptoKey' # None
    <3>1. LegacyKey(pswdHandshake) \in Keys
      BY <1>0 DEF LegacyKey, Keys, TypeOK
    <3> QED BY <2>1, <3>1, SessionAssumption
  <2> QED BY <2>1, <2>2 DEF TransportAuthenticated, EventMeansSecure, SessionNeedsLink, Connected
<1>10. CASE ReceiveEnvelopeFails
  <2>1. CASE Disconnected
    BY <1>2, <1>10, <2>1 DEF ReceiveEnvelopeFails
  <2>2. CASE UNCHANGED clientVars
    BY <1>10, <2>2, SameSession DEF ReceiveEnvelopeFails
  <2> QED BY <1>10, <2>1, <2>2 DEF ReceiveEnvelopeFails
<1>11. CASE FinishHandshake
  <2>1. /\ link = "open" /\ (noiseTransport # None \/ cryptoKey # None)
        /\ UNCHANGED <<link, cryptoKey, noiseTransport, conn, hub, hubAnswered, pinned>>
        /\ rx' = "idle"
    BY <1>0, <1>11 DEF FinishHandshake, SessionNeedsLink
  <2> QED BY <1>0, <2>1 DEF TransportAuthenticated, EventMeansSecure, SessionNeedsLink, Connected
<1> QED BY <1>1, <1>3, <1>4, <1>5, <1>6, <1>7, <1>8, <1>9, <1>10, <1>11
    DEF Next, RxStep, HubStep

LEMMA InitSession == Init => SessionInv
<1> SUFFICES ASSUME Init PROVE SessionInv
  OBVIOUS
<1>1. TypeOK
  BY InitType
<1>2. AnswersOnWay
  BY DEF Init, AnswersOnWay
<1>3. TransportAuthenticated /\ EventMeansSecure /\ SessionNeedsLink
  BY DEF Init, TransportAuthenticated, EventMeansSecure, SessionNeedsLink
<1> QED BY <1>1, <1>2, <1>3 DEF SessionInv

LEMMA NextSession == SessionInv /\ [Next]_vars => SessionInv'
<1> SUFFICES ASSUME SessionInv, [Next]_vars PROVE SessionInv'
  OBVIOUS
<1>1. TypeOK' /\ AnswersOnWay'
  BY NextType, AnswersStep DEF SessionInv
<1> QED BY <1>1, SessionStep DEF SessionInv

\* The invariant of a satellite's session, across reconnects and retries.
THEOREM SessionInvariance == Spec => []SessionInv
BY InitSession, NextSession, PTL DEF Spec

\* A Noise session in use is with the hub of this connection, whose key is the
\* pinned one and who knows the password.
THEOREM SessionAuthentic == Spec => []TransportAuthenticated
<1>1. SessionInv => TransportAuthenticated
  BY DEF SessionInv
<1> QED BY SessionInvariance, <1>1, PTL

\* On an open connection handshake_event is set only when there is a key.
THEOREM EventIsSecure == Spec => []EventMeansSecure
<1>1. SessionInv => EventMeansSecure
  BY DEF SessionInv
<1> QED BY SessionInvariance, <1>1, PTL

-----------------------------------------------------------------------------
(* One Noise handshake at a time *)

\* In one event loop whoever decided to start a handshake starts it before
\* anybody else looks: only one of the two is about to, and there is none yet.
OneStarter ==
  /\ rx = "noise" => noiseHandshake = 0
  /\ app.pc = "starting" => noiseHandshake = 0
  /\ app.pc \in {"starting", "MSG1", "ENVELOPE"} => rx = "idle"

\* What a step may do to the handshake in progress.
KeepsHandshake == noiseHandshake # 0 /\ noiseHandshake' # 0 => noiseHandshake' = noiseHandshake

\* The receive loop starts Noise only on parameters that found no handshake.
LEMMA RxStarterStep ==
  ASSUME ~Threaded, TypeOK, OneStarter, RxStep
  PROVE  OneStarter' /\ KeepsHandshake
<1> USE DEF OneStarter, KeepsHandshake, RxMayRun, Frame
<1>1. CASE HandleParams
  <2>1. rx' = "noise" => noiseHandshake = 0
    <3>1. hub.params.version \in Nat
      BY SessionAssumption DEF TypeOK
    <3> QED BY <1>1, <3>1 DEF HandleParams, ShouldUseNoise
  <2> QED BY <1>1, <2>1 DEF HandleParams, noiseVars, appVars
<1>2. CASE RxStarts
  BY <1>2 DEF RxStarts, CreateNoise, noiseVars, appVars
<1>3. CASE HandleParamsMalformed \/ ReceiveNoiseFails
  BY <1>3 DEF HandleParamsMalformed, ReceiveNoiseFails, AbortNoise, appVars
<1>4. CASE ReceiveNoise
  BY <1>4 DEF ReceiveNoise, appVars
<1>5. CASE DropCleartext \/ HandleHello \/ ReceiveEnvelope \/ FinishHandshake \/ OnClose
  BY <1>5 DEF DropCleartext, HandleHello, ReceiveEnvelope, FinishHandshake, OnClose,
              noiseVars, appVars
<1>6. CASE ReceiveEnvelopeFails
  BY <1>6 DEF ReceiveEnvelopeFails, noiseVars, appVars
<1> QED BY <1>1, <1>2, <1>3, <1>4, <1>5, <1>6 DEF RxStep

\* The waiting task starts one only when it found none.
LEMMA AppStarterStep ==
  ASSUME ~Threaded, TypeOK, OneStarter, AppStep
  PROVE  OneStarter' /\ KeepsHandshake
<1> USE DEF OneStarter, KeepsHandshake, AppMayRun, AppIdle
<1>1. CASE Retry
  <2>1. rx = "idle" /\ UNCHANGED <<rx, noiseHandshake>>
    BY <1>1 DEF Retry, TimedOut, noiseVars
  <2>2. app'.pc = "starting" => noiseHandshake = 0
    BY <1>1 DEF Retry, TimedOut, StartsWhat
  <2> QED BY <2>1, <2>2
<1>2. CASE StartHandshake
  <2>1. rx = "idle" /\ rx' = "idle" /\ noiseHandshake = 0
    BY <1>2 DEF StartHandshake
  <2>2. app'.pc # "starting"
    BY <1>2 DEF StartHandshake, TypeOK
  <2> QED BY <2>1, <2>2
<1>3. CASE AppEmit \/ AppEmitFails \/ WaitReturns \/ GiveUp
  BY <1>3 DEF AppEmit, AppEmitFails, WaitReturns, GiveUp, TimedOut, noiseVars
<1> QED BY <1>1, <1>2, <1>3 DEF AppStep

LEMMA StarterStep ==
  ASSUME ~Threaded, TypeOK, OneStarter, [Next]_vars
  PROVE  OneStarter' /\ KeepsHandshake
<1>1. CASE RxStep
  BY <1>1, RxStarterStep
<1>2. CASE AppStep
  BY <1>2, AppStarterStep
<1>3. CASE Connect \/ Drop \/ HubStep
  BY <1>3 DEF Connect, Drop, HubStep, HubReads, HubRejects, OneStarter, KeepsHandshake,
              noiseVars, appVars
<1>4. CASE UNCHANGED vars
  BY <1>4 DEF vars, noiseVars, appVars, OneStarter, KeepsHandshake
<1> QED BY <1>1, <1>2, <1>3, <1>4 DEF Next

\* The asyncio client never replaces a Noise handshake that is in flight, however
\* its retries fall.
THEOREM AsyncSingleHandshake == ~Threaded /\ Spec => NoSecondHandshake
<1> SUFFICES ASSUME ~Threaded PROVE Spec => NoSecondHandshake
  OBVIOUS
<1>1. Init => OneStarter
  BY DEF Init, OneStarter, AppIdle
<1>2. TypeOK /\ OneStarter /\ [Next]_vars => OneStarter'
  BY StarterStep
<1>3. TypeOK /\ OneStarter /\ [Next]_vars =>
        [noiseHandshake # 0 /\ noiseHandshake' # 0 => noiseHandshake' = noiseHandshake]_vars
  BY StarterStep DEF KeepsHandshake
<1> QED BY <1>1, <1>2, <1>3, SessionTypeCorrect, PTL DEF Spec, NoSecondHandshake
-----------------------------------------------------------------------------
(* The hub can read the HELLO *)

LEMMA OneFrame ==
  ASSUME NEW S, NEW q \in Seq(S), Len(q) = 1
  PROVE  q # << >> /\ Head(q) = q[1] /\ Tail(q) = << >> /\ q[1] \in S
<1>1. Tail(q) \in Seq(S) /\ Len(Tail(q)) = 0
  OBVIOUS
<1>2. Tail(q) = << >>
  BY <1>1, EmptySeq
<1> QED BY <1>2

LEMMA TwoFrames ==
  ASSUME NEW S, NEW q \in Seq(S), Len(q) = 2
  PROVE  /\ q # << >> /\ Head(q) = q[1] /\ q[1] \in S
         /\ Len(Tail(q)) = 1 /\ Tail(q)[1] = q[2]
OBVIOUS

LEMMA FirstFrame ==
  ASSUME NEW f, NEW q, q = Append(<< >>, f)
  PROVE  Len(q) = 1 /\ q # << >> /\ Head(q) = f /\ q[1] = f
OBVIOUS

LEMMA LastFrame ==
  ASSUME NEW S, NEW q \in Seq(S), NEW f \in S
  PROVE  /\ Len(Append(q, f)) = Len(q) + 1 /\ Append(q, f)[Len(q) + 1] = f
         /\ \A i \in 1 .. Len(q) : Append(q, f)[i] = q[i]
BY AppendProperties

LEMMA SecondFrame ==
  ASSUME NEW S, NEW q \in Seq(S), Len(q) = 1, NEW f \in S
  PROVE  Len(Append(q, f)) = 2 /\ Append(q, f)[1] = q[1] /\ Append(q, f)[2] = f
<1>1. 1 \in 1 .. Len(q) /\ Len(q) + 1 = 2
  OBVIOUS
<1>2. Append(q, f)[1] = q[1]
  BY <1>1, LastFrame
<1>3. Len(Append(q, f)) = Len(q) + 1 /\ Append(q, f)[Len(q) + 1] = f
  BY LastFrame
<1> QED BY <1>1, <1>2, <1>3

\* Where the connection and the two threads are says which stage it is.
LEMMA StageOf ==
  ASSUME HandshakeInv
  PROVE  /\ link # "open" => Offline
         /\ rx = "finish" => Finishing
         /\ rx \in {"noise", "envelope"} => Deciding
         /\ link = "open" /\ toClient # << >> => Greeted \/ Answered
         /\ link = "open" /\ toHub # << >> => Asked \/ Finishing \/ Established
         /\ ~AtRest => Retrying \/ (Offline /\ ~Threaded /\ link = "ended")
BY DEF HandshakeInv, Offline, Greeted, Deciding, Retrying, Silent, Asked, Answered,
       Finishing, Established, Idle, AtRest

LEMMA SamePatterns == ASSUME PatternsChosen, UNCHANGED <<hs, started>> PROVE PatternsChosen'
BY DEF PatternsChosen

\* A new handshake has a pattern.
LEMMA NewPattern ==
  ASSUME TypeOK, PatternsChosen, NEW p \in Params, ShouldUseNoise(p), CreateNoise(p)
  PROVE  PatternsChosen' /\ started' \in 1 .. started'
<1>1. SelectPattern(p) \in {"XX", "KK"}
  BY DEF ShouldUseNoise, SelectPattern
<1>2. /\ started \in Nat /\ started' = started + 1 /\ started' \in Handshakes
      /\ hs \in [Handshakes -> Offers] /\ 1 .. started' \subseteq Handshakes
  BY SessionAssumption DEF TypeOK, CreateNoise, Handshakes
<1>3. hs'[started'].pattern = SelectPattern(p)
  BY <1>2 DEF CreateNoise
<1>4. \A i \in 1 .. started : hs'[i] = hs[i] /\ i \in Handshakes
  BY <1>2 DEF CreateNoise
<1> QED BY <1>1, <1>2, <1>3, <1>4 DEF PatternsChosen

\* The connection ends.
LEMMA GoneStage ==
  ASSUME Disconnected, AtRest, rx = "idle", UNCHANGED <<rx, app>>
  PROVE  Offline'
BY DEF Disconnected, ForgetSession, Offline, Fresh, AtRest

LEMMA LinkStage ==
  ASSUME TypeOK, HandshakeInv, Connect \/ Drop \/ HubRejects \/ OnClose
  PROVE  HandshakeInv'
<1> USE DEF noiseVars, appVars
<1>1. PatternsChosen'
  BY SamePatterns DEF HandshakeInv, Connect, Drop, HubRejects, OnClose
<1>2. CASE Connect
  <2>1. Offline
    BY <1>2, StageOf DEF Connect
  <2>2. Greeted'
    BY <1>2, <2>1 DEF Connect, Offline, Greeted, Idle, Fresh, AtRest
  <2> QED BY <1>1, <2>2 DEF HandshakeInv
<1>3. CASE Drop \/ HubRejects
  <2>1. AtRest
    BY <1>3, StageOf DEF Drop, HubRejects, RxMayRun, AtRest, Retrying
  <2>2. Offline'
    BY <1>3, <2>1, GoneStage DEF Drop, HubRejects
  <2> QED BY <1>1, <2>2 DEF HandshakeInv
<1>4. CASE OnClose
  <2>1. Offline
    BY <1>4, StageOf DEF OnClose
  <2>2. Offline'
    BY <1>4, <2>1 DEF OnClose, ForgetSession, Offline, Fresh, AtRest
  <2> QED BY <1>1, <2>2 DEF HandshakeInv
<1> QED BY <1>2, <1>3, <1>4

\* What the client takes from the queue is the greeting or the one answer.
LEMMA TakeStage ==
  ASSUME TypeOK, HandshakeInv, NEW kind, Frame(kind)
  PROVE  /\ Idle /\ Fresh /\ toHub = << >>
         /\ kind = "HELLO" => toClient' = << [kind |-> "PARAMS", id |-> 0] >>
         /\ kind # "HELLO" => toClient' = << >>
         /\ kind \in {"MSG2", "ENVELOPE"} => Answered
<1>1. Greeted \/ Answered
  BY StageOf DEF Frame
<1>2. CASE toClient = << [kind |-> "HELLO", id |-> 0], [kind |-> "PARAMS", id |-> 0] >>
  <2>1. Greeted
    BY <1>1, <1>2 DEF Answered
  <2>2. kind = "HELLO" /\ toClient' = << [kind |-> "PARAMS", id |-> 0] >>
    BY <1>2 DEF Frame
  <2> QED BY <2>1, <2>2 DEF Greeted
<1>3. CASE toClient = << [kind |-> "PARAMS", id |-> 0] >> /\ Greeted
  <2>1. kind = "PARAMS" /\ toClient' = << >>
    BY <1>3 DEF Frame
  <2> QED BY <1>3, <2>1 DEF Greeted
<1>4. CASE Answered
  <2>1. Len(toClient) = 1 /\ toClient \in Seq(HubFrames)
    BY <1>4 DEF Answered, TypeOK
  <2>2. toClient' = << >>
    BY <2>1, OneFrame DEF Frame
  <2>3. kind \in {"MSG2", "ENVELOPE"}
    BY <1>4 DEF Answered, Frame
  <2> QED BY <1>4, <2>2, <2>3 DEF Answered
<1> QED BY <1>1, <1>2, <1>3, <1>4 DEF Greeted
\* Noise keys and legacy keys are keys.
LEMMA KeysAreKeys ==
  ASSUME TypeOK, NEW id \in Handshakes \cup Conns
  PROVE  NoiseKey(id) \in Keys /\ LegacyKey(id) \in Keys /\ None \notin Keys /\ None \notin Transports
BY SessionAssumption DEF NoiseKey, LegacyKey, Keys, TypeOK

\* The greeting of the hub is taken up.
LEMMA GreetingStage ==
  ASSUME TypeOK, HandshakeInv,
         DropCleartext \/ HandleHello \/ HandleParamsMalformed \/ HandleParams
  PROVE  HandshakeInv'
<1> USE DEF clientVars, noiseVars, protoVars, appVars, hubVars
<1>1. PatternsChosen'
  BY SamePatterns
     DEF HandshakeInv, DropCleartext, HandleHello, HandleParamsMalformed, HandleParams, AbortNoise
<1>2. CASE DropCleartext
  BY <1>2, TakeStage DEF DropCleartext, Fresh
<1>3. CASE HandleHello
  <2>1. Greeted'
    BY <1>3, TakeStage DEF HandleHello, Greeted, Idle, Fresh, AtRest
  <2> QED BY <1>1, <2>1 DEF HandshakeInv
<1>4. CASE HandleParamsMalformed
  <2>1. Offline'
    BY <1>4, TakeStage DEF HandleParamsMalformed, AbortNoise, Offline, Idle, AtRest
  <2> QED BY <1>1, <2>1 DEF HandshakeInv
<1>5. CASE HandleParams
  <2>1. Frame("PARAMS") /\ UNCHANGED <<clientVars, app, hub, toHub, pinned>>
    BY <1>5 DEF HandleParams
  <2>2. Idle /\ Fresh /\ toHub = << >> /\ toClient' = << >>
    BY <2>1, TakeStage
  <2>3. \/ rx' = "noise" /\ ShouldUseNoise(hub.params)
        \/ rx' \in {"envelope", "idle"}
    BY <1>5, <2>2 DEF HandleParams, Idle
  <2>4. ShouldUseNoise(hub.params) => ShouldUseNoise(hub.params)'
    BY <2>1 DEF ShouldUseNoise, SelectPattern
  <2>5. Deciding' \/ Silent'
    BY <2>1, <2>2, <2>3, <2>4 DEF Deciding, Silent, Idle, Fresh, AtRest
  <2> QED BY <1>1, <2>5 DEF HandshakeInv
<1> QED BY <1>2, <1>3, <1>4, <1>5

\* The first message goes out in the clear, for nobody has a key.
LEMMA AskStage ==
  ASSUME TypeOK, HandshakeInv, RxStarts
  PROVE  HandshakeInv'
<1> USE DEF clientVars, noiseVars, protoVars, appVars, hubVars
<1>1. Deciding
  BY StageOf DEF RxStarts
<1>2. PICK p \in Params : p = hub.params
  BY ProfileType DEF TypeOK
<1>3. Sealing("MSG1") = None /\ Sealing("ENVELOPE") = None
  BY <1>1 DEF Deciding, Fresh, Sealing
<1>4. CASE rx = "noise" /\ CreateNoise(hub.params) /\ Emit("MSG1", started')
  <2>1. CreateNoise(p) /\ ShouldUseNoise(p)
    BY <1>1, <1>2, <1>4 DEF CreateNoise, SelectPattern, Deciding, ShouldUseNoise
  <2>2. PatternsChosen' /\ started' \in 1 .. started'
    BY <2>1, NewPattern DEF HandshakeInv
  <2>3. toHub' = Append(<< >>, [kind |-> "MSG1", id |-> started', sealed |-> None])
    BY <1>1, <1>3, <1>4 DEF Emit, Deciding
  <2>4. Asked'
    BY <1>1, <2>2, <2>3, FirstFrame DEF RxStarts, Deciding, Asked, Idle, Fresh, AtRest
  <2> QED BY <2>2, <2>4 DEF HandshakeInv
<1>5. CASE rx = "envelope" /\ Emit("ENVELOPE", pswdHandshake) /\ UNCHANGED noiseVars
  <2>1. PatternsChosen'
    BY <1>5, SamePatterns DEF HandshakeInv
  <2>2. toHub' = Append(<< >>, [kind |-> "ENVELOPE", id |-> pswdHandshake, sealed |-> None])
    BY <1>1, <1>3, <1>5 DEF Emit, Deciding
  <2>3. Asked'
    BY <1>1, <2>2, FirstFrame DEF RxStarts, Deciding, Asked, Idle, Fresh, AtRest
  <2> QED BY <2>1, <2>3 DEF HandshakeInv
<1> QED BY <1>4, <1>5 DEF RxStarts

\* What XX sends third is in the clear, too.
LEMMA ThirdStage ==
  ASSUME Fresh, toHub = << >>, FinishPattern
  PROVE  \/ /\ hs[noiseHandshake].pattern = "XX"
            /\ toHub' = Append(<< >>, [kind |-> "MSG3", id |-> noiseHandshake, sealed |-> None])
         \/ hs[noiseHandshake].pattern # "XX" /\ toHub' = << >>
BY DEF FinishPattern, Emit, Sealing, Fresh

\* An answer to a Noise handshake is taken up.
LEMMA NoiseAnswerStage ==
  ASSUME TypeOK, HandshakeInv, ReceiveNoise \/ ReceiveNoiseFails
  PROVE  HandshakeInv'
<1> USE DEF clientVars, noiseVars, protoVars, appVars, hubVars
<1>1. PatternsChosen'
  BY SamePatterns DEF HandshakeInv, ReceiveNoise, ReceiveNoiseFails, AbortNoise
<1>2. Idle /\ Fresh /\ toHub = << >> /\ toClient' = << >> /\ Answered
  BY TakeStage DEF ReceiveNoise, ReceiveNoiseFails
<1>3. Head(toClient).kind = "MSG2"
  BY DEF ReceiveNoise, ReceiveNoiseFails, Frame
<1>4. CASE ReceiveNoise
  <2>1. Head(toClient).id = noiseHandshake
    BY <1>4 DEF ReceiveNoise, Readable
  <2>2. /\ noiseHandshake \in 1 .. started
        /\ hs[noiseHandshake].pattern = "KK" => hubKey = NoiseKey(noiseHandshake)
    BY <1>2, <1>3, <2>1 DEF Answered
  <2>3. hs[noiseHandshake].pattern \in {"XX", "KK"}
    BY <2>2 DEF HandshakeInv, PatternsChosen
  <2>4. noiseTransport' # None /\ noiseTransport'.id = noiseHandshake
    <3>1. noiseHandshake \in Handshakes /\ hub.key \in StaticKeys /\ conn \in Conns
      BY <1>4, ProfileType DEF ReceiveNoise, TypeOK
    <3>2. noiseTransport' = [id |-> noiseHandshake, remote |-> hub.key, conn |-> conn]
      BY <1>4 DEF ReceiveNoise
    <3>3. noiseTransport' \in Transports
      BY <3>1, <3>2 DEF Transports
    <3> QED BY <3>2, <3>3, SessionAssumption
  <2>5. SessionKey' = NoiseKey(noiseHandshake) /\ SessionKey' # None
    <3>1. SessionKey' = NoiseKey(noiseHandshake)
      BY <1>4, <2>4 DEF SessionKey, NoiseKey, ReceiveNoise
    <3>2. noiseHandshake \in Handshakes
      BY <1>4 DEF ReceiveNoise, TypeOK
    <3> QED BY <3>1, <3>2, KeysAreKeys
  <2>6. link' = "open" /\ rx' = "finish" /\ AtRest' /\ hubKey' = hubKey /\ conn' = conn
    BY <1>2, <1>4 DEF ReceiveNoise, Idle, AtRest
  <2>7. CASE hs[noiseHandshake].pattern = "XX"
    <3>1. toHub' = Append(<< >>, [kind |-> "MSG3", id |-> noiseHandshake, sealed |-> None])
      BY <1>2, <1>4, <2>7, ThirdStage DEF ReceiveNoise
    <3>2. /\ Len(toHub') = 1
          /\ toHub'[1] = [kind |-> "MSG3", id |-> noiseHandshake, sealed |-> None]
      BY <3>1, FirstFrame
    <3>3. ThirdMessage(toHub[1])'
      BY <2>5, <2>6, <3>2 DEF ThirdMessage, NoiseKey
    <3>4. Finishing'
      BY <1>2, <2>5, <2>6, <3>2, <3>3 DEF Finishing
    <3> QED BY <1>1, <3>4 DEF HandshakeInv
  <2>8. CASE hs[noiseHandshake].pattern # "XX"
    <3>1. toHub' = << >> /\ hubKey = NoiseKey(noiseHandshake)
      BY <1>2, <1>4, <2>2, <2>3, <2>8, ThirdStage DEF ReceiveNoise
    <3>2. Finishing'
      BY <1>2, <2>5, <2>6, <3>1 DEF Finishing
    <3> QED BY <1>1, <3>2 DEF HandshakeInv
  <2> QED BY <2>7, <2>8
<1>5. CASE ReceiveNoiseFails
  <2>1. toHub' # << >> => Head(toHub').kind = "MSG3"
    <3>1. CASE UNCHANGED toHub
      BY <1>2, <3>1
    <3>2. CASE FinishPattern
      BY <1>2, <3>2, ThirdStage, FirstFrame
    <3> QED BY <1>5, <3>1, <3>2 DEF ReceiveNoiseFails
  <2>2. Offline'
    BY <1>2, <1>5, <2>1 DEF ReceiveNoiseFails, AbortNoise, Offline, Idle, AtRest
  <2> QED BY <1>1, <2>2 DEF HandshakeInv
<1> QED BY <1>4, <1>5
\* The answer to the envelope is taken up: both ends used one PasswordHandShake.
LEMMA EnvelopeStage ==
  ASSUME TypeOK, HandshakeInv, ReceiveEnvelope \/ ReceiveEnvelopeFails
  PROVE  HandshakeInv'
<1> USE DEF clientVars, noiseVars, protoVars, appVars, hubVars
<1>1. PatternsChosen'
  BY SamePatterns DEF HandshakeInv, ReceiveEnvelope, ReceiveEnvelopeFails
<1>2. CASE ReceiveEnvelope
  <2>1. Idle /\ Fresh /\ toHub = << >> /\ toClient' = << >> /\ Answered
    BY <1>2, TakeStage DEF ReceiveEnvelope
  <2>2. hubKey = LegacyKey(pswdHandshake)
    BY <1>2, <2>1 DEF ReceiveEnvelope, Frame, Answered
  <2>3. SessionKey' = LegacyKey(pswdHandshake) /\ SessionKey' # None
    <3>1. SessionKey' = LegacyKey(pswdHandshake)
      BY <1>2 DEF ReceiveEnvelope, SessionKey
    <3> QED BY <3>1, KeysAreKeys DEF TypeOK
  <2>4. Finishing'
    BY <1>2, <2>1, <2>2, <2>3 DEF ReceiveEnvelope, Finishing, Idle, AtRest
  <2> QED BY <1>1, <2>4 DEF HandshakeInv
<1>3. CASE ReceiveEnvelopeFails /\ Disconnected
  <2>1. AtRest /\ rx = "idle"
    BY <1>3, StageOf DEF ReceiveEnvelopeFails, Greeted, Answered, Idle
  <2>2. Offline'
    BY <1>3, <2>1, GoneStage DEF ReceiveEnvelopeFails
  <2> QED BY <1>1, <2>2 DEF HandshakeInv
<1>4. CASE ReceiveEnvelopeFails /\ toClient' = Tail(toClient) /\ UNCHANGED <<clientVars, toHub>>
  <2>1. Frame("ENVELOPE")
    BY <1>4 DEF ReceiveEnvelopeFails, Frame
  <2>2. Silent'
    BY <1>4, <2>1, TakeStage DEF ReceiveEnvelopeFails, Silent, Idle, Fresh, AtRest
  <2> QED BY <1>1, <2>2 DEF HandshakeInv
<1> QED BY <1>2, <1>3, <1>4 DEF ReceiveEnvelopeFails

\* The HELLO goes out under the key that the hub has, or has after the message
\* before it.
LEMMA FinishStage ==
  ASSUME TypeOK, HandshakeInv, FinishHandshake
  PROVE  HandshakeInv'
<1> USE DEF clientVars, noiseVars, protoVars, appVars, hubVars
<1>1. PatternsChosen' /\ Finishing
  BY SamePatterns, StageOf DEF HandshakeInv, FinishHandshake
<1> DEFINE f == [kind |-> "HELLO", id |-> 0, sealed |-> SessionKey]
<1>2. toHub' = Append(toHub, f)
  BY DEF FinishHandshake, Emit, Sealing, SessionKey
<1>3. /\ SessionKey' = SessionKey /\ hubKey' = hubKey /\ toClient' = toClient /\ link' = link
      /\ rx' = "idle" /\ handshakeEvent' /\ app' = app /\ conn' = conn
  BY DEF FinishHandshake, SessionKey, NoiseKey
<1>4. Idle' /\ toClient' = << >> /\ SessionKey' # None
  BY <1>1, <1>3 DEF Finishing, Idle, AtRest
<1>5. f \in ClientFrames
  <2>1. SessionKey \in Keys \cup {None}
    BY KeysAreKeys DEF SessionKey, TypeOK, Transports
  <2> QED BY <2>1, SessionAssumption DEF ClientFrames, Conns
<1>6. FirstHello(f)' /\ FirstHello(f)
  BY <1>3 DEF FirstHello
<1> HIDE DEF f
<1>7. CASE toHub = << >> /\ hubKey = SessionKey
  <2>1. Len(toHub') = 1 /\ toHub'[1] = f
    BY <1>2, <1>7, FirstFrame
  <2>2. Established'
    BY <1>3, <1>4, <1>6, <1>7, <2>1 DEF Established, FirstHello
  <2> QED BY <1>1, <2>2 DEF HandshakeInv
<1>8. CASE Len(toHub) = 1 /\ ThirdMessage(toHub[1])
  <2>1. Len(toHub') = 2 /\ toHub'[1] = toHub[1] /\ toHub'[2] = f
    BY <1>2, <1>5, <1>8, SecondFrame DEF TypeOK
  <2>2. ThirdMessage(toHub[1])'
    BY <1>3, <1>8, <2>1 DEF ThirdMessage, NoiseKey
  <2>3. Established'
    BY <1>3, <1>4, <1>6, <2>1, <2>2 DEF Established, FirstHello
  <2> QED BY <1>1, <2>3 DEF HandshakeInv
<1> QED BY <1>1, <1>7, <1>8 DEF Finishing

\* wait_for_handshake: it starts a handshake of its own only when nothing is
\* under way.
LEMMA WaitStage ==
  ASSUME TypeOK, HandshakeInv, Unhurried, AppStep
  PROVE  HandshakeInv'
<1> USE DEF clientVars, noiseVars, protoVars, appVars, hubVars
<1> DEFINE AfterEnd == Offline /\ ~Threaded /\ link = "ended"
<1>1. ASSUME AtRest, AtRest', UNCHANGED <<link, rx, handshakeEvent, cryptoKey, noiseTransport,
                noiseVars, protoVars, pinned, hubVars, toClient, toHub>>
      PROVE  HandshakeInv'
  <2>1. PatternsChosen'
    BY <1>1, SamePatterns DEF HandshakeInv
  <2>2. Idle' = Idle /\ Fresh' = Fresh /\ SessionKey' = SessionKey
    BY <1>1 DEF Idle, Fresh, SessionKey, NoiseKey
  <2>3. \A id : NoiseKey(id)' = NoiseKey(id) /\ LegacyKey(id)' = LegacyKey(id)
    BY <1>1 DEF NoiseKey, LegacyKey
  <2>4. \A f : ThirdMessage(f)' = ThirdMessage(f) /\ FirstHello(f)' = FirstHello(f)
    BY <2>2, <2>3 DEF ThirdMessage, FirstHello
  <2>5. CASE Offline \/ Greeted \/ Silent
    BY <1>1, <2>1, <2>2, <2>5 DEF HandshakeInv, Offline, Greeted, Silent
  <2>6. CASE Deciding
    BY <1>1, <2>1, <2>2, <2>6 DEF HandshakeInv, Deciding, ShouldUseNoise, SelectPattern
  <2>7. CASE Asked
    BY <1>1, <2>1, <2>2, <2>7 DEF HandshakeInv, Asked
  <2>8. CASE Answered
    BY <1>1, <2>1, <2>2, <2>3, <2>8 DEF HandshakeInv, Answered
  <2>9. CASE Finishing
    BY <1>1, <2>1, <2>2, <2>4, <2>9 DEF HandshakeInv, Finishing
  <2>10. CASE Established
    BY <1>1, <2>1, <2>2, <2>4, <2>10 DEF HandshakeInv, Established
  <2>11. ~Retrying
    BY <1>1 DEF AtRest, Retrying
  <2> QED BY <2>5, <2>6, <2>7, <2>8, <2>9, <2>10, <2>11 DEF HandshakeInv
<1>2. CASE GiveUp \/ WaitReturns
  <2>1. AtRest /\ AtRest'
    BY <1>2 DEF GiveUp, WaitReturns, TimedOut, AtRest, AppIdle
  <2> QED BY <1>1, <1>2, <2>1 DEF GiveUp, WaitReturns
<1>3. CASE Retry
  <2>1. AtRest /\ app.pc = "waiting" /\ ~handshakeEvent
    BY <1>3 DEF Retry, TimedOut, AtRest
  <2>2. CASE ~Connected
    <3>1. app' = app
      BY <1>3, <2>2 DEF Retry
    <3> QED BY <1>1, <1>3, <2>1, <3>1 DEF Retry, AtRest
  <2>4. CASE link = "ended"
    <3>1. ~Threaded
      <4>1. MaxRetries # 0
        BY <1>3 DEF Retry, MayRetry, TypeOK
      <4> QED BY <4>1 DEF Unhurried
    <3>2. Offline
      BY <2>4, StageOf
    <3>3. Offline'
      BY <1>3, <2>4, <3>1, <3>2 DEF Retry, Offline
    <3>4. PatternsChosen'
      BY <1>3, SamePatterns DEF Retry, HandshakeInv
    <3> QED BY <3>3, <3>4 DEF HandshakeInv
  <2>3. CASE link = "open"
    <3>1. ~Threaded /\ Prompt
      <4>1. MaxRetries # 0
        BY <1>3 DEF Retry, MayRetry, TypeOK
      <4> QED BY <4>1 DEF Unhurried
    <3>2. toClient = << >> /\ toHub = << >> /\ rx = "idle"
      BY <1>3, <3>1 DEF Retry, TimedOut
    <3>3. Silent
      <4>1. ~Offline /\ ~Greeted /\ ~Deciding /\ ~Retrying /\ ~Finishing /\ ~Established
        BY <2>1, <2>3, <3>2 DEF Offline, Greeted, Deciding, Retrying, Finishing, Established
      <4>2. ~Asked /\ ~Answered
        BY <3>2 DEF Asked, Answered
      <4> QED BY <4>1, <4>2 DEF HandshakeInv
    <3>4. app' = AppIdle \/ app'.pc = "starting"
      BY <1>3, <2>3 DEF Retry, StartsWhat, AppIdle, Connected
    <3>5. Silent' \/ Retrying'
      BY <1>3, <3>1, <3>3, <3>4 DEF Retry, Silent, Retrying, Idle, Fresh, AtRest, AppIdle
    <3>6. PatternsChosen'
      BY <1>3, SamePatterns DEF Retry, HandshakeInv
    <3> QED BY <3>5, <3>6 DEF HandshakeInv
  <2> QED BY <2>2, <2>3, <2>4 DEF Connected
<1>4. CASE StartHandshake
  <2>1. Retrying \/ AfterEnd
    BY <1>4, StageOf DEF StartHandshake, AtRest, Offline
  <2>5. app.pc = "starting"
    BY <1>4 DEF StartHandshake
  <2>2. PICK p \in Params : p = app.params
    BY <2>5 DEF TypeOK
  <2>3. CASE /\ ShouldUseNoise(app.params) /\ CreateNoise(app.params)
             /\ app' = [app EXCEPT !.pc = "MSG1", !.id = started']
    <3>1. ShouldUseNoise(p) /\ CreateNoise(p)
      BY <2>2, <2>3 DEF CreateNoise, SelectPattern, ShouldUseNoise
    <3>2. PatternsChosen' /\ started' \in 1 .. started'
      BY <3>1, NewPattern DEF HandshakeInv
    <3>3. app'.pc = "MSG1" /\ app'.id = started'
      BY <2>3 DEF TypeOK
    <3>4. CASE Retrying
      <4>1. Retrying'
        BY <1>4, <3>2, <3>3, <3>4 DEF StartHandshake, Retrying, Fresh
      <4> QED BY <3>2, <4>1 DEF HandshakeInv
    <3>5. CASE AfterEnd
      <4>1. Offline'
        BY <1>4, <3>5 DEF StartHandshake, Offline
      <4> QED BY <3>2, <4>1 DEF HandshakeInv
    <3> QED BY <2>1, <3>4, <3>5
  <2>4. CASE app' = [app EXCEPT !.pc = "ENVELOPE", !.id = pswdHandshake] /\ UNCHANGED noiseVars
    <3>1. app'.pc = "ENVELOPE" /\ app'.id = pswdHandshake
      BY <2>4 DEF TypeOK
    <3>2. PatternsChosen'
      BY <2>4, SamePatterns DEF HandshakeInv
    <3>3. CASE Retrying
      <4>1. Retrying'
        BY <1>4, <3>1, <3>3 DEF StartHandshake, Retrying, Fresh
      <4> QED BY <3>2, <4>1 DEF HandshakeInv
    <3>4. CASE AfterEnd
      <4>1. Offline'
        BY <1>4, <3>4 DEF StartHandshake, Offline
      <4> QED BY <3>2, <4>1 DEF HandshakeInv
    <3> QED BY <2>1, <3>3, <3>4
  <2> QED BY <1>4, <2>3, <2>4 DEF StartHandshake
<1>5. CASE AppEmit
  <2>1. Retrying \/ AfterEnd
    BY <1>5, StageOf DEF AppEmit, AtRest, Offline
  <2>2. PatternsChosen'
    BY <1>5, SamePatterns DEF AppEmit, HandshakeInv
  <2>3. CASE Retrying
    <3>1. app.pc \in {"MSG1", "ENVELOPE"}
      BY <1>5 DEF AppEmit
    <3>2. Sealing(app.pc) = None
      BY <2>3, <3>1 DEF Retrying, Fresh, Sealing
    <3>3. toHub' = Append(<< >>, [kind |-> app.pc, id |-> app.id, sealed |-> None])
      BY <1>5, <2>3, <3>2 DEF AppEmit, Emit, Retrying
    <3>4. Asked'
      BY <1>5, <2>3, <3>1, <3>3, FirstFrame
         DEF AppEmit, AppIdle, Retrying, Asked, Idle, Fresh, AtRest
    <3> QED BY <2>2, <3>4 DEF HandshakeInv
  <2>4. CASE AfterEnd
    <3>1. Offline'
      BY <1>5, <2>4 DEF AppEmit, Offline
    <3> QED BY <2>2, <3>1 DEF HandshakeInv
  <2> QED BY <2>1, <2>3, <2>4
<1>6. ~AppEmitFails
  BY StageOf DEF AppEmitFails, Offline, AtRest, Connected
<1> QED BY <1>2, <1>3, <1>4, <1>5, <1>6 DEF AppStep

\* The hub reads the one frame, or the third message and then the HELLO.
LEMMA HubStage ==
  ASSUME TypeOK, HandshakeInv, HubReads
  PROVE  HandshakeInv'
<1> USE DEF clientVars, noiseVars, protoVars, appVars, hubVars
<1>1. PICK f : f = Head(toHub)
  OBVIOUS
<1>2. /\ toHub # << >> /\ toHub \in Seq(ClientFrames) /\ toHub' = Tail(toHub) /\ link = "open"
      /\ UNCHANGED <<link, rx, app, handshakeEvent, cryptoKey, noiseTransport, noiseVars,
                     protoVars, conn, hub>>
  BY DEF HubReads, TypeOK
<1>3. PatternsChosen'
  BY <1>2, SamePatterns DEF HandshakeInv
<1>4. /\ SessionKey' = SessionKey
      /\ \A id : NoiseKey(id)' = NoiseKey(id) /\ LegacyKey(id)' = LegacyKey(id)
  BY <1>2 DEF SessionKey, NoiseKey, LegacyKey
<1>5. CASE Asked
  <2>1. toHub' = << >> /\ toClient = << >> /\ Idle' /\ Fresh'
    BY <1>2, <1>5, OneFrame DEF Asked, Idle, Fresh, AtRest
  <2>2. CASE f.kind = "MSG1" /\ hub.params.version >= 3
    <3>1. /\ toClient' = Append(<< >>, [kind |-> "MSG2", id |-> f.id])
          /\ hs[f.id].pattern = "KK" => hubKey' = NoiseKey(f.id)
      <4>1. hub.params.version \in Nat
        BY SessionAssumption DEF TypeOK
      <4> QED BY <1>1, <2>1, <2>2, <4>1 DEF HubReads, Answer
    <3>2. f.id \in 1 .. started
      BY <1>1, <1>5, <2>2 DEF Asked
    <3>3. Answered'
      BY <1>2, <1>4, <2>1, <3>1, <3>2, FirstFrame DEF Answered
    <3> QED BY <1>3, <3>3 DEF HandshakeInv
  <2>3. CASE f.kind = "MSG1" /\ ~(hub.params.version >= 3)
    <3>1. toClient' = toClient
      BY <1>1, <2>3 DEF HubReads
    <3>2. Silent'
      BY <2>1, <3>1 DEF Silent
    <3> QED BY <1>3, <3>2 DEF HandshakeInv
  <2>4. CASE f.kind = "ENVELOPE"
    <3>1. /\ toClient' = Append(<< >>, [kind |-> "ENVELOPE", id |-> f.id])
          /\ hub.psk = MyPassword => hubKey' = LegacyKey(f.id)
      BY <1>1, <2>1, <2>4 DEF HubReads, Answer
    <3>2. f.id = pswdHandshake
      BY <1>1, <1>5, <2>4 DEF Asked
    <3>3. Answered'
      BY <1>2, <1>4, <2>1, <3>1, <3>2, FirstFrame DEF Answered
    <3> QED BY <1>3, <3>3 DEF HandshakeInv
  <2> QED BY <1>1, <1>5, <2>2, <2>3, <2>4 DEF Asked
<1>6. ASSUME ThirdMessage(f) PROVE hubKey' = SessionKey' /\ toClient' = toClient
  BY <1>1, <1>4, <1>6 DEF HubReads, ThirdMessage
<1>7. ASSUME FirstHello(f) PROVE hubKey' = hubKey /\ toClient' = toClient
  BY <1>1, <1>7 DEF HubReads, FirstHello
<1>8. CASE Finishing
  <2>1. Len(toHub) = 1 /\ ThirdMessage(toHub[1])
    BY <1>2, <1>8 DEF Finishing
  <2>2. f = toHub[1] /\ toHub' = << >>
    BY <1>1, <1>2, <2>1, OneFrame
  <2>3. Finishing'
    BY <1>2, <1>4, <1>6, <1>8, <2>1, <2>2 DEF Finishing, AtRest
  <2> QED BY <1>3, <2>3 DEF HandshakeInv
<1>9. CASE Established
  <2>1. CASE Len(toHub) = 1 /\ FirstHello(toHub[1])
    <3>1. f = toHub[1] /\ toHub' = << >>
      BY <1>1, <1>2, <2>1, OneFrame
    <3>2. Established'
      BY <1>2, <1>4, <1>7, <1>9, <2>1, <3>1 DEF Established, Idle, AtRest
    <3> QED BY <1>3, <3>2 DEF HandshakeInv
  <2>2. CASE Len(toHub) = 2 /\ ThirdMessage(toHub[1]) /\ FirstHello(toHub[2])
    <3>1. f = toHub[1] /\ Len(toHub') = 1 /\ toHub'[1] = toHub[2]
      BY <1>1, <1>2, <2>2, TwoFrames
    <3>2. FirstHello(toHub[1])'
      BY <1>4, <2>2, <3>1 DEF FirstHello
    <3>3. Established'
      BY <1>2, <1>4, <1>6, <1>9, <2>2, <3>1, <3>2 DEF Established, Idle, AtRest
    <3> QED BY <1>3, <3>3 DEF HandshakeInv
  <2> QED BY <1>2, <1>9, <2>1, <2>2 DEF Established
<1> QED BY <1>2, <1>5, <1>8, <1>9, StageOf

LEMMA InitStage == Init => HandshakeInv
<1> SUFFICES ASSUME Init PROVE HandshakeInv
  OBVIOUS
<1>1. Offline /\ PatternsChosen
  BY DEF Init, Offline, Fresh, AtRest, AppIdle, PatternsChosen
<1> QED BY <1>1 DEF HandshakeInv

LEMMA NextStage ==
  ASSUME TypeOK, HandshakeInv, Unhurried, [Next]_vars
  PROVE  HandshakeInv'
<1>1. CASE UNCHANGED vars
  BY <1>1 DEF vars, clientVars, noiseVars, protoVars, appVars, hubVars, HandshakeInv,
       PatternsChosen, Offline, Greeted, Deciding, Retrying, Silent, Asked, Answered, Finishing,
       Established, Idle, Fresh, AtRest, SessionKey, NoiseKey, LegacyKey, ThirdMessage,
       FirstHello, ShouldUseNoise, SelectPattern
<1> QED BY <1>1, LinkStage, GreetingStage, AskStage, NoiseAnswerStage, EnvelopeStage,
           FinishStage, WaitStage, HubStage DEF Next, RxStep, HubStep

\* Without retries, or with an asyncio client that waits for answers, a handshake
\* is one exchange after the other, across reconnects to any hubs.
THEOREM HandshakeInvariance == Unhurried /\ Spec => []HandshakeInv
<1> SUFFICES ASSUME Unhurried PROVE Spec => []HandshakeInv
  OBVIOUS
<1>1. Init => HandshakeInv
  BY InitStage
<1>2. TypeOK /\ HandshakeInv /\ [Next]_vars => HandshakeInv'
  BY NextStage
<1> QED BY <1>1, <1>2, SessionTypeCorrect, PTL DEF Spec

\* The hub can read the HELLO of such a client: it holds the key of the session
\* the client announces itself in.
THEOREM HelloIsReadable == Unhurried /\ Spec => []HelloReadable
<1>1. TypeOK /\ HandshakeInv => HelloReadable
  <2> SUFFICES ASSUME TypeOK, HandshakeInv, toHub # << >>, Head(toHub).kind = "HELLO"
               PROVE  Head(toHub).sealed # None /\ Head(toHub).sealed = hubKey
    BY DEF HelloReadable
  <2>1. toHub \in Seq(ClientFrames)
    BY DEF TypeOK
  <2>2. link = "open" /\ ~Asked
    BY StageOf DEF Offline, Asked
  <2>3. Finishing \/ Established
    BY <2>2, StageOf
  <2>4. Len(toHub) = 1 /\ FirstHello(toHub[1]) /\ hubKey = SessionKey /\ SessionKey # None
    BY <2>1, <2>3, OneFrame, TwoFrames DEF Finishing, Established, ThirdMessage
  <2> QED BY <2>1, <2>4, OneFrame DEF FirstHello
<1> QED BY HandshakeInvariance, <1>1, SessionTypeCorrect, PTL
=============================================================================
