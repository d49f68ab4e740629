-------------------------- MODULE SessionEmitProofs --------------------------
(***************************************************************************)
(* TLAPS proofs about sending on a Noise session, for any set of callers,  *)
(* any number of connections, and either kind of client.                   *)
(***************************************************************************)
EXTENDS SessionEmit, TLAPS

USE EmitAssumption

LEMMA InitEmit == Init => EmitInv
<1> SUFFICES ASSUME Init PROVE EmitInv
  OBVIOUS
<1>1. /\ up \in BOOLEAN /\ ~up /\ open \in BOOLEAN /\ ~open
      /\ made = {}
  BY DEF Init
<1>2. TypeOK
  BY <1>1 DEF Init, TypeOK, Clear, Callers
<1>3. NonceUnique
  BY DEF Init, NonceUnique, Clear
<1>4. LinkInv
  BY <1>1 DEF LinkInv
<1> QED BY <1>2, <1>3, <1>4 DEF EmitInv

\* The connection callbacks touch no frame and no counter.
LEMMA OpenStep ==
  ASSUME EmitInv, OnOpen
  PROVE  EmitInv'
<1>0. TypeOK /\ NonceUnique /\ LinkInv
  BY DEF EmitInv
<1>1. /\ conn' = conn + 1 /\ conn' \in Conns /\ conn' \in 0 .. MaxConns
      /\ open' \in BOOLEAN /\ open' /\ up' \in BOOLEAN /\ up'
      /\ made' = made
  BY <1>0 DEF OnOpen, TypeOK, Conns
<1>2. TypeOK'
  BY <1>0, <1>1 DEF OnOpen, TypeOK
<1>3. NonceUnique'
  BY <1>0 DEF NonceUnique, OnOpen
<1>4. made' \subseteq 1 .. conn'
  BY <1>0, <1>1 DEF LinkInv, TypeOK
<1>5. LinkInv'
  BY <1>1, <1>4 DEF LinkInv
<1> QED BY <1>2, <1>3, <1>5 DEF EmitInv

LEMMA CloseStep ==
  ASSUME EmitInv, OnClose \/ OnCleanClose \/ Close
  PROVE  EmitInv'
<1>0. TypeOK /\ NonceUnique /\ LinkInv
  BY DEF EmitInv
<1>1. /\ UNCHANGED <<threaded, conn, nonce, made, pc, frame, hubNext>>
      /\ wire' = << >> /\ open' \in BOOLEAN /\ ~open'
  BY DEF OnClose, OnCleanClose, Close, ForgetSession
<1>2. \/ up' = FALSE /\ transport' = 0
      \/ up' = up /\ transport' = transport /\ ~threaded
  BY DEF OnClose, OnCleanClose, Close, ForgetSession
<1>3. TypeOK'
  <2>1. transport' = 0 \/ transport' = transport
    BY <1>2
  <2>2. transport' \in 0 .. MaxConns
    BY <1>0, <2>1 DEF TypeOK
  <2>3. up' = FALSE \/ up' = up
    BY <1>2
  <2>4. up' \in BOOLEAN
    BY <1>0, <2>3, Zenon DEF TypeOK
  <2>5. wire' \in Seq([by: Callers, gen: 0 .. MaxConns, n: Nat])
    BY <1>1
  <2> QED BY <1>0, <1>1, <2>2, <2>4, <2>5 DEF TypeOK
<1>4. NonceUnique'
  BY <1>0, <1>1 DEF NonceUnique
<1>5. LinkInv'
  <2>1. CASE up' = FALSE
    BY <1>0, <1>1, <2>1 DEF LinkInv
  <2>2. CASE up' = up /\ ~threaded
    BY <1>0, <1>1, <2>2 DEF LinkInv
  <2> QED BY <1>2, <2>1, <2>2
<1> QED BY <1>3, <1>4, <1>5 DEF EmitInv

LEMMA EstablishStep ==
  ASSUME EmitInv, Establish
  PROVE  EmitInv'
<1>0. TypeOK /\ NonceUnique /\ LinkInv
  BY DEF EmitInv
<1>1. /\ conn \in Conns /\ conn \in Callers
      /\ UNCHANGED <<threaded, conn, open, up, nonce, frame, wire, hubNext>>
      /\ transport' = conn /\ made' = made \cup {conn}
      /\ pc' = [pc EXCEPT ![conn] = "called"]
  BY <1>0 DEF Establish, TransportOfConn, LinkInv, Callers
<1>2. TypeOK'
  BY <1>0, <1>1 DEF TypeOK, Conns
<1>3. NonceUnique'
  BY <1>0, <1>1 DEF NonceUnique
<1>4. LinkInv'
  BY <1>0, <1>1 DEF LinkInv, Conns, TypeOK
<1> QED BY <1>2, <1>3, <1>4 DEF EmitInv

\* encrypt_frame takes a counter no other frame of the session has.
LEMMA EncryptStep ==
  ASSUME EmitInv, NEW t \in Callers, EncryptFrame(t)
  PROVE  EmitInv'
<1> DEFINE c == transport
           f == [gen |-> c, n |-> nonce[c]]
<1>0. TypeOK /\ NonceUnique /\ LinkInv
  BY DEF EmitInv
<1>1. c \in Conns /\ nonce[c] \in Nat
  BY <1>0 DEF EncryptFrame, TypeOK, Conns
<1>2. /\ frame' = [frame EXCEPT ![t] = f]
      /\ nonce' = [nonce EXCEPT ![c] = nonce[c] + 1]
      /\ UNCHANGED <<threaded, conn, open, up, transport, made, wire, hubNext>>
      /\ pc' = [pc EXCEPT ![t] = "sealed"]
  BY DEF EncryptFrame, AdvanceNonce, linkVars
<1>3. f \in [gen: 0 .. MaxConns, n: Nat]
  BY <1>1 DEF Conns
<1>4. TypeOK'
  BY <1>0, <1>1, <1>2, <1>3 DEF TypeOK, InEmit
<1>5. \A u \in Callers \ {t} : frame'[u] = frame[u] /\ frame[u] \in [gen: 0 .. MaxConns, n: Nat]
  BY <1>0, <1>2 DEF TypeOK
<1>6. frame'[t].gen = c /\ frame'[t].n = nonce[c] /\ frame'[t] = f
  BY <1>0, <1>2 DEF TypeOK
<1>7. \A d \in Conns : nonce[d] \in Nat /\ nonce'[d] \in Nat /\ nonce'[d] >= nonce[d]
  BY <1>0, <1>1, <1>2 DEF TypeOK
<1>8. nonce'[c] = nonce[c] + 1
  BY <1>0, <1>1, <1>2 DEF TypeOK
<1>9. \A u \in Callers \ {t} : frame[u] # f
  <2> SUFFICES ASSUME NEW u \in Callers \ {t}, frame[u] = f PROVE FALSE
    OBVIOUS
  <2>1. frame[u].gen = c /\ frame[u].n = nonce[c] /\ c # 0
    BY <1>1 DEF Conns
  <2> QED BY <1>0, <1>1, <2>1 DEF NonceUnique
<1>10. ASSUME NEW u \in Callers, frame'[u].gen # 0
       PROVE /\ frame'[u].n < nonce'[frame'[u].gen]
             /\ \A v \in Callers \ {u} : frame'[v] # frame'[u]
  <2>1. CASE u = t
    BY <1>1, <1>5, <1>6, <1>8, <1>9, <2>1
  <2>2. CASE u # t
    <3>1. frame'[u] = frame[u] /\ frame[u].gen \in Conns /\ frame[u].n \in Nat
      BY <1>5, <1>10, <2>2 DEF Conns
    <3>2. frame[u].n < nonce[frame[u].gen]
      BY <1>0, <3>1 DEF NonceUnique, Conns
    <3>3. frame'[u].n < nonce'[frame'[u].gen]
      <4>1. PICK d \in Conns : d = frame[u].gen
        BY <3>1
      <4>2. nonce'[d] \in Nat /\ nonce[d] \in Nat /\ nonce'[d] >= nonce[d]
        BY <1>7
      <4> QED BY <3>1, <3>2, <4>1, <4>2
    <3>4. ASSUME NEW v \in Callers \ {u} PROVE frame'[v] # frame'[u]
      <4>1. CASE v = t
        BY <1>6, <1>9, <2>2, <3>1, <4>1
      <4>2. CASE v # t
        <5>1. frame'[v] = frame[v] /\ frame[u].gen # 0
          BY <1>5, <3>1, <4>2 DEF Conns
        <5> QED BY <1>0, <3>1, <5>1 DEF NonceUnique
      <4> QED BY <4>1, <4>2
    <3> QED BY <3>3, <3>4
  <2> QED BY <2>1, <2>2
<1> QED BY <1>0, <1>2, <1>4, <1>10 DEF EmitInv, NonceUnique, LinkInv

\* The other steps of emit: no frame is sealed.
LEMMA CallerStep ==
  ASSUME EmitInv, NEW t \in Callers,
         EmitChecks(t) \/ EmitTimesOut(t) \/ EmitRaises(t) \/ SendFrame(t)
  PROVE  EmitInv'
<1>0. TypeOK /\ NonceUnique /\ LinkInv
  BY DEF EmitInv
<1>1. UNCHANGED <<threaded, conn, open, up, transport, made, nonce, hubNext>>
  BY DEF EmitChecks, EmitTimesOut, EmitRaises, SendFrame, linkVars
<1>2. frame' = frame \/ frame' = [frame EXCEPT ![t] = Clear]
  BY DEF EmitChecks, EmitTimesOut, EmitRaises, SendFrame
<1>3. wire' \in Seq([by: Callers, gen: 0 .. MaxConns, n: Nat])
  <2>1. CASE UNCHANGED wire
    BY <1>0, <2>1 DEF TypeOK
  <2>2. CASE SendFrame(t)
    <3> DEFINE g == [by |-> t, gen |-> frame[t].gen, n |-> frame[t].n]
               W == [by: Callers, gen: 0 .. MaxConns, n: Nat]
    <3>1. g \in W /\ wire \in Seq(W)
      BY <1>0 DEF TypeOK
    <3>2. wire' = Append(wire, g) \/ wire' = wire
      BY <2>2 DEF SendFrame
    <3> HIDE DEF g, W
    <3>3. wire' \in Seq(W)
      BY <3>1, <3>2
    <3> QED BY <3>3 DEF W
  <2>3. UNCHANGED wire \/ SendFrame(t)
    BY DEF EmitChecks, EmitTimesOut, EmitRaises
  <2> QED BY <2>1, <2>2, <2>3
<1>4. pc' \in [Callers -> {"later", "called", "returned", "refused", "crashed"} \cup InEmit]
  <2>1. \E s \in {"checked", "clear", "refused", "crashed", "returned"} :
          pc' = [pc EXCEPT ![t] = s]
    BY DEF EmitChecks, EmitTimesOut, EmitRaises, SendFrame
  <2> QED BY <1>0, <2>1 DEF TypeOK, InEmit
<1>5. frame' \in [Callers -> [gen: 0 .. MaxConns, n: Nat]]
  <2>1. Clear \in [gen: 0 .. MaxConns, n: Nat]
    BY DEF Clear
  <2> QED BY <1>0, <1>2, <2>1 DEF TypeOK
<1>6. TypeOK'
  BY <1>0, <1>1, <1>3, <1>4, <1>5 DEF TypeOK
<1>7. NonceUnique'
  <2>1. CASE frame' = frame
    BY <1>0, <1>1, <2>1 DEF NonceUnique
  <2>2. CASE frame' = [frame EXCEPT ![t] = Clear]
    <3>1. frame'[t] = Clear /\ Clear.gen = 0 /\ \A u \in Callers \ {t} : frame'[u] = frame[u]
      BY <1>0, <2>2 DEF TypeOK, Clear
    <3> QED BY <1>0, <1>1, <3>1 DEF NonceUnique
  <2> QED BY <1>2, <2>1, <2>2
<1> QED BY <1>0, <1>1, <1>6, <1>7 DEF EmitInv, LinkInv

LEMMA HubStep ==
  ASSUME EmitInv, HubAccepts
  PROVE  EmitInv'
<1>0. TypeOK /\ NonceUnique /\ LinkInv
  BY DEF EmitInv
<1> DEFINE W == [by: Callers, gen: 0 .. MaxConns, n: Nat]
<1>1. wire \in Seq(W) /\ wire # << >>
  BY <1>0 DEF TypeOK, HubAccepts
<1>2. Tail(wire) \in Seq(W)
  <2> HIDE DEF W
  <2> QED BY <1>1
<1>3. wire' \in Seq(W) /\ hubNext' \in Nat
  BY <1>0, <1>2 DEF TypeOK, HubAccepts
<1>4. TypeOK'
  BY <1>0, <1>3 DEF TypeOK, HubAccepts, linkVars
<1>5. NonceUnique'
  BY <1>0 DEF NonceUnique, HubAccepts
<1> QED BY <1>0, <1>4, <1>5 DEF EmitInv, HubAccepts, linkVars, LinkInv

LEMMA NextEmit == EmitInv /\ [Next]_vars => EmitInv'
<1> SUFFICES ASSUME EmitInv, [Next]_vars PROVE EmitInv'
  OBVIOUS
<1>1. CASE UNCHANGED vars
  BY <1>1 DEF vars, EmitInv, TypeOK, NonceUnique, LinkInv
<1> QED BY <1>1, OpenStep, CloseStep, EstablishStep, EncryptStep, CallerStep, HubStep
    DEF Next, EmitStep, HubTearsDown

\* The invariant of sending, for any interleaving of callers and callbacks.
THEOREM EmitInvariance == Spec => []EmitInv
BY InitEmit, NextEmit, PTL DEF Spec

\* No counter of a Noise session is used for two messages, however many threads
\* call emit and whenever connections end.
THEOREM NoncesUnique == Spec => []NonceUnique
<1>1. EmitInv => NonceUnique
  BY DEF EmitInv
<1> QED BY EmitInvariance, <1>1, PTL

-----------------------------------------------------------------------------
(* The asyncio client *)

LEMMA InitAsync == Init => AsyncInv
<1> SUFFICES ASSUME Init PROVE AsyncInv
  OBVIOUS
<1>1. transport = 0 /\ wire = << >>
  BY DEF Init
<1>2. \A t \in Callers : pc[t] \in {"later", "called"}
  BY DEF Init
<1>3. OneInEmit /\ InEmitIsCurrent
  BY <1>2 DEF OneInEmit, InEmitIsCurrent, InEmit
<1>4. SessionIsCurrent /\ SealedIsCurrent /\ OneSessionInOrder
  BY <1>1 DEF SessionIsCurrent, SealedIsCurrent, OneSessionInOrder
<1> QED BY <1>3, <1>4 DEF AsyncInv

\* The callbacks of a connection run between two calls of emit, and leave
\* nothing on the wire.
LEMMA AsyncOpenClose ==
  ASSUME EmitInv, AsyncInv, OnOpen \/ OnClose \/ OnCleanClose \/ Close
  PROVE  AsyncInv'
<1>1. /\ wire' = << >> /\ UNCHANGED <<threaded, made, pc, frame>>
      /\ ~Uninterrupted
  BY DEF OnOpen, OnClose, OnCleanClose, Close, ForgetSession, CallbackMayRun
<1>2. SessionIsCurrent'
  <2>1. CASE transport' = 0
    BY <2>1 DEF SessionIsCurrent
  <2>2. CASE OnCleanClose
    BY <2>2 DEF OnCleanClose, AsyncInv, SessionIsCurrent
  <2>3. CASE OnOpen /\ transport # 0
    <3>1. /\ transport' = transport /\ up' = TRUE /\ conn' = conn + 1
          /\ ~open
      BY <2>3 DEF OnOpen
    <3>2. made \subseteq 1 .. conn /\ conn \in Nat /\ (threaded /\ up => open)
      BY DEF EmitInv, LinkInv, TypeOK
    <3>3. conn' \notin made
      BY <3>1, <3>2
    <3>4. ~threaded /\ transport \in made
      BY <2>3, <3>1, <3>2 DEF AsyncInv, SessionIsCurrent
    <3> QED BY <1>1, <3>1, <3>3, <3>4 DEF SessionIsCurrent
  <2> QED BY <2>1, <2>2, <2>3 DEF OnOpen, OnClose, Close, ForgetSession
<1>3. ~threaded => \A t \in Callers : pc[t] \notin InEmit
  BY <1>1 DEF Uninterrupted
<1>4. "checked" \in InEmit /\ "clear" \in InEmit /\ "sealed" \in InEmit
  BY DEF InEmit
<1> QED
  BY <1>1, <1>2, <1>3, <1>4
     DEF AsyncInv, SealedIsCurrent, OneInEmit, InEmitIsCurrent, OneSessionInOrder

\* A handshake is completed only while nothing is sealed.
LEMMA AsyncEstablish ==
  ASSUME EmitInv, AsyncInv, Establish
  PROVE  AsyncInv'
<1>1. /\ open /\ ~Uninterrupted /\ transport = 0
      /\ transport' = conn /\ made' = made \cup {conn}
      /\ pc' = [pc EXCEPT ![conn] = "called"]
      /\ UNCHANGED <<threaded, conn, up, nonce, frame, wire>>
  BY DEF Establish, TransportOfConn, CallbackMayRun
<1>2. TypeOK /\ up
  BY <1>1 DEF EmitInv, LinkInv
<1>3. ~threaded => \A t \in Callers : pc'[t] \notin InEmit
  BY <1>1, <1>2 DEF Uninterrupted, TypeOK, InEmit
<1>4. "checked" \in InEmit /\ "clear" \in InEmit /\ "sealed" \in InEmit
  BY DEF InEmit
<1>5. SessionIsCurrent'
  BY <1>1, <1>2 DEF SessionIsCurrent
<1>6. ~threaded => \A i \in DOMAIN wire : wire[i].gen = 0
  BY <1>1 DEF AsyncInv, SealedIsCurrent
<1> QED
  BY <1>1, <1>3, <1>4, <1>5, <1>6
     DEF AsyncInv, SealedIsCurrent, OneInEmit, InEmitIsCurrent, OneSessionInOrder

\* A step of the caller that is inside emit, or enters it while nobody is.
LEMMA OthersOutside ==
  ASSUME EmitInv, AsyncInv, ~threaded, NEW t \in Callers, MayRun(t)
  PROVE  \A u \in Callers \ {t} : pc[u] \notin InEmit
BY DEF MayRun

LEMMA AsyncEnterOrLeave ==
  ASSUME EmitInv, AsyncInv, NEW t \in Callers,
         EmitChecks(t) \/ EmitTimesOut(t) \/ EmitRaises(t)
  PROVE  AsyncInv'
<1>1. /\ MayRun(t)
      /\ UNCHANGED <<threaded, conn, open, up, transport, made, nonce, wire>>
  BY DEF EmitChecks, EmitTimesOut, EmitRaises, linkVars
<1>2. TypeOK
  BY DEF EmitInv
<1>3. \A u \in Callers \ {t} : pc'[u] = pc[u] /\ frame'[u] = frame[u]
  BY <1>2 DEF EmitChecks, EmitTimesOut, EmitRaises, TypeOK
<1>4. \/ pc'[t] \in {"refused", "crashed"}
      \/ pc'[t] = "checked" /\ transport # 0
      \/ pc'[t] = "clear" /\ frame'[t].gen = 0
  <2>1. CASE EmitChecks(t)
    <3>1. frame'[t] = Clear /\ pc'[t] = IF HasTransport THEN "checked" ELSE "clear"
      BY <1>2, <2>1 DEF EmitChecks, TypeOK
    <3> QED BY <3>1 DEF HasTransport, Clear
  <2>2. CASE EmitTimesOut(t)
    BY <1>2, <2>2 DEF EmitTimesOut, TypeOK
  <2>3. CASE EmitRaises(t)
    BY <1>2, <2>3 DEF EmitRaises, TypeOK
  <2> QED BY <2>1, <2>2, <2>3
<1>5. ~threaded => \A u \in Callers \ {t} : pc'[u] \notin InEmit
  BY <1>1, <1>3, OthersOutside
<1>6. (~threaded => OneInEmit)'
  BY <1>1, <1>5 DEF OneInEmit
<1>7. (~threaded => InEmitIsCurrent)'
  BY <1>1, <1>4, <1>5 DEF InEmitIsCurrent, InEmit
<1> QED
  BY <1>1, <1>6, <1>7 DEF AsyncInv, SessionIsCurrent, SealedIsCurrent, OneSessionInOrder

\* What is sealed uses the counter after all those on the wire.
LEMMA AsyncEncrypt ==
  ASSUME EmitInv, AsyncInv, NEW t \in Callers, EncryptFrame(t)
  PROVE  AsyncInv'
<1>1. /\ MayRun(t) /\ transport # 0
      /\ UNCHANGED <<threaded, conn, open, up, transport, made, wire>>
      /\ frame' = [frame EXCEPT ![t] = [gen |-> transport, n |-> nonce[transport]]]
      /\ nonce' = [nonce EXCEPT ![transport] = nonce[transport] + 1]
      /\ pc' = [pc EXCEPT ![t] = "sealed"]
  BY DEF EncryptFrame, AdvanceNonce, linkVars
<1>2. TypeOK /\ transport \in Conns /\ nonce[transport] \in Nat
  BY <1>1 DEF EmitInv, TypeOK, Conns
<1>3. SessionIsCurrent'
  BY <1>1 DEF AsyncInv, SessionIsCurrent
<1>4. \A u \in Callers \ {t} : pc'[u] = pc[u]
  BY <1>1, <1>2 DEF TypeOK
<1>5. ~threaded => \A u \in Callers \ {t} : pc'[u] \notin InEmit
  BY <1>1, <1>4, OthersOutside
<1>6. pc'[t] = "sealed" /\ frame'[t].gen = transport /\ frame'[t].n = nonce[transport]
  BY <1>1, <1>2 DEF TypeOK
<1>7. nonce'[transport] = nonce[transport] + 1
  BY <1>1, <1>2 DEF TypeOK
<1>8. (~threaded => SealedIsCurrent)'
  <2> SUFFICES ASSUME ~threaded', NEW i \in DOMAIN wire, wire[i].gen # 0
               PROVE  wire[i].gen = transport /\ wire[i].n < nonce'[transport]
    BY <1>1 DEF SealedIsCurrent
  <2>1. wire[i].gen = transport /\ wire[i].n < nonce[transport]
    BY <1>1 DEF AsyncInv, SealedIsCurrent
  <2>2. wire[i].n \in Nat
    <3> DEFINE W == [by: Callers, gen: 0 .. MaxConns, n: Nat]
    <3>1. wire \in Seq(W)
      BY <1>2 DEF TypeOK
    <3>2. wire[i] \in W
      <4> HIDE DEF W
      <4> QED BY <3>1
    <3> QED BY <3>2
  <2> QED BY <1>2, <1>7, <2>1, <2>2
<1>9. (~threaded => OneInEmit)'
  BY <1>1, <1>5 DEF OneInEmit
<1>10. (~threaded => InEmitIsCurrent)'
  <2>1. ~threaded => \A i \in DOMAIN wire : wire[i].gen # 0 => wire[i].n < frame'[t].n
    BY <1>2, <1>6 DEF AsyncInv, SealedIsCurrent
  <2> QED BY <1>1, <1>5, <1>6, <2>1 DEF InEmitIsCurrent, InEmit
<1> QED BY <1>1, <1>3, <1>8, <1>9, <1>10 DEF AsyncInv, OneSessionInOrder

\* What is sent goes behind everything on the wire, with a higher counter.
LEMMA AsyncSend ==
  ASSUME EmitInv, AsyncInv, NEW t \in Callers, SendFrame(t)
  PROVE  AsyncInv'
<1> DEFINE g == [by |-> t, gen |-> frame[t].gen, n |-> frame[t].n]
           W == [by: Callers, gen: 0 .. MaxConns, n: Nat]
<1>1. /\ MayRun(t) /\ pc[t] \in {"clear", "sealed"}
      /\ UNCHANGED <<threaded, conn, open, up, transport, made, nonce, frame>>
      /\ wire' = IF open THEN Append(wire, g) ELSE wire
      /\ pc' = [pc EXCEPT ![t] = "returned"]
  BY DEF SendFrame, linkVars
<1>2. TypeOK
  BY DEF EmitInv
<1>3. ~threaded => \A u \in Callers : pc'[u] \notin InEmit
  <2>1. \A u \in Callers \ {t} : pc'[u] = pc[u]
    BY <1>1, <1>2 DEF TypeOK
  <2>2. pc'[t] = "returned"
    BY <1>1, <1>2 DEF TypeOK
  <2> QED BY <1>1, <2>1, <2>2, OthersOutside DEF InEmit
<1>4. (~threaded => OneInEmit /\ InEmitIsCurrent)'
  BY <1>1, <1>3 DEF OneInEmit, InEmitIsCurrent, InEmit
<1>5. SessionIsCurrent'
  BY <1>1 DEF AsyncInv, SessionIsCurrent
<1>6. ASSUME ~threaded PROVE (SealedIsCurrent /\ OneSessionInOrder)'
  <2>1. CASE ~open
    BY <1>1, <1>6, <2>1 DEF AsyncInv, SealedIsCurrent, OneSessionInOrder
  <2>2. CASE open
    <3>1. wire \in Seq(W) /\ g \in W
      BY <1>2 DEF TypeOK
    <3>2. /\ Len(wire') = Len(wire) + 1 /\ DOMAIN wire' = 1 .. Len(wire) + 1
          /\ DOMAIN wire = 1 .. Len(wire) /\ Len(wire) \in Nat
          /\ wire'[Len(wire) + 1] = g
          /\ \A i \in DOMAIN wire : wire'[i] = wire[i]
      <4> HIDE DEF g, W
      <4> QED BY <1>1, <2>2, <3>1
    <3>3. g.gen # 0 => /\ pc[t] = "sealed"
                       /\ g.gen = transport /\ g.n < nonce[transport]
                       /\ \A i \in DOMAIN wire : wire[i].gen # 0 => wire[i].n < g.n
      <4>1. g.gen # 0 => frame[t].gen # 0 /\ pc[t] = "sealed"
        BY <1>1, <1>6 DEF AsyncInv, InEmitIsCurrent
      <4>2. frame[t].gen # 0 => frame[t].n < nonce[frame[t].gen]
        BY DEF EmitInv, NonceUnique
      <4> QED BY <1>6, <4>1, <4>2 DEF AsyncInv, InEmitIsCurrent
    <3>4. SealedIsCurrent /\ OneSessionInOrder
      BY <1>6 DEF AsyncInv
    <3>5. SealedIsCurrent'
      <4> SUFFICES ASSUME NEW i \in DOMAIN wire', wire'[i].gen # 0
                   PROVE  wire'[i].gen = transport /\ wire'[i].n < nonce[transport]
        BY <1>1 DEF SealedIsCurrent
      <4>1. CASE i = Len(wire) + 1
        BY <3>2, <3>3, <4>1
      <4>2. CASE i # Len(wire) + 1
        <5>1. i \in DOMAIN wire /\ wire'[i] = wire[i]
          BY <3>2, <4>2
        <5> QED BY <3>4, <5>1 DEF SealedIsCurrent
      <4> QED BY <4>1, <4>2
    <3>6. ASSUME NEW i \in DOMAIN wire', wire'[i].gen # 0,
                 NEW j \in DOMAIN wire', j < i, wire'[j].gen # 0
          PROVE  wire'[j].gen = wire'[i].gen /\ wire'[j].n < wire'[i].n
      <4>1. /\ j \in DOMAIN wire /\ wire'[j] = wire[j]
            /\ wire[j].gen = transport
        BY <3>2, <3>4, <3>6 DEF SealedIsCurrent
      <4>2. CASE i = Len(wire) + 1
        <5> HIDE DEF g
        <5> QED BY <3>2, <3>3, <3>6, <4>1, <4>2
      <4>3. CASE i # Len(wire) + 1
        <5>1. i \in DOMAIN wire /\ wire'[i] = wire[i]
          BY <3>2, <4>3
        <5> QED BY <3>4, <3>6, <4>1, <5>1 DEF OneSessionInOrder
      <4> QED BY <4>2, <4>3
    <3> QED BY <1>1, <3>5, <3>6 DEF OneSessionInOrder, SealedIsCurrent
  <2> QED BY <2>1, <2>2
<1> QED BY <1>1, <1>4, <1>5, <1>6 DEF AsyncInv

LEMMA AsyncHub ==
  ASSUME EmitInv, AsyncInv, HubAccepts
  PROVE  AsyncInv'
<1> DEFINE W == [by: Callers, gen: 0 .. MaxConns, n: Nat]
<1>1. /\ UNCHANGED <<threaded, conn, open, up, transport, made, nonce, pc, frame>>
      /\ wire # << >> /\ wire' = Tail(wire)
  BY DEF HubAccepts, linkVars
<1>2. wire \in Seq(W)
  BY DEF EmitInv, TypeOK
<1>3. \A i \in DOMAIN wire' : i \in Nat /\ i + 1 \in DOMAIN wire /\ wire'[i] = wire[i + 1]
  <2> HIDE DEF W
  <2> QED BY <1>1, <1>2
<1>4. (~threaded => SealedIsCurrent)'
  BY <1>1, <1>3 DEF AsyncInv, SealedIsCurrent
<1>5. (~threaded => InEmitIsCurrent)'
  BY <1>1, <1>3 DEF AsyncInv, InEmitIsCurrent
<1>6. (~threaded => OneSessionInOrder)'
  <2> SUFFICES ASSUME ~threaded', NEW i \in DOMAIN wire', wire'[i].gen # 0,
                      NEW j \in DOMAIN wire', j < i, wire'[j].gen # 0
               PROVE  wire'[j].gen = wire'[i].gen /\ wire'[j].n < wire'[i].n
    BY <1>1 DEF OneSessionInOrder
  <2>1. j + 1 < i + 1
    BY <1>3
  <2> QED BY <1>1, <1>3, <2>1 DEF AsyncInv, OneSessionInOrder
<1> QED BY <1>1, <1>4, <1>5, <1>6 DEF AsyncInv, SessionIsCurrent, OneInEmit

LEMMA NextAsync == EmitInv /\ AsyncInv /\ [Next]_vars => AsyncInv'
<1> SUFFICES ASSUME EmitInv, AsyncInv, [Next]_vars PROVE AsyncInv'
  OBVIOUS
<1>1. CASE UNCHANGED vars
  BY <1>1 DEF vars, AsyncInv, SessionIsCurrent, SealedIsCurrent, OneInEmit, InEmitIsCurrent,
              OneSessionInOrder
<1> QED
  BY <1>1, AsyncOpenClose, AsyncEstablish, AsyncEnterOrLeave, AsyncEncrypt, AsyncSend, AsyncHub
     DEF Next, EmitStep, HubTearsDown

\* One session is in use at a time: the one of the connection, or one that outlived
\* a regular close of the asyncio client's, and that client is inside at most one
\* emit, on that session.
THEOREM AsyncInvariance == Spec => []AsyncInv
BY InitAsync, NextAsync, EmitInvariance, PTL DEF Spec

\* What the asyncio client has put on the wire is of one session and in the order
\* of encryption, whoever calls emit and however connections end; once the
\* handshake of the connection is over, that session is its own.
THEOREM AsyncWireReadable == Spec => []WireReadable
<1>1. AsyncInv => WireReadable
  BY DEF AsyncInv, WireReadable, SealedIsCurrent, SessionIsCurrent
<1> QED BY AsyncInvariance, <1>1, PTL

\* A caller of the asyncio client never finds the session gone between looking
\* at it and encrypting.
THEOREM AsyncEmitNeverCrashes == Spec => []EmitNeverCrashes
<1>1. Init => EmitNeverCrashes
  BY DEF Init, EmitNeverCrashes, Callers
<1>2. EmitInv /\ AsyncInv /\ EmitNeverCrashes /\ [Next]_vars => EmitNeverCrashes'
  <2> SUFFICES ASSUME EmitInv, AsyncInv, EmitNeverCrashes, [Next]_vars, ~threaded',
                      NEW t \in Callers
               PROVE  pc'[t] # "crashed"
    BY DEF EmitNeverCrashes
  <2>1. threaded' = threaded
    BY DEF Next, vars, OnOpen, OnClose, OnCleanClose, Close, ForgetSession, Establish, EmitStep, EmitChecks, EmitTimesOut,
           EncryptFrame, EmitRaises, SendFrame, HubAccepts, HubTearsDown, linkVars
  <2>2. \A u \in Callers : ~EmitRaises(u)
    BY <2>1 DEF EmitRaises, AsyncInv, InEmitIsCurrent
  <2>3. pc[t] # "crashed"
    BY <2>1 DEF EmitNeverCrashes
  <2>4. CASE UNCHANGED pc
    BY <2>3, <2>4
  <2>5. ASSUME NEW u \in Callers, NEW s \in {"called", "checked", "clear", "refused", "sealed", "returned"},
               pc' = [pc EXCEPT ![u] = s]
        PROVE  pc'[t] # "crashed"
    BY <2>3, <2>5 DEF EmitInv, TypeOK
  <2>6. CASE Establish
    <3>1. conn \in Callers /\ pc' = [pc EXCEPT ![conn] = "called"]
      BY <2>6 DEF Establish, EmitInv, LinkInv, Callers
    <3> QED BY <2>5, <3>1
  <2>7. ASSUME NEW u \in Callers, EmitStep(u) PROVE pc'[t] # "crashed"
    BY <2>2, <2>5, <2>7 DEF EmitStep, EmitChecks, EmitTimesOut, EncryptFrame, SendFrame
  <2> QED
    BY <2>4, <2>6, <2>7 DEF Next, vars, OnOpen, OnClose, OnCleanClose, Close, ForgetSession,
                            HubAccepts, HubTearsDown
<1> QED BY EmitInvariance, AsyncInvariance, <1>1, <1>2, PTL DEF Spec
=============================================================================
