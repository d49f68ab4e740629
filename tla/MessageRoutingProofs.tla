------------------------ MODULE MessageRoutingProofs ------------------------
(***************************************************************************)
(* Who may speak on the agent's bus, and how long a pinned hub key stays   *)
(* pinned, for any hubs, keys, aliases and peers.                          *)
(***************************************************************************)
EXTENDS MessageRouting, TLAPS

\* A trust mark stems from the last mark_trusted_nodes: on_ping resets it.
MarksFresh == \A p \in Peers : nodes[p].trusted => nodes[p].key \in marked

\* The file and the process agree on the pin of a hub, and a command that will
\* write one back read that one, as long as no command has erased it.
PinsInSync ==
  \A h \in Hubs \ erased :
    /\ file.pins[h] = identity.pins[h]
    /\ cli # None /\ cli.pins[h] # None => cli.pins[h] = file.pins[h]

IdentityTypeOK ==
  /\ identity \in Identities /\ file \in Identities
  /\ cli \in Identities \cup {None}
  /\ erased \subseteq Hubs

-----------------------------------------------------------------------------
(* Node identity *)

\* Pinning keeps the type of an identity, and the pins of the other hubs.
LEMMA PinnedIdentity ==
  ASSUME NEW id \in Identities, NEW h \in Hubs, NEW k \in HubKeys
  PROVE  /\ [id EXCEPT !.pins[h] = k] \in Identities
         /\ [id EXCEPT !.pins[h] = k].pins[h] = k
         /\ \A g \in Hubs : g # h => [id EXCEPT !.pins[h] = k].pins[g] = id.pins[g]
  BY DEF Identities

\* Trusted keys come and go without touching a pin.
LEMMA TrustedIdentity ==
  ASSUME NEW id \in Identities, NEW a \in Aliases, NEW k \in PublicKeys \cup {None}
  PROVE  /\ [id EXCEPT !.trusted[a] = k] \in Identities
         /\ [id EXCEPT !.trusted[a] = k].pins = id.pins
  BY DEF Identities

\* What the client does with its identity keeps the types and the agreement.
LEMMA IdentityStepInSync ==
  ASSUME IdentityTypeOK, PinsInSync, IdentityStep
  PROVE  IdentityTypeOK' /\ PinsInSync'
<1> USE DEF IdentityTypeOK
<1>1. CASE \E h \in Hubs, k \in HubKeys : Pin(h, k)
  <2>1. PICK h \in Hubs, k \in HubKeys : Pin(h, k)
    BY <1>1
  <2>2. /\ identity' = [identity EXCEPT !.pins[h] = k] /\ file' = identity'
        /\ identity.pins[h] = None /\ UNCHANGED <<cli, erased>>
    BY <2>1 DEF Pin, IdentityStep
  <2>3. /\ identity' \in Identities
        /\ \A g \in Hubs : g # h => identity'.pins[g] = identity.pins[g]
    BY <2>2, PinnedIdentity
  <2>4. IdentityTypeOK'
    BY <2>2, <2>3
  <2>5. ASSUME NEW g \in Hubs \ erased', cli' # None, cli'.pins[g] # None
        PROVE  cli'.pins[g] = file'.pins[g]
    BY <2>2, <2>3, <2>5 DEF PinsInSync
  <2>6. PinsInSync'
    BY <2>2, <2>5 DEF PinsInSync
  <2> QED
    BY <2>4, <2>6
<1>2. CASE \E a \in Aliases, k \in PublicKeys : AddTrustedKey(a, k)
  <2>1. PICK a \in Aliases, k \in PublicKeys : AddTrustedKey(a, k)
    BY <1>2
  <2>2. identity' \in Identities /\ identity'.pins = identity.pins
    BY <2>1, TrustedIdentity DEF AddTrustedKey
  <2>3. UNCHANGED <<file, cli, erased>>
    BY <2>1 DEF AddTrustedKey, IdentityStep
  <2> QED
    BY <2>2, <2>3 DEF PinsInSync
<1>3. CASE \E a \in Aliases : RemoveTrustedKey(a)
  <2>1. PICK a \in Aliases : RemoveTrustedKey(a)
    BY <1>3
  <2>2. identity' \in Identities /\ identity'.pins = identity.pins
    BY <2>1, TrustedIdentity DEF RemoveTrustedKey
  <2>3. UNCHANGED <<file, cli, erased>>
    BY <2>1 DEF RemoveTrustedKey, IdentityStep
  <2> QED
    BY <2>2, <2>3 DEF PinsInSync
<1>6. CASE \E keys \in [Aliases -> PublicKeys \cup {None}] : SetTrustedKeys(keys)
  <2>1. identity' \in Identities /\ identity'.pins = identity.pins
    BY <1>6 DEF SetTrustedKeys, Identities
  <2>2. UNCHANGED <<file, cli, erased>>
    BY <1>6 DEF SetTrustedKeys, IdentityStep
  <2> QED
    BY <2>1, <2>2 DEF PinsInSync
<1>4. CASE Save
  BY <1>4 DEF Save, IdentityStep, PinsInSync
<1>5. CASE Reload
  BY <1>5 DEF Reload, IdentityStep, PinsInSync
<1> QED
  BY <1>1, <1>2, <1>3, <1>4, <1>5, <1>6 DEF IdentityStep

\* A command that starts copies the file.
LEMMA CommandReadsInSync ==
  ASSUME IdentityTypeOK, PinsInSync, CommandReads
  PROVE  IdentityTypeOK' /\ PinsInSync'
  BY DEF IdentityTypeOK, PinsInSync, CommandReads

\* A command that ends erases the pins it had not read.
LEMMA CommandSavesInSync ==
  ASSUME IdentityTypeOK, PinsInSync, CommandSaves
  PROVE  IdentityTypeOK' /\ PinsInSync'
<1>1. IdentityTypeOK'
  BY DEF IdentityTypeOK, CommandSaves
<1>2. ASSUME NEW h \in Hubs \ erased'
      PROVE  file'.pins[h] = identity'.pins[h] /\ cli' = None
  <2>1. h \in Hubs \ erased /\ ~(file.pins[h] # None /\ cli.pins[h] = None)
    BY DEF CommandSaves
  <2>2. file.pins[h] = identity.pins[h]
    BY <2>1 DEF PinsInSync
  <2>3. cli.pins[h] = file.pins[h]
    BY <2>1 DEF PinsInSync, CommandSaves
  <2> QED
    BY <2>2, <2>3 DEF CommandSaves
<1> QED
  BY <1>1, <1>2 DEF PinsInSync

-----------------------------------------------------------------------------
(* Routing *)

RoutingInv == RoutingTypeOK /\ MarksFresh /\ PinsInSync

\* A message the agent's bus gets comes in with a way of peers and leaves no
\* destination, so that the catch-all is silent.
LEMMA InjectedQuietly ==
  ASSUME NEW via, NEW way, HandleBus(via, way)
  PROVE  /\ handled' = [via |-> via, way |-> way, verdict |-> "injected"]
         /\ sent' = {} /\ UNCHANGED <<identityVars, nodes, marked, session>>
         /\ ownSite' = "here" \/ ownSite' = ownSite
  BY RoutingAssumption DEF HandleBus, Forwarded, DestinationLeft, KeepTrust

\* What a message may change, whatever its type: the verdict and the session ...
MessageKeeps(way) ==
  /\ sent' = {} /\ UNCHANGED <<identityVars, nodes, marked>>
  /\ ownSite' = "here" \/ ownSite' = ownSite
  /\ session' \in {session, FALSE}
  /\ handled'.way = way

LEMMA HandleBusKeeps ==
  ASSUME NEW via, NEW way, HandleBus(via, way)
  PROVE  MessageKeeps(way) /\ handled'.via = via
<1>1. /\ handled' = [via |-> via, way |-> way, verdict |-> "injected"]
      /\ sent' = {} /\ UNCHANGED <<identityVars, nodes, marked, session>>
      /\ ownSite' = "here" \/ ownSite' = ownSite
  BY InjectedQuietly
<1>2. handled'.via = via /\ handled'.way = way
  BY <1>1
<1> QED
  BY <1>1, <1>2 DEF MessageKeeps

LEMMA DroppedKeeps ==
  ASSUME NEW via, Dropped(via)
  PROVE  MessageKeeps({}) /\ handled'.verdict = "dropped"
  BY DEF MessageKeeps, Dropped, KeepTrust

LEMMA RaisesKeeps ==
  ASSUME NEW via, Raises(via)
  PROVE  MessageKeeps({}) /\ handled'.verdict = "raised"
  BY DEF MessageKeeps, Raises, KeepTrust

LEMMA IntercomKeeps ==
  ASSUME HandleIntercom
  PROVE  MessageKeeps({}) /\ handled'.verdict = "raised"
  BY RaisesKeeps DEF HandleIntercom

\* ... and that keeps the invariant.
LEMMA MessageKeepsInv ==
  ASSUME RoutingInv, NEW way \in SUBSET Peers, MessageKeeps(way)
  PROVE  RoutingInv'
<1>1. RoutingTypeOK'
  BY DEF RoutingInv, RoutingTypeOK, MessageKeeps, identityVars
<1>2. MarksFresh'
  BY DEF RoutingInv, MarksFresh, MessageKeeps
<1>3. PinsInSync'
  BY DEF RoutingInv, PinsInSync, MessageKeeps, identityVars
<1> QED
  BY <1>1, <1>2, <1>3 DEF RoutingInv

\* A PROPAGATE gets to the bus only on a way with a peer that is trusted, now or
\* at the last marking.
LEMMA InjectionEarned ==
  ASSUME MarksFresh, NEW m, m.source \in Peers \cup {None}, m.hops \subseteq Peers, Injects(m)
  PROVE  /\ Way(m) \subseteq Peers
         /\ \E p \in Way(m) : nodes[p].key \in Trusted \cup marked
<1>1. CASE IsPeerTrusted(m.source)
  BY <1>1 DEF IsPeerTrusted, MarksFresh, Way
<1>2. CASE \E p \in m.hops : nodes[p].key \in Trusted
  BY <1>2 DEF Way
<1> QED
  BY <1>1, <1>2 DEF Injects, IsSourceTrusted, Way

\* What arrives in a frame still has a source and a route of peers.
LEMMA ReceivedIsRouted ==
  ASSUME NEW m \in Routed, NEW binary \in BOOLEAN
  PROVE  /\ Received(m, binary).source \in Peers \cup {None}
         /\ Received(m, binary).hops \subseteq Peers
  BY DEF Received, Routed

\* An announcement replaces record and mark.
LEMMA PingKeeps ==
  ASSUME RoutingInv, NEW p \in Peers, NEW k \in PublicKeys \cup {None}, HandlePing(p, k)
  PROVE  RoutingInv' /\ handled' = Nothing
<1> USE DEF RoutingInv, HandlePing
<1>1. nodes' \in [Peers -> NodeInfos]
  <2>1. nodes \in [Peers -> NodeInfos]
    BY DEF RoutingTypeOK
  <2>2. [key |-> k, trusted |-> FALSE, known |-> TRUE] \in NodeInfos
    BY DEF NodeInfos
  <2> QED
    BY <2>1, <2>2 DEF OnPing
<1>2. RoutingTypeOK'
  BY <1>1 DEF RoutingTypeOK, identityVars, Nothing
<1>3. MarksFresh'
  <2>1. CASE UNCHANGED nodes
    BY <2>1 DEF MarksFresh
  <2>2. CASE OnPing(p, k)
    BY <2>2 DEF MarksFresh, OnPing, RoutingTypeOK, NodeInfos
  <2> QED
    BY <2>1, <2>2
<1>4. PinsInSync'
  BY DEF PinsInSync, identityVars
<1> QED
  BY <1>2, <1>3, <1>4

\* Only PROPAGATE has to earn its way to the bus: the other types keep the
\* invariant, and what they inject is not announced as propagated.
OtherType == MessageKeeps({}) /\ (handled'.via # "propagate" \/ handled'.verdict # "injected")

LEMMA RefusedIsOther ==
  ASSUME HandleIntercom \/ \E via \in {"broadcast", "query", "illegal"} : Dropped(via) \/ Raises(via)
  PROVE  OtherType
  BY IntercomKeeps, DroppedKeeps, RaisesKeeps DEF OtherType

LEMMA InjectedIsOther ==
  ASSUME NEW via \in {"bus", "broadcast", "query"}, HandleBus(via, {})
  PROVE  OtherType
<1>1. MessageKeeps({}) /\ handled'.via = via
  BY HandleBusKeeps
<1> QED
  BY <1>1 DEF OtherType

LEMMA BroadcastStep ==
  ASSUME HandleBroadcast
  PROVE  OtherType
<1>1. \/ HandleBus("broadcast", {}) \/ Dropped("broadcast")
      \/ HandleIntercom \/ Raises("broadcast")
  BY DEF HandleBroadcast
<1> QED
  BY <1>1, RefusedIsOther, InjectedIsOther

LEMMA PropagateStep ==
  ASSUME RoutingInv, HandlePropagate
  PROVE  /\ RoutingInv'
         /\ handled'.via = "propagate" /\ handled'.verdict = "injected" =>
              \E p \in handled'.way : nodes[p].key \in Trusted \cup marked
<1> DEFINE Goal == /\ RoutingInv'
                   /\ handled'.via = "propagate" /\ handled'.verdict = "injected" =>
                        \E p \in handled'.way : nodes[p].key \in Trusted \cup marked
<1>1. ASSUME NEW m \in Routed, NEW binary \in BOOLEAN, Injects(Received(m, binary)),
             HandleBus("propagate", Way(Received(m, binary)))
      PROVE  Goal
  <2> DEFINE r == Received(m, binary)
  <2>1. Way(r) \subseteq Peers /\ \E p \in Way(r) : nodes[p].key \in Trusted \cup marked
    BY <1>1, ReceivedIsRouted, InjectionEarned DEF RoutingInv
  <2>2. MessageKeeps(Way(r))
    BY <1>1, HandleBusKeeps
  <2>3. handled'.way = Way(r)
    BY <2>2 DEF MessageKeeps
  <2>4. RoutingInv'
    BY <2>1, <2>2, MessageKeepsInv
  <2> QED
    BY <2>1, <2>3, <2>4
<1>2. ASSUME Dropped("propagate") \/ HandleIntercom \/ Raises("propagate")
      PROVE  Goal
  <2>1. MessageKeeps({}) /\ handled'.verdict # "injected"
    BY <1>2, DroppedKeeps, IntercomKeeps, RaisesKeeps
  <2> QED
    BY <2>1, MessageKeepsInv
<1>3. ASSUME NEW p \in Peers, NEW k \in PublicKeys \cup {None}, HandlePing(p, k)
      PROVE  Goal
  BY <1>3, PingKeeps DEF Nothing
<1> QED
  BY <1>1, <1>2, <1>3 DEF HandlePropagate

\* The whole of what arrives from the hub.
LEMMA ReceiveStep ==
  ASSUME RoutingInv, Receive
  PROVE  /\ RoutingInv'
         /\ handled'.via = "propagate" /\ handled'.verdict = "injected" =>
              \E p \in handled'.way : nodes[p].key \in Trusted \cup marked
<1>1. CASE HandlePropagate
  BY <1>1, PropagateStep
<1>2. CASE ~HandlePropagate
  <2>1. OtherType
    <3>1. \/ HandleBus("bus", {}) \/ HandleBroadcast \/ HandleIntercom
          \/ HandleBus("query", {}) \/ Dropped("query") \/ Raises("query")
          \/ Dropped("illegal")
      BY <1>2 DEF Receive, HandleQuery, HandleIllegal
    <3> QED
      BY <3>1, BroadcastStep, RefusedIsOther, InjectedIsOther
  <2>2. RoutingInv'
    BY <2>1, MessageKeepsInv DEF OtherType
  <2> QED
    BY <2>1, <2>2 DEF OtherType
<1> QED
  BY <1>1, <1>2

\* Marking puts every mark in line with the keys that are trusted now.
LEMMA MarkStep ==
  ASSUME RoutingInv, MarkTrustedNodes
  PROVE  RoutingInv'
<1> USE DEF RoutingInv, MarkTrustedNodes, Quiet, Nothing
<1>1. Trusted \subseteq PublicKeys
  BY DEF RoutingTypeOK, Identities, Trusted
<1>2. nodes' \in [Peers -> NodeInfos]
  <2>1. ASSUME NEW p \in Peers
        PROVE  [nodes[p] EXCEPT !.trusted = nodes[p].key \in Trusted] \in NodeInfos
    <3>1. nodes[p] \in NodeInfos
      BY DEF RoutingTypeOK
    <3>2. (nodes[p].key \in Trusted) \in BOOLEAN
      OBVIOUS
    <3> QED
      BY <3>1, <3>2 DEF NodeInfos
  <2> QED
    BY <2>1
<1>3. RoutingTypeOK'
  BY <1>1, <1>2 DEF RoutingTypeOK, identityVars
<1>4. MarksFresh'
  BY DEF MarksFresh, RoutingTypeOK, NodeInfos
<1>5. PinsInSync'
  BY DEF PinsInSync, identityVars
<1> QED
  BY <1>3, <1>4, <1>5

\* An empty map has no marks.
LEMMA ClearStep ==
  ASSUME RoutingInv, ClearMap
  PROVE  RoutingInv' /\ handled' = Nothing
<1> USE DEF RoutingInv, ClearMap, Quiet
<1>1. RoutingTypeOK'
  BY DEF RoutingTypeOK, identityVars, Unknown, NodeInfos, Nothing
<1>2. MarksFresh' /\ PinsInSync'
  BY DEF MarksFresh, PinsInSync, identityVars, Unknown
<1> QED
  BY <1>1, <1>2

LEMMA SpeakStep ==
  ASSUME RoutingInv, AgentSpeaks \/ Reconnect
  PROVE  RoutingInv' /\ handled' = Nothing
<1> USE DEF RoutingInv, AgentSpeaks, Reconnect, KeepTrust, Quiet
<1>1. handled' = Nothing /\ sent' \subseteq {"bus", "propagate", "escalate"}
  BY DEF Forwarded
<1>2. RoutingTypeOK'
  BY <1>1 DEF RoutingTypeOK, identityVars, Nothing
<1>3. MarksFresh' /\ PinsInSync'
  BY DEF MarksFresh, PinsInSync, identityVars
<1> QED
  BY <1>1, <1>2, <1>3

\* A new process reads the file and knows nobody.
LEMMA RestartStep ==
  ASSUME RoutingInv, Restart
  PROVE  RoutingInv' /\ handled' = Nothing
<1> USE DEF RoutingInv, Restart, Reload, Quiet
<1>1. RoutingTypeOK'
  BY DEF RoutingTypeOK, Unknown, NodeInfos, Nothing
<1>2. MarksFresh' /\ PinsInSync'
  BY DEF MarksFresh, PinsInSync, Unknown
<1> QED
  BY <1>1, <1>2

LEMMA IdentifyStep ==
  ASSUME RoutingInv, Identify
  PROVE  RoutingInv' /\ handled' = Nothing
<1>1. IdentityTypeOK /\ PinsInSync
  BY DEF RoutingInv, RoutingTypeOK, IdentityTypeOK
<1>2. IdentityTypeOK' /\ PinsInSync'
  BY <1>1, IdentityStepInSync, CommandReadsInSync, CommandSavesInSync DEF Identify
<1>3. handled' = Nothing /\ sent' = {} /\ UNCHANGED <<nodes, marked, session, ownSite>>
  BY DEF Identify, Quiet
<1>4. RoutingTypeOK'
  BY <1>2, <1>3 DEF RoutingInv, RoutingTypeOK, IdentityTypeOK, Nothing
<1>5. MarksFresh'
  BY <1>3 DEF RoutingInv, MarksFresh
<1> QED
  BY <1>2, <1>3, <1>4, <1>5 DEF RoutingInv

\* The inductive invariant, and what it says of every step.
LEMMA RoutingInvInit == Init => RoutingInv
  BY DEF Init, IdentityInit, RoutingInit, RoutingInv, RoutingTypeOK, MarksFresh, PinsInSync,
         Identities, NodeInfos, Unknown, Nothing

TrustStep ==
  handled'.via = "propagate" /\ handled'.verdict = "injected" =>
    \E p \in handled'.way : nodes[p].key \in Trusted \cup marked

LEMMA RoutingStep ==
  ASSUME RoutingInv, Next
  PROVE  RoutingInv' /\ TrustStep
<1>1. CASE Receive
  BY <1>1, ReceiveStep DEF TrustStep
<1>2. CASE MarkTrustedNodes
  BY <1>2, MarkStep DEF MarkTrustedNodes, Quiet, Nothing, TrustStep
<1>3. CASE AgentSpeaks \/ Reconnect
  BY <1>3, SpeakStep DEF Nothing, TrustStep
<1>4. CASE Restart
  BY <1>4, RestartStep DEF Nothing, TrustStep
<1>5. CASE Identify
  BY <1>5, IdentifyStep DEF Nothing, TrustStep
<1>6. CASE ClearMap
  BY <1>6, ClearStep DEF Nothing, TrustStep
<1> QED
  BY <1>1, <1>2, <1>3, <1>4, <1>5, <1>6 DEF Next

LEMMA RoutingStutter ==
  ASSUME RoutingInv, UNCHANGED vars
  PROVE  RoutingInv'
  BY DEF vars, routingVars, identityVars, RoutingInv, RoutingTypeOK, MarksFresh, PinsInSync

\* The invariant of message routing: types, marks that stem from a marking, and
\* pins on which file, process and commands agree.
THEOREM RoutingInvariance == Spec => []RoutingInv
<1>1. Init => RoutingInv
  BY RoutingInvInit
<1>2. RoutingInv /\ [Next]_vars => RoutingInv'
  BY RoutingStep, RoutingStutter
<1> QED
  BY <1>1, <1>2, PTL DEF Spec

\* Every part of the routing state keeps its type, whatever arrives.
THEOREM RoutingTypeCorrect == Spec => []RoutingTypeOK
<1>1. RoutingInv => RoutingTypeOK
  BY DEF RoutingInv
<1> QED
  BY <1>1, RoutingInvariance, PTL

\* No PROPAGATE is injected without a trusted peer on its way, whatever peers
\* announce, however trusted keys come and go, and across restarts.
THEOREM SomebodyOnTheWayTrusted == Spec => TrustedOnTheWay
<1>1. RoutingInv /\ [Next]_vars => [TrustStep]_vars
  BY RoutingStep
<1>2. TrustedOnTheWay <=> [][TrustStep]_vars
  BY DEF TrustedOnTheWay, TrustStep
<1> QED
  BY <1>1, <1>2, RoutingInvariance, PTL DEF Spec

\* What forgets a pin is a command, in one step of any kind.
LEMMA PinStep ==
  ASSUME RoutingInv, Next, NEW h \in Hubs,
         identity.pins[h] # None, identity'.pins[h] # identity.pins[h]
  PROVE  h \in erased
<1>1. identity' # identity
  OBVIOUS
<1>2. ~Receive
  <2>1. ASSUME HandlePropagate PROVE UNCHANGED identity
    <3>1. ASSUME NEW via, NEW way, HandleBus(via, way) \/ Dropped(via) \/ Raises(via)
          PROVE  UNCHANGED identity
      BY <3>1 DEF HandleBus, Dropped, Raises, KeepTrust, identityVars
    <3> QED
      BY <2>1, <3>1 DEF HandlePropagate, HandleIntercom, HandlePing, identityVars
  <2>2. ASSUME OtherType PROVE UNCHANGED identity
    BY <2>2 DEF OtherType, MessageKeeps, identityVars
  <2>3. ASSUME Receive, ~HandlePropagate PROVE OtherType
    <3>1. \/ HandleBus("bus", {}) \/ HandleBroadcast \/ HandleIntercom
          \/ HandleBus("query", {}) \/ Dropped("query") \/ Raises("query")
          \/ Dropped("illegal")
      BY <2>3 DEF Receive, HandleQuery, HandleIllegal
    <3> QED
      BY <3>1, BroadcastStep, RefusedIsOther, InjectedIsOther
  <2> QED
    BY <1>1, <2>1, <2>2, <2>3
<1>3. ~MarkTrustedNodes /\ ~ClearMap /\ ~AgentSpeaks /\ ~Reconnect
  BY <1>1 DEF MarkTrustedNodes, ClearMap, AgentSpeaks, Reconnect, KeepTrust, identityVars
<1>4. CASE Restart \/ Reload
  BY <1>4 DEF Restart, Reload, RoutingInv, PinsInSync
<1>5. CASE Identify /\ ~Reload
  <2>1. IdentityStep
    BY <1>1, <1>5 DEF Identify, CommandReads, CommandSaves
  <2>2. ASSUME NEW g \in Hubs, NEW k \in HubKeys, Pin(g, k) PROVE FALSE
    <3>1. identity \in Identities
      BY DEF RoutingInv, RoutingTypeOK
    <3>2. g # h => identity'.pins[h] = identity.pins[h]
      BY <2>2, <3>1, PinnedIdentity DEF Pin
    <3> QED
      BY <2>2, <3>2 DEF Pin
  <2>3. identity \in Identities
    BY DEF RoutingInv, RoutingTypeOK
  <2>4. ASSUME NEW a \in Aliases, NEW k \in PublicKeys, AddTrustedKey(a, k) PROVE FALSE
    BY <2>3, <2>4, TrustedIdentity DEF AddTrustedKey
  <2>5. ASSUME NEW a \in Aliases, RemoveTrustedKey(a) PROVE FALSE
    BY <2>3, <2>5, TrustedIdentity DEF RemoveTrustedKey
  <2>6. ASSUME NEW keys, SetTrustedKeys(keys) PROVE FALSE
    BY <2>3, <2>6 DEF SetTrustedKeys, Identities
  <2> QED
    BY <1>1, <1>5, <2>1, <2>2, <2>4, <2>5, <2>6 DEF IdentityStep, Save
<1> QED
  BY <1>2, <1>3, <1>4, <1>5 DEF Next

PinKept ==
  \A h \in Hubs : identity.pins[h] # None /\ identity'.pins[h] # identity.pins[h] => h \in erased

\* A pinned hub key outlives saves, reloads, restarts and every message, unless
\* a command that read the file earlier has erased it.
THEOREM PinKeptWithoutCommand == Spec => PinForgottenOnlyByCommand
<1>1. RoutingInv /\ [Next]_vars => [PinKept]_identityVars
  BY PinStep DEF PinKept, vars
<1>2. PinForgottenOnlyByCommand <=> [][PinKept]_identityVars
  BY DEF PinForgottenOnlyByCommand, PinKept
<1> QED
  BY <1>1, <1>2, RoutingInvariance, PTL DEF Spec

\* Nothing that is injected goes back to the hub in the same step.
THEOREM InjectionIsQuiet == Spec => NoEcho
<1>1. RoutingInv /\ Next => (handled'.verdict = "injected" => sent' = {})
  <2> SUFFICES ASSUME RoutingInv, Next, handled'.verdict = "injected" PROVE sent' = {}
    OBVIOUS
  <2>1. CASE Receive
    <3>1. ASSUME NEW via, NEW way, HandleBus(via, way) PROVE sent' = {}
      BY <3>1, InjectedQuietly
    <3>2. ASSUME NEW via, Dropped(via) \/ Raises(via) PROVE sent' = {}
      BY <3>2 DEF Dropped, Raises
    <3>3. ASSUME NEW p, NEW k, HandlePing(p, k) PROVE FALSE
      BY <3>3 DEF HandlePing, Nothing
    <3> QED
      BY <2>1, <3>1, <3>2, <3>3 DEF Receive, HandleBroadcast, HandlePropagate, HandleQuery,
         HandleIntercom, HandleIllegal
  <2>2. CASE MarkTrustedNodes \/ ClearMap \/ AgentSpeaks \/ Reconnect \/ Restart \/ Identify
    BY <2>2 DEF MarkTrustedNodes, ClearMap, AgentSpeaks, Reconnect, Restart, Identify, Quiet, Nothing
  <2> QED
    BY <2>1, <2>2 DEF Next
<1>2. NoEcho <=> [][handled'.verdict = "injected" => sent' = {}]_vars
  BY DEF NoEcho
<1> QED
  BY <1>1, <1>2, RoutingInvariance, PTL DEF Spec
=============================================================================
