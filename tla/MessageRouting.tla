--------------------------- MODULE MessageRouting ---------------------------
(***************************************************************************)
(* What a satellite does with the messages of its hub once the session is  *)
(* up: the handlers of HiveMindSlaveProtocol that put a message on the     *)
(* agent's bus, the trust marks of HiveMapper they consult, and the bridge *)
(* back to the hub, HiveMindSlaveInternalProtocol (protocol.py,            *)
(* hive_map.py).                                                           *)
(*                                                                         *)
(* Handlers run one at a time on the receive thread.  An exception in one  *)
(* reaches the websocket library, which reports it as an error of the      *)
(* connection: on_error forgets the session and the client reconnects.     *)
(* CASCADE has a module of its own (CascadeAggregator), so have the floods *)
(* of PING (PingFlood); here a PING only announces a key.                  *)
(***************************************************************************)
EXTENDS NodeIdentity

CONSTANT Peers   \* other nodes of the hive

ASSUME RoutingAssumption == None \notin Peers \cup {"hub", "us", "here", "there"}

VARIABLES nodes,    \* hive_mapper.nodes: the key a peer announced, its mark
          marked,   \* history: the trusted keys at the last mark_trusted_nodes
          session,  \* is there a session with the hub
          ownSite,  \* site of our own session, as SessionManager knows it
          handled,  \* history: what became of the last message, if just handled
          sent      \* types of the messages this step sent to the hub

routingVars == <<nodes, marked, session, ownSite, handled, sent>>
vars == <<identityVars, routingVars>>

Unknown == [key |-> None, trusted |-> FALSE, known |-> FALSE]
NodeInfos == [key: PublicKeys \cup {None}, trusted: BOOLEAN, known: BOOLEAN]
Nothing == [via |-> "nothing", way |-> {}, verdict |-> "none"]

\* The context of a BUS message: whom it is for, and whose session it carries.
Contexts == [destination: {"hub", "us", None}, ownSession: BOOLEAN]

\* The wrapper of a routed message: where it is to be injected, who sent it, and
\* the nodes that relayed it (hops without source or targets do not count).
Routed == [site: {"here", "there"}, source: Peers \cup {None}, hops: SUBSET Peers]

\* A binary frame holds type, metadata and payload (serialization.py); the JSON
\* form also the site, the source and the route.
Received(m, binary) ==
  IF binary THEN [m EXCEPT !.site = None, !.source = None, !.hops = {}] ELSE m

RoutingInit ==
  /\ nodes = [p \in Peers |-> Unknown]
  /\ marked = {}
  /\ session = TRUE
  /\ ownSite = "here"
  /\ handled = Nothing
  /\ sent = {}

Init == IdentityInit /\ RoutingInit

Quiet == handled' = Nothing /\ sent' = {}
KeepTrust == UNCHANGED <<identityVars, nodes, marked>>

-----------------------------------------------------------------------------
(* Dispatching to the agent's bus, and the bridge back *)

\* handle_outgoing_mycroft, the catch-all of the agent's bus: what is meant for
\* the hub goes there.  (share_bus never reaches the bridge: bind() omits it.)
Forwarded(destination) == IF destination = "hub" THEN {"bus"} ELSE {}

\* Faulty variant: the destination is copied, not moved, to the source.
SourceCopied(c) == c.destination

\* handle_bus makes the destination the source, so that none is left.
DestinationLeft(c) == None

\* handle_bus: the hub cannot move our own session to another site; then the
\* agent's bus gets the message, and so does its catch-all.
HandleBus(via, way) ==
  /\ \E c \in Contexts :
       /\ ownSite' = IF c.ownSession THEN "here" ELSE ownSite
       /\ sent' = Forwarded(DestinationLeft(c))
  /\ handled' = [via |-> via, way |-> way, verdict |-> "injected"]
  /\ UNCHANGED session
  /\ KeepTrust

Dropped(via) ==
  /\ handled' = [via |-> via, way |-> {}, verdict |-> "dropped"]
  /\ sent' = {}
  /\ UNCHANGED <<session, ownSite>>
  /\ KeepTrust

\* A failing assertion or an AttributeError: on_error takes the session down.
Raises(via) ==
  /\ handled' = [via |-> via, way |-> {}, verdict |-> "raised"]
  /\ sent' = {}
  /\ session' = FALSE
  /\ UNCHANGED ownSite
  /\ KeepTrust

\* The payload of an INTERCOM is a dict (HiveMessage.payload) and has no
\* msg_type: the handler's second assertion raises, whatever the target.
HandleIntercom ==
  \E target \in {"us", "them", None} :
    Raises(IF target = "us" THEN "intercom for us" ELSE "intercom")

-----------------------------------------------------------------------------
(* Trust *)

\* Faulty variants of on_ping: the mark stays when the key changes; the record
\* lacks the mark.
KeepsMark(p, k) ==
  nodes' = [nodes EXCEPT ![p] = [key |-> k, trusted |-> @.trusted, known |-> TRUE]]
LacksMark(p, k) == nodes' = [nodes EXCEPT ![p] = [key |-> k, known |-> TRUE]]

\* on_ping replaces the peer's record, and with it the mark.
OnPing(p, k) ==
  nodes' = [nodes EXCEPT ![p] = [key |-> k, trusted |-> FALSE, known |-> TRUE]]

\* The application calls mark_trusted_nodes(identity.trusted_keys).
MarkTrustedNodes ==
  /\ nodes' = [p \in Peers |-> [nodes[p] EXCEPT !.trusted = nodes[p].key \in Trusted]]
  /\ marked' = Trusted
  /\ Quiet
  /\ UNCHANGED <<identityVars, session, ownSite>>

\* HiveMapper.clear, by the application.
ClearMap ==
  /\ nodes' = [p \in Peers |-> Unknown]
  /\ Quiet
  /\ UNCHANGED <<identityVars, marked, session, ownSite>>

IsPeerTrusted(p) == p # None /\ nodes[p].trusted

\* The mark of the source, or any hop whose announced key is trusted now.
IsSourceTrusted(m) ==
  \/ IsPeerTrusted(m.source)
  \/ \E p \in m.hops : nodes[p].key \in Trusted

Way(m) == m.hops \cup ({m.source} \ {None})

-----------------------------------------------------------------------------
(* Handlers: one disjunct per type of the payload *)

\* A message of the hub itself is trusted.
HandleBroadcast ==
  \/ \E m \in Routed, binary \in BOOLEAN :
       \/ Received(m, binary).site = "here" /\ HandleBus("broadcast", {})
       \/ Received(m, binary).site # "here" /\ Dropped("broadcast")
  \/ HandleIntercom
  \/ Raises("broadcast")  \* neither BUS nor INTERCOM

\* handle_ping answers the first PING of a flood; an application that builds a
\* map feeds it, where a repeated PING changes nothing.
HandlePing(p, k) ==
  /\ OnPing(p, k) \/ UNCHANGED nodes
  /\ sent' \in {{}, {"propagate"}}
  /\ handled' = Nothing
  /\ UNCHANGED <<identityVars, marked, session, ownSite>>

Injects(m) == m.site = "here" /\ IsSourceTrusted(m)

HandlePropagate ==
  \/ \E m \in Routed, binary \in BOOLEAN :
       LET r == Received(m, binary)
       IN \/ Injects(r) /\ HandleBus("propagate", Way(r))
          \/ ~Injects(r) /\ Dropped("propagate")
  \/ HandleIntercom
  \/ \E p \in Peers, k \in PublicKeys \cup {None} : HandlePing(p, k)
  \/ Raises("propagate")  \* none of the three

\* An end-of-stream marker is dropped; handle_intercom is given the QUERY and
\* refuses it, like any other type.
HandleQuery == HandleBus("query", {}) \/ Dropped("query") \/ Raises("query")

\* ESCALATE and SHARED_BUS are for hubs: handle_illegal_msg only logs them.
HandleIllegal == Dropped("illegal")

Receive ==
  /\ session
  /\ \/ HandleBus("bus", {})
     \/ HandleBroadcast \/ HandlePropagate \/ HandleQuery
     \/ HandleIntercom \/ HandleIllegal

\* The agent speaks: to the hub through the catch-all, or by hive.send.upstream,
\* where handle_send keeps a BROADCAST back.
AgentSpeaks ==
  /\ \/ \E destination \in {"hub", "us", None} : sent' = Forwarded(destination)
     \/ \E type \in {"escalate", "propagate", "broadcast"} : sent' = {type} \ {"broadcast"}
  /\ handled' = Nothing
  /\ UNCHANGED <<session, ownSite>>
  /\ KeepTrust

\* The client reconnects and handshakes again (SlaveSession); the process may
\* also start over, with the identity in the file and an empty map.
Reconnect ==
  /\ ~session /\ session' = TRUE
  /\ Quiet /\ UNCHANGED ownSite
  /\ KeepTrust
Restart ==
  /\ Reload
  /\ nodes' = [p \in Peers |-> Unknown] /\ marked' = {}
  /\ session' = TRUE /\ ownSite' = "here"
  /\ Quiet
  /\ UNCHANGED <<cli, erased>>

Identify ==
  /\ IdentityStep \/ CommandReads \/ CommandSaves
  /\ Quiet
  /\ UNCHANGED <<nodes, marked, session, ownSite>>

Next ==
  \/ Receive \/ MarkTrustedNodes \/ ClearMap
  \/ AgentSpeaks \/ Reconnect \/ Restart \/ Identify

Spec == Init /\ [][Next]_vars

-----------------------------------------------------------------------------
RoutingTypeOK ==
  /\ identity \in Identities /\ file \in Identities
  /\ cli \in Identities \cup {None}
  /\ erased \subseteq Hubs
  /\ nodes \in [Peers -> NodeInfos]
  /\ marked \subseteq PublicKeys
  /\ session \in BOOLEAN
  /\ ownSite = "here"
  /\ handled.way \subseteq Peers
  /\ sent \subseteq {"bus", "propagate", "escalate"}

\* What _is_source_trusted ensures of an injected PROPAGATE: somebody on its way,
\* its source or a relay, last announced a key that is trusted now or was when the
\* application last called mark_trusted_nodes.  This is less than the docs and the
\* docstrings promise ("only injected if the source peer is trusted",
\* handle_propagate): a trusted relay vouches for a source that is not, and a key
\* withdrawn since the marks were set still counts.
TrustedOnTheWay ==
  [][handled'.via = "propagate" /\ handled'.verdict = "injected" =>
       \E p \in handled'.way : nodes[p].key \in Trusted \cup marked]_vars

\* What the hub injects does not come back to it through the catch-all of the
\* agent's bus, not even a message that names the hub as its destination.
NoEcho == [][handled'.verdict = "injected" => sent' = {}]_vars

\* "INTERCOM messages explicitly targeted at this node (via target_public_key) are
\* always accepted" (FAQ.md).
IntercomTargetedAccepted == handled.via = "intercom for us" => handled.verdict = "injected"
=============================================================================
