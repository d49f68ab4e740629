----------------------------- MODULE PingFlood -----------------------------
(***************************************************************************)
(* PING floods over a hive: handle_propagate/handle_ping of the slave      *)
(* protocol, HiveMapper.check_flood_id and on_ping (hive_map.py), and the  *)
(* "ping" command that starts a flood and maps who answers (scripts.py).   *)
(*                                                                         *)
(* The hub is external: it relays a PROPAGATE to every other satellite, in *)
(* any order.  A node answers the first PING it sees of a flood with a     *)
(* PING of the same flood, which is relayed in turn; only the cache of     *)
(* seen flood ids keeps the hive from answering itself forever.            *)
(***************************************************************************)
EXTENDS Integers, Sequences, FiniteSets

CONSTANTS Nodes,       \* satellites; any of them may run the ping command
          Floods,      \* flood ids
          NoFlood,     \* the empty flood id
          CacheSize,   \* max_size of check_flood_id
          MaxAnswers,  \* bound: answers of one node to one flood
          MaxPings     \* bound: PINGs of floods that are answered once

ASSUME FloodAssumption ==
  /\ NoFlood \notin Floods
  /\ CacheSize \in Nat \ {0}
  /\ MaxAnswers \in Nat \ {0}
  /\ MaxPings \in Nat

VARIABLES
  online,    \* satellites connected to the hub
  starter,   \* who started a flood
  seen,      \* hive_mapper._seen_flood_ids of each node, oldest first
  registered,\* history: the floods a node registered and answered, in order
  mapNodes,  \* nodes in the map the flood's starter builds
  inflight   \* PINGs on their way to a node

vars == <<online, starter, seen, registered, mapNodes, inflight>>

Ids == Floods \cup {NoFlood}
Ping == [to: Nodes, from: Nodes, flood: Ids, nth: 0 .. MaxAnswers]

Init ==
  /\ online \in {ns \in SUBSET Nodes : Cardinality(ns) > 1}
  /\ starter = [f \in Ids |-> {}]
  /\ seen = [n \in Nodes |-> << >>]
  /\ registered = [n \in Nodes |-> << >>]
  /\ mapNodes = [f \in Ids |-> {}]
  /\ inflight = {}

Started == {f \in Floods : starter[f] # {}}

\* The hub relays to everybody but the sender (external).
Relayed(n, f, nth) ==
  {[to |-> m, from |-> n, flood |-> f, nth |-> nth] : m \in online \ {n}}

\* The ping command: a new flood id, announced without being registered in the
\* sender's own cache.  A peer may also send a PING without a flood id.
StartPing(n, f) ==
  /\ n \in online /\ starter[f] = {}
  /\ (Cardinality(Started) + 1) * (Cardinality(online) ^ 2 - 1) <= MaxPings
  /\ starter' = [starter EXCEPT ![f] = {n}]
  /\ inflight' = inflight \cup Relayed(n, f, 0)
  /\ UNCHANGED <<online, seen, registered, mapNodes>>

Cached(n, f) == \E i \in DOMAIN seen[n] : seen[n][i] = f

\* Faulty variants of check_flood_id: the empty id is an id like any other,
\* nothing is registered, the newest entry is evicted.
AlreadySeenWithEmpty(n, f) == Cached(n, f)
RegisterNot(n, f) == UNCHANGED seen
EvictedNewest(cache) ==
  IF Len(cache) >= CacheSize THEN SubSeq(cache, 1, CacheSize - 1) ELSE cache

\* check_flood_id: the empty id always counts as seen; a new one evicts the
\* oldest entry when there is no room.
AlreadySeen(n, f) == f = NoFlood \/ Cached(n, f)
Evicted(cache) ==
  IF Len(cache) >= CacheSize THEN Tail(cache) ELSE cache
Register(n, f) == seen' = [seen EXCEPT ![n] = Append(Evicted(@), f)]

\* Faulty variant: the map is fed behind the check for seen floods.
MapPingUnseen(n, p) ==
  mapNodes' = IF starter[p.flood] = {n} /\ ~AlreadySeen(n, p.flood)
              THEN [mapNodes EXCEPT ![p.flood] = @ \cup {p.from}]
              ELSE mapNodes

\* on_ping at the starter, after the protocol's handler: one entry per peer.
MapPing(n, p) ==
  mapNodes' = IF starter[p.flood] = {n} /\ p.flood # NoFlood
              THEN [mapNodes EXCEPT ![p.flood] = @ \cup {p.from}]
              ELSE mapNodes

IgnorePing(n, p) ==
  /\ p.to = n
  /\ AlreadySeen(n, p.flood)
  /\ MapPing(n, p)
  /\ inflight' = inflight \ {p}
  /\ UNCHANGED <<online, starter, seen, registered>>

Answers(n, f) == Cardinality({i \in DOMAIN registered[n] : registered[n][i] = f})

AnswerPing(n, p) ==
  /\ p.to = n
  /\ ~AlreadySeen(n, p.flood)
  /\ Answers(n, p.flood) < MaxAnswers
  /\ Register(n, p.flood)
  /\ registered' = [registered EXCEPT ![n] = Append(@, p.flood)]
  /\ MapPing(n, p)
  /\ inflight' = (inflight \ {p}) \cup Relayed(n, p.flood, Answers(n, p.flood) + 1)
  /\ UNCHANGED <<online, starter>>

Handle == \E p \in inflight : IgnorePing(p.to, p) \/ AnswerPing(p.to, p)

Next == Handle \/ \E n \in Nodes, f \in Ids : StartPing(n, f)

Spec == Init /\ [][Next]_vars

\* Frames that were sent arrive and are handled; nobody has to start a flood.
FairSpec == Spec /\ WF_vars(Handle)

-----------------------------------------------------------------------------
TypeOK ==
  /\ online \subseteq Nodes
  /\ starter \in [Ids -> SUBSET Nodes]
  /\ seen \in [Nodes -> Seq(Floods)]
  /\ registered \in [Nodes -> Seq(Floods)]
  /\ mapNodes \in [Ids -> SUBSET Nodes]
  /\ inflight \subseteq Ping

\* "When the cache exceeds max_size the oldest entries are evicted first"
\* (check_flood_id): a flood that is still in flight is answered again only
\* when the node has registered max_size other floods in between.
FloodsFarApart ==
  \A n \in Nodes : \A i, j \in 1 .. Len(registered[n]) :
    i < j /\ registered[n][i] = registered[n][j] => j - i > CacheSize

\* "The flood_id prevents infinite loops" (docs/message_types.md): while the
\* caches hold all floods, nobody answers one twice, neither when the answers
\* of the others come back nor when it started the flood itself.
RespondsOnce ==
  Cardinality(Started) <= CacheSize =>
    \A n \in Nodes, f \in Floods : Answers(n, f) <= 1

\* Behind it: only floods that somebody started are in flight or answered, and
\* as long as the caches hold them all, a node's answers are to distinct floods.
OnlyStartedFloods ==
  /\ IsFiniteSet(Started)
  /\ \A p \in inflight : p.flood \in Started \cup {NoFlood}
  /\ \A n \in Nodes : \A i \in 1 .. Len(registered[n]) : registered[n][i] \in Started

AnswersDistinct ==
  Cardinality(Started) <= CacheSize =>
    \A n \in Nodes : \A i, j \in 1 .. Len(registered[n]) :
      i # j => registered[n][i] # registered[n][j]

\* A hive answers itself for a while and then falls silent, unless there are
\* more floods than the caches hold.
FloodDiesOut == []<>(inflight = {} \/ Cardinality(Started) > CacheSize)

\* The ping command, given time, ends up with every other node on its map: the
\* cache that silences its protocol handler hides no answer from the map.
MapComplete ==
  \A f \in Floods, n \in Nodes :
    starter[f] = {n} ~> mapNodes[f] = online \ {n} \/ Cardinality(Started) > CacheSize
=============================================================================
