-------------------------- MODULE PingFloodProofs --------------------------
(***************************************************************************)
(* The flood cache keeps the most recent floods, so a node answers a flood *)
(* again only after CacheSize others, for any number of satellites, floods *)
(* and any order of the PINGs.                                             *)
(***************************************************************************)
EXTENDS PingFlood, FiniteSetTheorems, TLAPS

\* The cache of a node is the tail of what it registered, as long as it fits.
CacheIsRecent ==
  \A n \in Nodes :
    /\ Len(seen[n]) = IF Len(registered[n]) < CacheSize THEN Len(registered[n]) ELSE CacheSize
    /\ \A k \in 1 .. Len(seen[n]) :
         seen[n][k] = registered[n][Len(registered[n]) - Len(seen[n]) + k]

IInv == TypeOK /\ CacheIsRecent /\ FloodsFarApart

-----------------------------------------------------------------------------
\* The history is a finite sequence, so answers can be counted.
LEMMA AnswersAreCounted ==
  ASSUME NEW n \in Nodes, NEW f, registered \in [Nodes -> Seq(Floods)]
  PROVE  Answers(n, f) \in Nat
<1> DEFINE S == {i \in DOMAIN registered[n] : registered[n][i] = f}
<1>1. registered[n] \in Seq(Floods)
  OBVIOUS
<1>2. DOMAIN registered[n] = 1 .. Len(registered[n]) /\ Len(registered[n]) \in Nat
  BY <1>1
<1>3. IsFiniteSet(1 .. Len(registered[n]))
  BY <1>2, FS_Interval
<1>4. IsFiniteSet(S)
  BY <1>2, <1>3, FS_Subset
<1> QED
  BY <1>4, FS_CardinalityType DEF Answers

\* What the hub relays are PINGs.
LEMMA RelayedArePings ==
  ASSUME NEW n \in Nodes, NEW f \in Ids, NEW nth \in 0 .. MaxAnswers, online \subseteq Nodes
  PROVE  Relayed(n, f, nth) \subseteq Ping
  BY DEF Relayed, Ping

\* Evicting before appending keeps the newest entries, in order.
LEMMA EvictedKeepsNewest ==
  ASSUME NEW cache \in Seq(Floods), Len(cache) <= CacheSize, NEW f \in Floods
  PROVE  LET new == Append(Evicted(cache), f)
             kept == IF Len(cache) < CacheSize THEN Len(cache) ELSE CacheSize - 1
         IN  /\ new \in Seq(Floods)
             /\ Len(new) = kept + 1
             /\ new[kept + 1] = f
             /\ \A k \in 1 .. kept : new[k] = cache[Len(cache) - kept + k]
<1> DEFINE new == Append(Evicted(cache), f)
           kept == IF Len(cache) < CacheSize THEN Len(cache) ELSE CacheSize - 1
           Goal == /\ new \in Seq(Floods)
                   /\ Len(new) = kept + 1
                   /\ new[kept + 1] = f
                   /\ \A k \in 1 .. kept : new[k] = cache[Len(cache) - kept + k]
<1>1. Len(cache) \in Nat /\ CacheSize \in Nat \ {0}
  BY FloodAssumption
<1>2. ASSUME Len(cache) < CacheSize PROVE Goal
  <2>1. new = Append(cache, f) /\ kept = Len(cache)
    BY <1>1, <1>2 DEF Evicted
  <2> HIDE DEF new, kept
  <2> QED
    BY <1>1, <2>1
<1>3. ASSUME Len(cache) >= CacheSize PROVE Goal
  <2>1. Len(cache) = CacheSize /\ cache # << >>
    BY <1>1, <1>3
  <2>2. new = Append(Tail(cache), f) /\ kept = CacheSize - 1
    BY <1>1, <1>3, <2>1 DEF Evicted
  <2>3. /\ Tail(cache) \in Seq(Floods)
        /\ Len(Tail(cache)) = CacheSize - 1
        /\ \A k \in 1 .. CacheSize - 1 : Tail(cache)[k] = cache[k + 1]
    BY <1>1, <2>1
  <2> HIDE DEF new, kept
  <2>4. \A k \in 1 .. kept : Len(cache) - kept + k = k + 1
    BY <1>1, <2>1, <2>2
  <2> QED
    BY <1>1, <2>2, <2>3, <2>4
<1>4. Goal
  <2> HIDE DEF Goal
  <2> QED
    BY <1>1, <1>2, <1>3
<1> QED
  BY <1>4

-----------------------------------------------------------------------------
LEMMA InitIInv == Init => IInv
<1> SUFFICES ASSUME Init PROVE IInv
  OBVIOUS
<1>1. TypeOK
  BY DEF Init, TypeOK
<1>2. CacheIsRecent
  BY FloodAssumption DEF Init, CacheIsRecent
<1>3. FloodsFarApart
  BY DEF Init, FloodsFarApart
<1> QED
  BY <1>1, <1>2, <1>3 DEF IInv

\* Whatever leaves the caches and the history alone keeps what relates them.
LEMMA CacheUntouched ==
  IInv /\ UNCHANGED <<seen, registered>> => CacheIsRecent' /\ FloodsFarApart'
  BY DEF IInv, CacheIsRecent, FloodsFarApart

LEMMA StartPingIInv ==
  ASSUME NEW n \in Nodes, NEW f \in Ids, IInv, StartPing(n, f)
  PROVE  IInv'
<1>1. Relayed(n, f, 0) \subseteq Ping
  BY RelayedArePings, FloodAssumption DEF IInv, TypeOK
<1>2. TypeOK'
  BY <1>1 DEF IInv, TypeOK, StartPing
<1> QED
  BY <1>2, CacheUntouched DEF IInv, StartPing

LEMMA IgnorePingIInv ==
  ASSUME NEW p \in inflight, IInv, IgnorePing(p.to, p)
  PROVE  IInv'
<1>1. p \in Ping
  BY DEF IInv, TypeOK
<1>2. TypeOK'
  BY <1>1 DEF IInv, TypeOK, IgnorePing, MapPing, Ping
<1> QED
  BY <1>2, CacheUntouched DEF IInv, IgnorePing

LEMMA AnswerPingIInv ==
  ASSUME NEW p \in inflight, IInv, AnswerPing(p.to, p)
  PROVE  IInv'
<1> DEFINE n == p.to
           f == p.flood
           L == Len(registered[n])
           C == Len(seen[n])
<1>1. n \in Nodes /\ f \in Floods /\ p.from \in Nodes
  BY DEF IInv, TypeOK, Ping, Ids, AnswerPing, AlreadySeen
<1>2. /\ registered[n] \in Seq(Floods) /\ seen[n] \in Seq(Floods)
      /\ L \in Nat /\ C \in Nat /\ CacheSize \in Nat \ {0}
      /\ C = IF L < CacheSize THEN L ELSE CacheSize
      /\ \A k \in 1 .. C : seen[n][k] = registered[n][L - C + k]
  <2>1. registered[n] \in Seq(Floods) /\ seen[n] \in Seq(Floods)
    BY <1>1 DEF IInv, TypeOK
  <2>2. /\ C = IF L < CacheSize THEN L ELSE CacheSize
        /\ \A k \in 1 .. C : seen[n][k] = registered[n][L - C + k]
    BY <1>1 DEF IInv, CacheIsRecent
  <2>3. L \in Nat /\ C \in Nat
    BY <2>1
  <2> HIDE DEF L, C
  <2> QED
    BY <2>1, <2>2, <2>3, FloodAssumption
<1>3. registered' = [registered EXCEPT ![n] = Append(@, f)]
  BY DEF AnswerPing
<1>4. /\ registered'[n] = Append(registered[n], f)
      /\ Len(registered'[n]) = L + 1
      /\ registered'[n][L + 1] = f
      /\ \A k \in 1 .. L : registered'[n][k] = registered[n][k]
      /\ registered' \in [Nodes -> Seq(Floods)]
      /\ \A m \in Nodes \ {n} : registered'[m] = registered[m]
  BY <1>1, <1>2, <1>3 DEF IInv, TypeOK
<1> DEFINE kept == IF C < CacheSize THEN C ELSE CacheSize - 1
<1>5. /\ seen'[n] \in Seq(Floods)
      /\ Len(seen'[n]) = kept + 1
      /\ seen'[n][kept + 1] = f
      /\ \A k \in 1 .. kept : seen'[n][k] = seen[n][C - kept + k]
      /\ seen' \in [Nodes -> Seq(Floods)]
      /\ \A m \in Nodes \ {n} : seen'[m] = seen[m]
  <2>1. seen' = [seen EXCEPT ![n] = Append(Evicted(@), f)]
    BY DEF AnswerPing, Register
  <2>2. seen'[n] = Append(Evicted(seen[n]), f)
    BY <1>1, <2>1 DEF IInv, TypeOK
  <2>3. C <= CacheSize
    BY <1>2
  <2> HIDE DEF n, f, C
  <2>4. LET new == Append(Evicted(seen[n]), f)
        IN  /\ new \in Seq(Floods)
            /\ Len(new) = kept + 1
            /\ new[kept + 1] = f
            /\ \A k \in 1 .. kept : new[k] = seen[n][C - kept + k]
    BY <1>1, <1>2, <2>3, EvictedKeepsNewest DEF C
  <2> QED
    BY <1>1, <2>1, <2>2, <2>4 DEF IInv, TypeOK
<1>6. TypeOK'
  <2>1. Answers(n, f) \in Nat /\ Answers(n, f) < MaxAnswers
    BY <1>1, AnswersAreCounted DEF IInv, TypeOK, AnswerPing
  <2>2. Relayed(n, f, Answers(n, f) + 1) \subseteq Ping
    <3>1. Answers(n, f) + 1 \in 0 .. MaxAnswers
      BY <2>1, FloodAssumption
    <3>2. n \in Nodes /\ f \in Ids /\ online \subseteq Nodes
      BY <1>1 DEF IInv, TypeOK, Ids
    <3> QED
      BY <3>1, <3>2, RelayedArePings
  <2>3. inflight' \subseteq Ping
    BY <2>2 DEF IInv, TypeOK, AnswerPing
  <2>4. mapNodes' \in [Ids -> SUBSET Nodes]
    BY <1>1 DEF IInv, TypeOK, AnswerPing, MapPing
  <2> QED
    BY <1>4, <1>5, <2>3, <2>4 DEF IInv, TypeOK, AnswerPing
<1>7. CacheIsRecent'
  <2> SUFFICES ASSUME NEW m \in Nodes
               PROVE  /\ Len(seen'[m]) = IF Len(registered'[m]) < CacheSize
                                         THEN Len(registered'[m]) ELSE CacheSize
                      /\ \A k \in 1 .. Len(seen'[m]) :
                           seen'[m][k] = registered'[m][Len(registered'[m]) - Len(seen'[m]) + k]
    BY DEF CacheIsRecent
  <2>1. CASE m # n
    <3>1. seen'[m] = seen[m] /\ registered'[m] = registered[m]
      BY <2>1, <1>4, <1>5
    <3> HIDE DEF n
    <3> QED
      BY <3>1 DEF IInv, CacheIsRecent
  <2>2. CASE m = n
    <3> HIDE DEF n, f, L, C
    <3>1. kept + 1 = IF L + 1 < CacheSize THEN L + 1 ELSE CacheSize
      BY <1>2
    <3>2. ASSUME NEW k \in 1 .. kept
          PROVE  seen'[n][k] = registered'[n][L - kept + k]
      <4>1. C - kept + k \in 1 .. C /\ L - kept + k \in 1 .. L
        BY <1>2
      <4>2. L - C + (C - kept + k) = L - kept + k
        BY <1>2
      <4>3. seen[n][C - kept + k] = registered[n][L - kept + k]
        BY <1>2, <4>1, <4>2
      <4> QED
        BY <1>4, <1>5, <4>1, <4>3
    <3>3. \A k \in 1 .. kept + 1 : seen'[n][k] = registered'[n][L + 1 - (kept + 1) + k]
      <4> SUFFICES ASSUME NEW k \in 1 .. kept + 1
                   PROVE  seen'[n][k] = registered'[n][L + 1 - (kept + 1) + k]
        OBVIOUS
      <4>1. CASE k = kept + 1
        <5>1. L + 1 - (kept + 1) + k = L + 1
          BY <1>2, <4>1
        <5> QED
          BY <4>1, <5>1, <1>4, <1>5
      <4>2. CASE k # kept + 1
        <5>1. k \in 1 .. kept /\ L + 1 - (kept + 1) + k = L - kept + k
          BY <1>2, <4>2
        <5> QED
          BY <3>2, <5>1
      <4> QED
        BY <4>1, <4>2
    <3>4. Len(seen'[n]) = kept + 1 /\ Len(registered'[n]) = L + 1
      BY <1>4, <1>5
    <3>5. \A k \in 1 .. Len(seen'[n]) :
            seen'[n][k] = registered'[n][Len(registered'[n]) - Len(seen'[n]) + k]
      <4> SUFFICES ASSUME NEW k \in 1 .. Len(seen'[n])
                   PROVE  seen'[n][k]
                          = registered'[n][Len(registered'[n]) - Len(seen'[n]) + k]
        OBVIOUS
      <4>0. kept \in Nat /\ L \in Nat
        BY <1>2
      <4> HIDE DEF kept
      <4>1. k \in 1 .. kept + 1
        BY <3>4
      <4>2. Len(registered'[n]) - Len(seen'[n]) + k = L + 1 - (kept + 1) + k
        BY <3>4, <4>0
      <4>3. seen'[n][k] = registered'[n][L + 1 - (kept + 1) + k]
        BY <3>3, <4>1
      <4> QED
        BY <4>2, <4>3
    <3>6. Len(seen'[n]) = IF Len(registered'[n]) < CacheSize
                          THEN Len(registered'[n]) ELSE CacheSize
      <4> HIDE DEF kept
      <4> QED
        BY <3>1, <3>4
    <3> QED
      BY <2>2, <3>5, <3>6
  <2> QED
    BY <2>1, <2>2
<1>8. FloodsFarApart'
  <2> SUFFICES ASSUME NEW m \in Nodes,
                      NEW i \in 1 .. Len(registered'[m]), NEW j \in 1 .. Len(registered'[m]),
                      i < j, registered'[m][i] = registered'[m][j]
               PROVE  j - i > CacheSize
    BY DEF FloodsFarApart
  <2>1. CASE m # n
    BY <2>1, <1>4 DEF IInv, FloodsFarApart
  <2>2. CASE m = n /\ j <= L
    <3>1. i \in 1 .. L /\ j \in 1 .. L
      BY <1>2, <1>4, <2>2
    <3>2. registered[n][i] = registered[n][j]
      BY <1>4, <2>2, <3>1
    <3> QED
      BY <1>1, <2>2, <3>1, <3>2 DEF IInv, FloodsFarApart
  <2>3. CASE m = n /\ j = L + 1
    \* The flood is not in the cache, so its last answer is further back.
    <3>1. i \in 1 .. L /\ registered[n][i] = f
      <4>1. i \in 1 .. L + 1 /\ registered'[n][i] = registered'[n][L + 1]
        BY <1>4, <2>3
      <4>2. i \in 1 .. L
        BY <1>2, <2>3, <4>1
      <4> QED
        BY <1>4, <4>1, <4>2
    <3>2. \A k \in 1 .. C : seen[n][k] # f
      <4>1. ~Cached(n, f)
        BY DEF AnswerPing, AlreadySeen
      <4> QED
        BY <1>2, <4>1 DEF Cached
    <3>3. ~(i > L - C)
      <4> SUFFICES ASSUME i > L - C PROVE FALSE
        OBVIOUS
      <4> HIDE DEF n, f, L, C
      <4>1. i - (L - C) \in 1 .. C /\ L - C + (i - (L - C)) = i
        BY <1>2, <3>1
      <4> QED
        BY <1>2, <3>1, <3>2, <4>1
    <3> HIDE DEF n, f, L, C
    <3> QED
      BY <1>2, <2>3, <3>1, <3>3
  <2> QED
    BY <2>1, <2>2, <2>3, <1>2, <1>4
<1> QED
  BY <1>6, <1>7, <1>8 DEF IInv

LEMMA NextIInv == IInv /\ [Next]_vars => IInv'
<1> SUFFICES ASSUME IInv, [Next]_vars PROVE IInv'
  OBVIOUS
<1>1. CASE Handle
  BY <1>1, IgnorePingIInv, AnswerPingIInv DEF Handle
<1>2. ASSUME NEW n \in Nodes, NEW f \in Ids, StartPing(n, f) PROVE IInv'
  BY <1>2, StartPingIInv
<1>3. CASE UNCHANGED vars
  BY <1>3 DEF vars, IInv, TypeOK, CacheIsRecent, FloodsFarApart
<1> QED
  BY <1>1, <1>2, <1>3 DEF Next

-----------------------------------------------------------------------------
\* Types: what a node has seen and registered are sequences of real flood ids,
\* whatever arrives, the empty id included.
THEOREM PingTypeCorrect == Spec => []TypeOK
<1>1. IInv => TypeOK
  BY DEF IInv
<1> QED
  BY InitIInv, NextIInv, <1>1, PTL DEF Spec

\* check_flood_id: between two answers of a node to the same flood there are at
\* least CacheSize answers to others, for every hive and every order of PINGs.
THEOREM FloodsStayApart == Spec => []FloodsFarApart
<1>1. IInv => FloodsFarApart
  BY DEF IInv
<1> QED
  BY InitIInv, NextIInv, <1>1, PTL DEF Spec

-----------------------------------------------------------------------------
(* While the caches hold every flood that was started, a node answers each of *)
(* them once.                                                                  *)

OnceInv == OnlyStartedFloods /\ AnswersDistinct

\* Started floods stay started.
LEMMA StartedGrows ==
  ASSUME TypeOK, OnlyStartedFloods, NEW n \in Nodes, NEW f \in Ids, StartPing(n, f)
  PROVE  /\ Started \subseteq Started' /\ IsFiniteSet(Started')
         /\ f \in Started' \cup {NoFlood}
         /\ Cardinality(Started') <= CacheSize => Cardinality(Started) <= CacheSize
<1>1. starter' = [starter EXCEPT ![f] = {n}] /\ starter[f] = {}
  BY DEF StartPing
<1>2. Started' = IF f \in Floods THEN Started \cup {f} ELSE Started
  BY <1>1 DEF Started, TypeOK, Ids
<1>3. IsFiniteSet(Started) /\ IsFiniteSet(Started \cup {f})
  BY FS_AddElement DEF OnlyStartedFloods
<1>4. IsFiniteSet(Started') /\ Started \subseteq Started'
  BY <1>2, <1>3
<1>5. f \in Started' \cup {NoFlood}
  BY <1>2 DEF Ids
<1>6. Cardinality(Started) <= Cardinality(Started')
  BY <1>4, FS_Subset
<1>7. Cardinality(Started) \in Nat /\ Cardinality(Started') \in Nat /\ CacheSize \in Nat
  BY <1>3, <1>4, FS_CardinalityType, FloodAssumption
<1> QED BY <1>4, <1>5, <1>6, <1>7

LEMMA StartPingOnce ==
  ASSUME TypeOK, OnceInv, NEW n \in Nodes, NEW f \in Ids, StartPing(n, f)
  PROVE  OnceInv'
<1>1. /\ Started \subseteq Started' /\ IsFiniteSet(Started')
      /\ f \in Started' \cup {NoFlood}
      /\ Cardinality(Started') <= CacheSize => Cardinality(Started) <= CacheSize
  BY StartedGrows DEF OnceInv
<1>2. registered' = registered /\ inflight' = inflight \cup Relayed(n, f, 0)
  BY DEF StartPing
<1>3. \A p \in Relayed(n, f, 0) : p.flood = f
  BY DEF Relayed
<1>4. OnlyStartedFloods'
  BY <1>1, <1>2, <1>3 DEF OnceInv, OnlyStartedFloods
<1>5. AnswersDistinct'
  BY <1>1, <1>2 DEF OnceInv, AnswersDistinct
<1> QED BY <1>4, <1>5 DEF OnceInv

\* Pigeonhole: a node that answered distinct floods has answered at most as many
\* as were started, so its cache has evicted nothing.
LEMMA NothingEvicted ==
  ASSUME IInv, OnceInv, Cardinality(Started) <= CacheSize, NEW n \in Nodes
  PROVE  /\ Len(registered[n]) <= CacheSize
         /\ \A i \in 1 .. Len(registered[n]) : \E k \in DOMAIN seen[n] :
              seen[n][k] = registered[n][i]
<1> DEFINE L == Len(registered[n])
<1>1. /\ registered[n] \in Seq(Floods) /\ seen[n] \in Seq(Floods)
      /\ Len(seen[n]) = IF L < CacheSize THEN L ELSE CacheSize
      /\ \A k \in 1 .. Len(seen[n]) : seen[n][k] = registered[n][L - Len(seen[n]) + k]
  BY DEF IInv, TypeOK, CacheIsRecent
<1>2. L \in Nat /\ CacheSize \in Nat /\ DOMAIN seen[n] = 1 .. Len(seen[n])
  BY <1>1, FloodAssumption
<1>3. L <= CacheSize
  <2> SUFFICES ASSUME L > CacheSize PROVE FALSE
    BY <1>2
  <2>1. IsFiniteSet(1 .. L) /\ Cardinality(1 .. L) = L
    <3> HIDE DEF L
    <3>1. 1 \in Int /\ L \in Int
      BY <1>2
    <3>2. Cardinality(1 .. L) = IF 1 > L THEN 0 ELSE L - 1 + 1
      BY <3>1, FS_Interval
    <3> QED BY <1>2, <3>1, <3>2, FS_Interval
  <2>2. IsFiniteSet(Started) /\ Cardinality(Started) \in Nat
    BY FS_CardinalityType DEF OnceInv, OnlyStartedFloods
  <2>3. registered[n] \in [1 .. L -> Started]
    BY <1>1, <1>2 DEF OnceInv, OnlyStartedFloods
  <2>4. Cardinality(Started) < Cardinality(1 .. L)
    BY <1>2, <2>1, <2>2
  <2>5. \E i, j \in 1 .. L : i # j /\ registered[n][i] = registered[n][j]
    BY <2>1, <2>2, <2>3, <2>4, FS_PigeonHole
  <2> QED BY <2>5 DEF OnceInv, AnswersDistinct
<1>4. Len(seen[n]) = L
  BY <1>1, <1>2, <1>3
<1>5. ASSUME NEW i \in 1 .. L PROVE seen[n][i] = registered[n][i]
  <2>1. seen[n][i] = registered[n][L - L + i]
    BY <1>1, <1>4
  <2>2. L - L + i = i
    BY <1>2
  <2> QED BY <2>1, <2>2
<1> QED BY <1>2, <1>3, <1>4, <1>5

LEMMA AnswerPingOnce ==
  ASSUME IInv, OnceInv, NEW p \in inflight, AnswerPing(p.to, p)
  PROVE  OnceInv'
<1>1. PICK n, f : n = p.to /\ f = p.flood
  OBVIOUS
<1>2. n \in Nodes /\ f \in Floods
  BY <1>1 DEF IInv, TypeOK, Ping, Ids, AnswerPing, AlreadySeen
<1>3. /\ registered' = [registered EXCEPT ![n] = Append(registered[n], f)]
      /\ ~Cached(n, f)
      /\ Started' = Started
  BY <1>1 DEF AnswerPing, AlreadySeen, Started
<1>4. f \in Started
  BY <1>1, <1>2, FloodAssumption DEF OnceInv, OnlyStartedFloods
<1>5. PICK L : L = Len(registered[n])
  OBVIOUS
<1>6. /\ registered'[n] = Append(registered[n], f)
      /\ \A m \in Nodes : m # n => registered'[m] = registered[m]
      /\ registered[n] \in Seq(Floods) /\ L \in Nat
  BY <1>2, <1>3, <1>5 DEF IInv, TypeOK
<1>7. /\ Len(registered'[n]) = L + 1
      /\ registered'[n][L + 1] = f
      /\ \A k \in 1 .. L : registered'[n][k] = registered[n][k]
  BY <1>2, <1>5, <1>6
<1>8. \A k \in 1 .. Len(registered'[n]) : k \in 1 .. L \/ k = L + 1
  BY <1>6, <1>7
<1>9. OnlyStartedFloods'
  <2>1. ASSUME NEW q \in inflight' PROVE q.flood \in Started' \cup {NoFlood}
    <3>1. q \in inflight \/ q.flood = f
      BY <1>1 DEF AnswerPing, Relayed
    <3> QED BY <1>3, <1>4, <3>1 DEF OnceInv, OnlyStartedFloods
  <2>2. ASSUME NEW m \in Nodes, NEW i \in 1 .. Len(registered'[m])
        PROVE  registered'[m][i] \in Started'
    <3>1. CASE m = n
      BY <1>3, <1>4, <1>5, <1>7, <1>8, <3>1 DEF OnceInv, OnlyStartedFloods
    <3>2. CASE m # n
      BY <1>3, <1>6, <3>2 DEF OnceInv, OnlyStartedFloods
    <3> QED BY <3>1, <3>2
  <2>3. IsFiniteSet(Started')
    BY <1>3 DEF OnceInv, OnlyStartedFloods
  <2> QED BY <2>1, <2>2, <2>3 DEF OnlyStartedFloods
<1>10. AnswersDistinct'
  <2> SUFFICES ASSUME Cardinality(Started) <= CacheSize, NEW m \in Nodes,
                      NEW i \in 1 .. Len(registered'[m]), NEW j \in 1 .. Len(registered'[m]),
                      i # j
               PROVE  registered'[m][i] # registered'[m][j]
    BY <1>3 DEF AnswersDistinct
  <2>1. \A k \in 1 .. L : registered[n][k] # f
    BY <1>2, <1>3, <1>5, NothingEvicted DEF Cached
  <2>2. CASE m = n
    <3>1. i \in 1 .. L \/ i = L + 1
      BY <1>8, <2>2
    <3>2. j \in 1 .. L \/ j = L + 1
      BY <1>8, <2>2
    <3>3. i \in 1 .. L /\ j \in 1 .. L => registered[n][i] # registered[n][j]
      BY <1>2, <1>5 DEF OnceInv, AnswersDistinct
    <3> QED BY <1>7, <2>1, <2>2, <3>1, <3>2, <3>3
  <2>3. CASE m # n
    BY <1>6, <2>3 DEF OnceInv, AnswersDistinct
  <2> QED BY <2>2, <2>3
<1> QED BY <1>9, <1>10 DEF OnceInv

LEMMA NextOnce == IInv /\ OnceInv /\ [Next]_vars => OnceInv'
<1> SUFFICES ASSUME IInv, OnceInv, [Next]_vars PROVE OnceInv'
  OBVIOUS
<1>1. ASSUME NEW p \in inflight, IgnorePing(p.to, p) PROVE OnceInv'
  <2>1. inflight' \subseteq inflight /\ UNCHANGED <<starter, registered>>
    BY <1>1 DEF IgnorePing
  <2>2. Started' = Started
    BY <2>1 DEF Started
  <2> QED BY <2>1, <2>2 DEF OnceInv, OnlyStartedFloods, AnswersDistinct
<1>2. ASSUME NEW p \in inflight, AnswerPing(p.to, p) PROVE OnceInv'
  BY <1>2, AnswerPingOnce
<1>3. ASSUME NEW n \in Nodes, NEW f \in Ids, StartPing(n, f) PROVE OnceInv'
  BY <1>3, StartPingOnce DEF IInv
<1>4. CASE UNCHANGED vars
  <2>1. Started' = Started
    BY <1>4 DEF vars, Started
  <2> QED BY <1>4, <2>1 DEF vars, OnceInv, OnlyStartedFloods, AnswersDistinct
<1> QED BY <1>1, <1>2, <1>3, <1>4 DEF Next, Handle

\* The flood id prevents loops: while the caches hold every flood that was
\* started, no node answers a flood twice, its own included, in any hive.
THEOREM NobodyAnswersTwice == Spec => []RespondsOnce
<1>1. Init => OnceInv
  <2> SUFFICES ASSUME Init PROVE OnceInv
    OBVIOUS
  <2>1. Started = {}
    BY DEF Init, Started, Ids
  <2> QED BY <2>1, FS_EmptySet DEF Init, OnceInv, OnlyStartedFloods, AnswersDistinct
<1>2. IInv /\ OnceInv => RespondsOnce
  <2> SUFFICES ASSUME IInv, AnswersDistinct, Cardinality(Started) <= CacheSize,
                      NEW n \in Nodes, NEW f \in Floods
               PROVE  Answers(n, f) <= 1
    BY DEF OnceInv, RespondsOnce
  <2> DEFINE S == {i \in DOMAIN registered[n] : registered[n][i] = f}
  <2>1. DOMAIN registered[n] = 1 .. Len(registered[n])
    BY DEF IInv, TypeOK
  <2>2. \A i, j \in S : i = j
    BY <2>1 DEF AnswersDistinct
  <2>3. Cardinality(S) <= 1
    <3>1. CASE S = {}
      BY <3>1, FS_EmptySet
    <3>2. CASE S # {}
      <4>1. PICK i \in S : S = {i}
        BY <2>2, <3>2
      <4> HIDE DEF S
      <4>2. Cardinality(S) = 1
        BY <4>1, FS_Singleton
      <4> QED BY <4>2
    <3> QED BY <3>1, <3>2
  <2> QED BY <2>3 DEF Answers
<1> QED
  BY InitIInv, NextIInv, NextOnce, <1>1, <1>2, PTL DEF Spec
=============================================================================
